------------------------------ MODULE KernelProofs -----------------------------
(***************************************************************************)
(* Proofs about Managers and SemLock, the parts that MCKernel checks side  *)
(* by side.  About the two memory managers, for every size of block, of    *)
(* heap and of request, and any number of pointers: what each records is   *)
(* what is held, the buddy manager finds a block whenever one is free, and *)
(* both implement Allocator.  The bitmap manager comes first.  About the   *)
(* locks of sem.c, for any number of processes: two contexts are never in  *)
(* sections of one lock, users are counted, and no wake-up is lost between *)
(* sem_wait and sem_post.                                                  *)
(***************************************************************************)
EXTENDS Managers, SemLock, PidQueueProofs, WellFoundedInduction

\* Sizes are numbers, whatever power of two a block has.
LEMMA ConstantTypes == BLOCK \in Nat \ {0} /\ HeapSizes \subseteq Nat /\ Sizes \subseteq Nat
PROOF BY ManagersAssumption, Zenon

-----------------------------------------------------------------------------
(* The bitmap manager: its inductive invariant.                            *)

Busy      == M!Held
First(p)  == M!Header(bitmap_held[p].at)      \* its header block
Length(p) == bitmap_held[p].len \div BLOCK    \* the blocks behind it
Last(p)   == First(p) + Length(p)

BitmapShapes ==
  /\ heap_size \in Nat /\ total_blocks \in Nat /\ total_blocks = M!Available
  /\ bitmap \subseteq 0..(total_blocks - 1)
  /\ words \in [0..(total_blocks - 1) -> 0..(total_blocks + 1)]
  /\ bitmap_held \in [Pointers -> [at : Nat, len : Nat]]
  /\ used_blocks = Cardinality(bitmap)

\* A block held is a header that says how long it is and the blocks behind it.
HeadersTrue ==
  \A p \in Busy :
    /\ First(p) \in Nat /\ Length(p) \in Nat \ {0} /\ Last(p) < total_blocks
    /\ bitmap_held[p] = [at |-> (First(p) + 1) * BLOCK, len |-> Length(p) * BLOCK]
    /\ words[First(p)] = Length(p)

SpansApart == \A p, q \in Busy : p # q => Last(p) < First(q) \/ Last(q) < First(p)

BitsTrue == \A b \in Nat : b \in bitmap <=> \E p \in Busy : b \in First(p)..Last(p)

BitmapInv == BitmapShapes /\ HeadersTrue /\ SpansApart /\ BitsTrue

-----------------------------------------------------------------------------
(* Arithmetic of blocks.                                                   *)

\* A number of blocks in bytes is that number of blocks again.
LEMMA BlocksOfBytes ==
  ASSUME NEW a \in Nat, NEW d \in Nat \ {0}
  PROVE  (a * d) \div d = a /\ (a * d) % d = 0
PROOF OBVIOUS

\* Rounding up gives room for what was asked.
LEMMA RoundedUp ==
  ASSUME NEW n \in Nat, NEW d \in Nat \ {0}
  PROVE  /\ (n + d - 1) \div d \in Nat
         /\ ((n + d - 1) \div d) * d >= n
         /\ n # 0 => (n + d - 1) \div d # 0
PROOF OBVIOUS

\* Rounding down stays within what is there.
LEMMA RoundedDown ==
  ASSUME NEW n \in Nat, NEW d \in Nat \ {0}
  PROVE  n \div d \in Nat /\ (n \div d) * d <= n
PROOF OBVIOUS

\* More blocks have more bytes.
LEMMA TimesMonotone ==
  ASSUME NEW n \in Nat, NEW m \in Nat, NEW d \in Nat, n <= m
  PROVE  n * d <= m * d
PROOF OBVIOUS

\* A search from the first block on finds the least of those it looks for.
LEMMA FirstFit ==
  ASSUME NEW F \in SUBSET Nat, F # {}
  PROVE  M!Min(F) \in F
PROOF
<1>1. PICK i \in F : \A j \in F : ~(<<j, i>> \in OpToRel(<, Nat))
  BY NatLessThanWellFounded, WFMin
<1>2. \A j \in F : ~(j < i)
  BY <1>1 DEF OpToRel
<1>3. \A j \in F : i <= j
  BY <1>2
<1> QED BY <1>3 DEF M!Min

-----------------------------------------------------------------------------
(* The blocks held.                                                        *)

\* What HeadersTrue says of the variable of a block.
LEMMA BlockShape ==
  ASSUME NEW s \in Nat, NEW n \in Nat
  PROVE  /\ M!Header((s + 1) * BLOCK) = s
         /\ (n * BLOCK) \div BLOCK = n
         /\ (s + 1) * BLOCK \in Nat /\ (s + 1) * BLOCK # 0 /\ n * BLOCK \in Nat
         /\ ((s + 1) * BLOCK) % BLOCK = 0
PROOF
<1>1. s + 1 \in Nat /\ BLOCK \in Nat \ {0}
  BY ConstantTypes
<1>2. ((s + 1) * BLOCK) \div BLOCK = s + 1 /\ ((s + 1) * BLOCK) % BLOCK = 0
  BY <1>1, BlocksOfBytes
<1>3. (n * BLOCK) \div BLOCK = n
  BY <1>1, BlocksOfBytes
<1>4. (s + 1) * BLOCK \in Nat /\ (s + 1) * BLOCK # 0 /\ n * BLOCK \in Nat
  BY <1>1
<1>5. M!Header((s + 1) * BLOCK) = s
  BY <1>2 DEF M!Header
<1> QED BY <1>2, <1>3, <1>4, <1>5

\* mm_alloc marks a header and the blocks behind it, which were all free.
LEMMA AllocKeeps ==
  ASSUME BitmapInv, NEW p \in Pointers, NEW size \in Sizes, p \notin Busy, M!MmAlloc(p, size)
  PROVE  /\ BitmapInv'
         /\ total_blocks' = total_blocks
         /\ bitmap_held' = [bitmap_held EXCEPT ![p] = bitmap_held'[p]]
         /\ p \in Busy'
         /\ bitmap_held'[p].len >= size
PROOF
<1>. USE DEF BitmapInv
<1>1. size \in Nat /\ size # 0 /\ BLOCK \in Nat \ {0}
  BY ConstantTypes DEF M!MmAlloc
<1>2. PICK user : user = M!CeilDiv(size, BLOCK)
  OBVIOUS
<1>3. user \in Nat \ {0} /\ user * BLOCK >= size
  BY <1>1, <1>2, RoundedUp DEF M!CeilDiv
<1>4. M!Needed(size) = user + 1
  BY <1>2 DEF M!Needed
<1>5. PICK start : start = M!Min(M!Fits(user + 1))
  OBVIOUS
<1>6. start \in M!Fits(user + 1)
  <2>1. M!Fits(user + 1) \subseteq Nat
    BY DEF M!Fits
  <2>2. M!Fits(user + 1) # {}
    BY <1>4 DEF M!MmAlloc
  <2> QED BY <1>5, <2>1, <2>2, FirstFit
<1>7. /\ start \in Nat /\ start + user < total_blocks
      /\ \A b \in start..(start + user) : b \notin bitmap
  BY <1>3, <1>6 DEF M!Fits, M!Span, BitmapShapes
<1>8. /\ bitmap' = bitmap \cup (start..(start + user))
      /\ used_blocks' = used_blocks + (user + 1)
      /\ words' = [b \in DOMAIN words |->
           IF b = start THEN user
           ELSE IF b \in (start + 1)..(start + user) THEN total_blocks + 1 ELSE words[b]]
      /\ bitmap_held' = [bitmap_held EXCEPT ![p] =
           [at |-> (start + 1) * BLOCK, len |-> user * BLOCK]]
      /\ UNCHANGED <<heap_size, total_blocks>>
  <2>1. /\ start + (user + 1) - 1 = start + user
        /\ start + 1 + user - 1 = start + user
    BY <1>3, <1>7
  <2> QED BY <1>2, <1>4, <1>5, <2>1 DEF M!MmAlloc, M!Span, M!Junk
<1>9. /\ bitmap_held'[p] = [at |-> (start + 1) * BLOCK, len |-> user * BLOCK]
      /\ \A q \in Pointers \ {p} : bitmap_held'[q] = bitmap_held[q]
      /\ bitmap_held' \in [Pointers -> [at : Nat, len : Nat]]
      /\ First(p)' = start /\ Length(p)' = user
      /\ bitmap_held'[p].at # 0
  BY <1>3, <1>7, <1>8, BlockShape DEF BitmapShapes, First, Length, M!Header
<1>10. /\ p \in Busy'
       /\ \A q \in Pointers \ {p} :
            /\ q \in Busy' <=> q \in Busy
            /\ First(q)' = First(q) /\ Length(q)' = Length(q)
  BY <1>9 DEF Busy, M!Held, M!Nothing, First, Length, M!Header
<1>11. BitmapShapes'
  <2>1. used_blocks' = Cardinality(bitmap')
    <3>1. IsFiniteSet(bitmap)
      <4>1. IsFiniteSet(0..(total_blocks - 1))
        BY FS_Interval DEF BitmapShapes
      <4> QED BY <4>1, FS_Subset DEF BitmapShapes
    <3>2. /\ IsFiniteSet(start..(start + user))
          /\ Cardinality(start..(start + user)) = user + 1
      BY <1>3, <1>7, FS_Interval
    <3>3. bitmap \cap (start..(start + user)) = {}
      BY <1>7
    <3>4. Cardinality({}) = 0 /\ Cardinality(bitmap) \in Nat
      BY <3>1, FS_EmptySet, FS_CardinalityType
    <3>5. Cardinality(bitmap \cup (start..(start + user)))
            = Cardinality(bitmap) + Cardinality(start..(start + user))
              - Cardinality(bitmap \cap (start..(start + user)))
      BY <3>1, <3>2, FS_Union
    <3>6. /\ Cardinality(bitmap) + (user + 1) - 0 = Cardinality(bitmap) + (user + 1)
          /\ used_blocks' = Cardinality(bitmap) + (user + 1)
      BY <3>4, <1>3, <1>8 DEF BitmapShapes
    <3>7. bitmap' = bitmap \cup (start..(start + user))
      BY <1>8
    <3> QED BY ONLY <3>2, <3>3, <3>4, <3>5, <3>6, <3>7
  <2>2. bitmap' \subseteq 0..(total_blocks - 1)
    BY <1>3, <1>7, <1>8 DEF BitmapShapes
  <2>3. words' \in [0..(total_blocks - 1) -> 0..(total_blocks + 1)]
    BY <1>3, <1>7, <1>8 DEF BitmapShapes
  <2>4. total_blocks' = M!Available'
    BY <1>8 DEF BitmapShapes, M!Available, M!BitmapBytes
  <2> QED BY <2>1, <2>2, <2>3, <2>4, <1>8, <1>9 DEF BitmapShapes
<1>12. \A q \in Busy : Last(q) < start \/ start + user < First(q)
  <2>1. ASSUME NEW q \in Busy
        PROVE  Last(q) < start \/ start + user < First(q)
    <3>1. /\ First(q) \in Nat /\ Length(q) \in Nat /\ Last(q) = First(q) + Length(q)
      BY DEF HeadersTrue, Last
    <3>2. \A b \in First(q)..Last(q) : b \in bitmap
      BY <3>1 DEF BitsTrue
    <3>3. First(q) \notin start..(start + user) /\ start \notin First(q)..Last(q)
      BY <3>1, <3>2, <1>3, <1>7
    <3> QED BY <3>1, <3>3, <1>3, <1>7
  <2> QED BY <2>1
<1>13. HeadersTrue'
  <2>1. ASSUME NEW q \in Busy', q # p
        PROVE  words'[First(q)] = words[First(q)]
    <3>1. q \in Busy /\ First(q) \in 0..(total_blocks - 1) /\ Length(q) \in Nat
      BY <2>1, <1>10 DEF HeadersTrue, Busy, M!Held, Last, BitmapShapes
    <3>2. First(q) \notin start..(start + user)
      BY <3>1, <1>12, <1>3, <1>7 DEF Last
    <3> QED BY <3>1, <3>2, <1>3, <1>7, <1>8 DEF BitmapShapes
  <2>2. ASSUME NEW q \in Busy', q # p
        PROVE  /\ First(q)' \in Nat /\ Length(q)' \in Nat \ {0} /\ Last(q)' < total_blocks'
               /\ bitmap_held'[q] = [at |-> (First(q)' + 1) * BLOCK, len |-> Length(q)' * BLOCK]
               /\ words'[First(q)'] = Length(q)'
    <3>1. q \in Pointers /\ q \in Busy
      BY <2>2, <1>10 DEF Busy, M!Held
    <3>2. /\ First(q)' = First(q) /\ Length(q)' = Length(q) /\ Last(q)' = Last(q)
          /\ bitmap_held'[q] = bitmap_held[q] /\ words'[First(q)] = words[First(q)]
      BY <3>1, <2>1, <2>2, <1>9, <1>10 DEF Last
    <3>3. /\ First(q) \in Nat /\ Length(q) \in Nat \ {0} /\ Last(q) < total_blocks
          /\ bitmap_held[q] = [at |-> (First(q) + 1) * BLOCK, len |-> Length(q) * BLOCK]
          /\ words[First(q)] = Length(q)
      BY <3>1 DEF HeadersTrue
    <3> QED BY ONLY <3>2, <3>3, <1>8
  <2>3. /\ First(p)' \in Nat /\ Length(p)' \in Nat \ {0} /\ Last(p)' < total_blocks'
        /\ bitmap_held'[p] = [at |-> (First(p)' + 1) * BLOCK, len |-> Length(p)' * BLOCK]
        /\ words'[First(p)'] = Length(p)'
    BY <1>3, <1>7, <1>8, <1>9 DEF Last, BitmapShapes
  <2> QED BY <2>2, <2>3 DEF HeadersTrue
<1>14. SpansApart'
  BY <1>9, <1>10, <1>12 DEF SpansApart, Last, Busy, M!Held
<1>15. BitsTrue'
  <2>1. ASSUME NEW b \in Nat
        PROVE  b \in bitmap' <=> \E q \in Busy' : b \in First(q)'..Last(q)'
    <3>1. b \in bitmap' <=> b \in bitmap \/ b \in start..(start + user)
      BY <1>8
    <3>2. b \in First(p)'..Last(p)' <=> b \in start..(start + user)
      BY <1>9 DEF Last
    <3>3. ASSUME NEW q \in Pointers \ {p}
          PROVE  q \in Busy' /\ b \in First(q)'..Last(q)' <=> q \in Busy /\ b \in First(q)..Last(q)
      BY <1>10 DEF Last
    <3>4. Busy \subseteq Pointers \ {p} /\ Busy' \subseteq Pointers
      BY DEF Busy, M!Held
    <3> QED BY <3>1, <3>2, <3>3, <3>4, <1>10 DEF BitsTrue
  <2> QED BY <2>1 DEF BitsTrue
<1> QED BY <1>3, <1>8, <1>9, <1>10, <1>11, <1>13, <1>14, <1>15

\* Any call of mm_alloc by somebody who holds nothing.
LEMMA AllocCallKeeps ==
  ASSUME BitmapInv, NEW p \in Pointers, NEW size \in Sizes, p \notin Busy, M!AllocCall(p, size)
  PROVE  BitmapInv'
PROOF
<1>1. CASE M!MmAlloc(p, size)
  BY <1>1, AllocKeeps
<1>2. CASE UNCHANGED M!bitmapvars
  BY <1>2 DEF M!bitmapvars, BitmapInv, BitmapShapes, HeadersTrue, SpansApart, BitsTrue, Busy,
     M!Held, First, Length, Last, M!Header, M!Available, M!BitmapBytes
<1> QED BY <1>1, <1>2 DEF M!AllocCall, M!MmAllocNull

\* An address with a marked header that callers free is that of a block held.
LEMMA FreeableIsHeld ==
  ASSUME BitmapInv, NEW at \in M!FreedByCallers \cup {NULL}, M!Freeable(at)
  PROVE  \E p \in Busy : bitmap_held[p].at = at
PROOF
<1>1. at # NULL
  <2>1. CASE at = NULL
    <3>1. M!Header(at) \in bitmap /\ bitmap \subseteq 0..(total_blocks - 1)
      BY DEF M!Freeable, BitmapInv, BitmapShapes
    <3>2. M!Header(at) < 0
      BY <2>1, ConstantTypes DEF M!Header, NULL
    <3>3. M!Header(at) \in 0..(total_blocks - 1)
      BY <3>1
    <3>4. 0 <= M!Header(at)
      BY <3>3
    <3>5. M!Header(at) \in Int
      BY <3>3
    <3> QED BY ONLY <3>2, <3>4, <3>5
  <2> QED BY <2>1
<1> QED BY <1>1 DEF M!Freeable, M!FreedByCallers, Busy

\* mm_free clears the bits of the block at the address, and of no other.
LEMMA FreeKeeps ==
  ASSUME BitmapInv, NEW p \in Busy, M!MmFree(bitmap_held[p].at)
  PROVE  /\ BitmapInv'
         /\ total_blocks' = total_blocks
         /\ bitmap_held' = [bitmap_held EXCEPT ![p] = M!Nothing]
PROOF
<1>. USE DEF BitmapInv
<1>1. /\ p \in Pointers /\ First(p) \in Nat /\ Length(p) \in Nat \ {0} /\ Last(p) < total_blocks
      /\ words[First(p)] = Length(p) /\ Last(p) = First(p) + Length(p)
  BY DEF HeadersTrue, Busy, M!Held, Last
<1>2. /\ bitmap' = bitmap \ (First(p)..Last(p))
      /\ used_blocks' = used_blocks - (Length(p) + 1)
      /\ bitmap_held' = [q \in Pointers |->
           IF bitmap_held[q].at = bitmap_held[p].at THEN M!Nothing ELSE bitmap_held[q]]
      /\ UNCHANGED <<heap_size, total_blocks, words>>
      /\ bitmap_held[p].at # 0
  <2>1. First(p) + (Length(p) + 1) - 1 = First(p) + Length(p)
    BY <1>1
  <2>2. M!Header(bitmap_held[p].at) = First(p)
    BY DEF First
  <2> QED BY <1>1, <2>1, <2>2 DEF M!MmFree, M!Freed, M!Span, M!Freeable
<1>3. ASSUME NEW q \in Pointers, q # p
      PROVE  bitmap_held'[q] = bitmap_held[q]
  <2>1. CASE q \in Busy
    <3>1. First(q) # First(p)
      <4>1. /\ First(q) \in Nat /\ Length(q) \in Nat /\ Last(q) = First(q) + Length(q)
        BY <2>1 DEF HeadersTrue, Last
      <4>2. Last(p) < First(q) \/ Last(q) < First(p)
        BY <1>3, <2>1 DEF SpansApart
      <4> QED BY <1>1, <4>1, <4>2
    <3>2. bitmap_held[q].at # bitmap_held[p].at
      BY <3>1 DEF First
    <3> QED BY <3>2, <1>2
  <2>2. CASE q \notin Busy
    BY <2>2, <1>2 DEF Busy, M!Held, M!Nothing
  <2> QED BY <2>1, <2>2
<1>4. bitmap_held'[p] = M!Nothing
  BY <1>1, <1>2
<1>5. bitmap_held' = [bitmap_held EXCEPT ![p] = M!Nothing]
  BY <1>1, <1>2, <1>3, <1>4 DEF BitmapShapes
<1>6. /\ p \notin Busy'
      /\ \A q \in Pointers \ {p} :
           /\ q \in Busy' <=> q \in Busy
           /\ First(q)' = First(q) /\ Length(q)' = Length(q) /\ Last(q)' = Last(q)
  BY <1>3, <1>4 DEF Busy, M!Held, First, Length, Last, M!Header
<1>7. Busy \subseteq Pointers /\ Busy' \subseteq Pointers \ {p}
  BY <1>6 DEF Busy, M!Held
<1>8. BitmapShapes'
  <2>1. used_blocks' = Cardinality(bitmap')
    <3>1. IsFiniteSet(bitmap)
      <4>1. IsFiniteSet(0..(total_blocks - 1))
        BY FS_Interval DEF BitmapShapes
      <4> QED BY <4>1, FS_Subset DEF BitmapShapes
    <3>2. Cardinality(First(p)..Last(p)) = Length(p) + 1
      BY <1>1, FS_Interval
    <3>3. bitmap \cap (First(p)..Last(p)) = First(p)..Last(p)
      BY <1>1 DEF BitsTrue
    <3>4. Cardinality(bitmap \ (First(p)..Last(p)))
            = Cardinality(bitmap) - Cardinality(bitmap \cap (First(p)..Last(p)))
      BY <3>1, FS_Difference
    <3> QED BY <3>2, <3>3, <3>4, <1>2 DEF BitmapShapes
  <2>2. bitmap_held' \in [Pointers -> [at : Nat, len : Nat]]
    BY <1>5 DEF BitmapShapes, M!Nothing
  <2>3. total_blocks' = M!Available'
    BY <1>2 DEF BitmapShapes, M!Available, M!BitmapBytes
  <2> QED BY <2>1, <2>2, <2>3, <1>2 DEF BitmapShapes
<1>9. HeadersTrue'
  BY <1>2, <1>3, <1>6, <1>7 DEF HeadersTrue
<1>10. SpansApart'
  BY <1>6, <1>7 DEF SpansApart
<1>11. BitsTrue'
  <2>1. ASSUME NEW b \in Nat
        PROVE  b \in bitmap' <=> \E q \in Busy' : b \in First(q)'..Last(q)'
    <3>1. b \in bitmap' <=> b \in bitmap /\ b \notin First(p)..Last(p)
      BY <1>2
    <3>2. ASSUME NEW q \in Busy, q # p, b \in First(q)..Last(q)
          PROVE  b \notin First(p)..Last(p)
      <4>1. /\ First(q) \in Nat /\ Length(q) \in Nat /\ Last(q) = First(q) + Length(q)
        BY DEF HeadersTrue, Last
      <4>2. Last(p) < First(q) \/ Last(q) < First(p)
        BY <3>2 DEF SpansApart
      <4> QED BY <1>1, <3>2, <4>1, <4>2
    <3>3. b \in bitmap <=> \E q \in Busy : b \in First(q)..Last(q)
      BY DEF BitsTrue
    <3>4. \A q \in Busy' : q \in Busy /\ q # p /\ First(q)' = First(q) /\ Last(q)' = Last(q)
      BY <1>6, <1>7
    <3>5. \A q \in Busy : q # p => q \in Busy'
      BY <1>6, <1>7
    <3> QED BY <3>1, <3>2, <3>3, <3>4, <3>5
  <2> QED BY <2>1 DEF BitsTrue
<1> QED BY <1>2, <1>5, <1>8, <1>9, <1>10, <1>11

\* Any call of mm_free.
LEMMA FreeCallKeeps ==
  ASSUME BitmapInv, NEW at \in M!FreedByCallers \cup {NULL}, M!FreeCall(at)
  PROVE  BitmapInv'
PROOF
<1>1. CASE M!MmFree(at)
  BY <1>1, FreeableIsHeld, FreeKeeps DEF M!MmFree
<1>2. CASE UNCHANGED M!bitmapvars
  BY <1>2 DEF M!bitmapvars, BitmapInv, BitmapShapes, HeadersTrue, SpansApart, BitsTrue, Busy,
     M!Held, First, Length, Last, M!Header, M!Available, M!BitmapBytes
<1> QED BY <1>1, <1>2 DEF M!FreeCall, M!MmFreeNothing

-----------------------------------------------------------------------------
(* The theorems about the bitmap manager.                                  *)

\* A call on both managers is one of these on the bitmap manager.
LEMMA StepsOfBitmap ==
  ASSUME BitmapInv, ManagersNext
  PROVE  \/ \E p \in Pointers, size \in Sizes : p \notin Busy /\ M!AllocCall(p, size)
         \/ \E at \in M!FreedByCallers \cup {NULL} : M!FreeCall(at)
PROOF
<1>1. \A p \in Pointers : p \in Busy <=> bitmap_held[p] # B!Nothing
  BY DEF Busy, M!Held, M!Nothing, B!Nothing
<1>2. \A p \in Busy : bitmap_held[p].at \in Nat /\ p \in Pointers
  BY DEF Busy, M!Held, BitmapInv, BitmapShapes
<1>3. ASSUME NEW p \in Pointers, NEW size \in Sizes, Alloc(p, size)
      PROVE  p \notin Busy /\ M!AllocCall(p, size)
  <2>1. PointerIn(bitmap_held, p) = NULL /\ M!AllocCall(p, size)
    BY <1>3 DEF Alloc
  <2>2. p \notin Busy
    BY <2>1, <1>1, <1>2 DEF PointerIn, NULL
  <2> QED BY <2>1, <2>2
<1>4. ASSUME NEW p \in Pointers, Free(p)
      PROVE  \E at \in M!FreedByCallers \cup {NULL} : M!FreeCall(at)
  <2>1. M!FreeCall(PointerIn(bitmap_held, p))
    BY <1>4 DEF Free
  <2>2. PointerIn(bitmap_held, p) \in M!FreedByCallers \cup {NULL}
    BY <1>1 DEF PointerIn, M!FreedByCallers, Busy
  <2> QED BY <2>1, <2>2
<1>5. ASSUME NEW at \in M!Addresses, FreeStray(at)
      PROVE  at \in M!FreedByCallers /\ M!FreeCall(at)
  BY <1>5 DEF FreeStray
<1> QED BY <1>3, <1>4, <1>5 DEF ManagersNext

\* What mm_init leaves.
LEMMA InitKeeps == ManagersInit => BitmapInv
PROOF
<1>. SUFFICES ASSUME ManagersInit PROVE BitmapInv
  OBVIOUS
<1>1. /\ heap_size \in Nat /\ total_blocks = M!Available /\ bitmap = {}
      /\ words = [b \in 0..(total_blocks - 1) |-> 0] /\ used_blocks = 0
      /\ bitmap_held = [p \in Pointers |-> M!Nothing]
  BY ConstantTypes DEF ManagersInit, M!BitmapInit
<1>2. M!BitmapBytes \in Int
  BY <1>1, ConstantTypes DEF M!BitmapBytes, M!CeilDiv, M!BITS_PER_WORD
<1>3. total_blocks \in Nat
  <2>1. CASE M!BitmapBytes < heap_size
    <3>1. heap_size - M!BitmapBytes \in Nat
      BY <2>1, <1>1, <1>2
    <3>2. (heap_size - M!BitmapBytes) \div BLOCK \in Nat
      BY <3>1, ConstantTypes, RoundedDown
    <3> QED BY <3>2, <1>1 DEF M!Available
  <2>2. CASE ~(M!BitmapBytes < heap_size)
    BY <2>2, <1>1 DEF M!Available
  <2> QED BY <2>1, <2>2
<1>4. Busy = {}
  BY <1>1 DEF Busy, M!Held
<1>5. BitmapShapes
  BY <1>1, <1>3, FS_EmptySet DEF BitmapShapes, M!Nothing
<1> QED BY <1>1, <1>4, <1>5 DEF BitmapInv, HeadersTrue, SpansApart, BitsTrue

\* The bits, the headers and the blocks held agree after any history of calls,
\* those that fail and those that free what is free included.
THEOREM BitmapInvariant == ManagersSpec => []BitmapInv
PROOF
<1>1. BitmapInv /\ [ManagersNext]_managersvars => BitmapInv'
  <2>. SUFFICES ASSUME BitmapInv, [ManagersNext]_managersvars PROVE BitmapInv'
    OBVIOUS
  <2>1. CASE ManagersNext
    BY <2>1, StepsOfBitmap, AllocCallKeeps, FreeCallKeeps
  <2>2. CASE UNCHANGED managersvars
    BY <2>2 DEF managersvars, BitmapInv, BitmapShapes, HeadersTrue, SpansApart, BitsTrue, Busy,
       M!Held, First, Length, Last, M!Header, M!Available, M!BitmapBytes
  <2> QED BY <2>1, <2>2
<1> QED BY <1>1, InitKeeps, PTL DEF ManagersSpec

\* g_bitmap marks the blocks held and their headers, each header has the length
\* of its block, and mm_state counts the bits (bitmap_mm.c).
THEOREM BitsAreExact == ManagersSpec => []BitmapExact
PROOF
<1>1. ASSUME BitmapInv PROVE BitmapExact
  <2>. USE <1>1 DEF BitmapInv
  <2>1. ASSUME NEW p \in Busy
        PROVE  /\ M!SpanOf(bitmap_held[p]) = First(p)..Last(p)
               /\ First(p)..Last(p) \subseteq Nat
               /\ words[M!Header(bitmap_held[p].at)] = bitmap_held[p].len \div BLOCK
    <3>1. /\ First(p) \in Nat /\ Length(p) \in Nat /\ Last(p) = First(p) + Length(p)
          /\ words[First(p)] = Length(p)
      BY DEF HeadersTrue, Last
    <3>2. First(p) + (Length(p) + 1) - 1 = Last(p)
      BY <3>1
    <3>3. M!SpanOf(bitmap_held[p]) = First(p)..(First(p) + (Length(p) + 1) - 1)
      BY DEF M!SpanOf, M!Span, First, Length
    <3> QED BY <3>1, <3>2, <3>3 DEF First, Length
  <2>2. bitmap \subseteq Nat
    BY DEF BitmapShapes
  <2>3. bitmap = UNION {M!SpanOf(bitmap_held[p]) : p \in M!Held}
    BY <2>1, <2>2 DEF BitsTrue, Busy
  <2>4. used_blocks = M!Cardinality(bitmap)
    BY DEF BitmapShapes, M!Cardinality, Cardinality
  <2>5. \A p \in M!Held : words[M!Header(bitmap_held[p].at)] = bitmap_held[p].len \div BLOCK
    BY <2>1 DEF Busy
  <2> QED BY ONLY <2>3, <2>4, <2>5 DEF BitmapExact, M!BitmapExact
<1> QED BY <1>1, BitmapInvariant, PTL

\* What the bitmap manager keeps for itself and what it hands out fit in the
\* memory given to mm_init, and used_blocks never passes the total.
THEOREM BitmapFits == ManagersSpec => []M!BitmapTypeOK
PROOF
<1>1. ASSUME BitmapInv PROVE M!BitmapTypeOK
  <2>. USE <1>1 DEF BitmapInv
  <2>1. used_blocks \in 0..total_blocks
    <3>1. /\ IsFiniteSet(0..(total_blocks - 1))
          /\ Cardinality(0..(total_blocks - 1)) = total_blocks
      BY FS_Interval DEF BitmapShapes
    <3>2. IsFiniteSet(bitmap) /\ Cardinality(bitmap) <= Cardinality(0..(total_blocks - 1))
      BY <3>1, FS_Subset DEF BitmapShapes
    <3>3. Cardinality(bitmap) \in Nat
      BY <3>2, FS_CardinalityType
    <3> QED BY <3>1, <3>2, <3>3 DEF BitmapShapes
  <2>2. M!BitmapBytes + total_blocks * BLOCK <= heap_size \/ total_blocks = 0
    <3>1. M!BitmapBytes \in Int
      BY ConstantTypes DEF M!BitmapBytes, M!CeilDiv, M!BITS_PER_WORD, BitmapShapes
    <3>2. CASE M!BitmapBytes < heap_size
      <4>1. heap_size - M!BitmapBytes \in Nat
        BY <3>1, <3>2 DEF BitmapShapes
      <4>2. ((heap_size - M!BitmapBytes) \div BLOCK) * BLOCK <= heap_size - M!BitmapBytes
        BY <4>1, ConstantTypes, RoundedDown
      <4>3. total_blocks = 0 \/ total_blocks = (heap_size - M!BitmapBytes) \div BLOCK
        BY DEF M!Available, BitmapShapes
      <4>4. total_blocks = 0 \/ total_blocks * BLOCK <= heap_size - M!BitmapBytes
        BY <4>2, <4>3
      <4>5. total_blocks * BLOCK \in Int /\ heap_size \in Int
        BY ConstantTypes DEF BitmapShapes
      <4> QED BY <4>4, <4>5, <3>1
    <3>3. CASE ~(M!BitmapBytes < heap_size)
      BY <3>3 DEF M!Available, BitmapShapes
    <3> QED BY <3>2, <3>3
  <2> QED BY <2>1, <2>2 DEF M!BitmapTypeOK, BitmapShapes
<1> QED BY <1>1, BitmapInvariant, PTL

\* A block that mm_alloc returns is aligned, long enough, inside the heap, and
\* shares no byte with one that is held; mm_free gives back one block.
THEOREM BitmapImplementsAllocator == ManagersSpec => BitmapIsAllocator
PROOF
<1>. DEFINE total == total_blocks * BLOCK
<1>1. ManagersInit => M!Blocks!AllocatorInit
  BY DEF ManagersInit, M!BitmapInit, M!Blocks!AllocatorInit, M!Nothing, M!Blocks!Nothing
<1>2. ASSUME BitmapInv, NEW p \in Pointers, NEW size \in Sizes, p \notin Busy, M!MmAlloc(p, size)
      PROVE  M!Blocks!AllocatorNext
  <2>1. /\ BitmapInv' /\ total_blocks' = total_blocks
        /\ bitmap_held' = [bitmap_held EXCEPT ![p] = bitmap_held'[p]]
        /\ p \in Busy' /\ bitmap_held'[p].len >= size
    BY <1>2, AllocKeeps
  <2>2. bitmap_held[p] = M!Nothing /\ bitmap_held'[p] # M!Nothing
    BY <1>2, <2>1 DEF Busy, M!Held
  <2>3. /\ First(p)' \in Nat /\ Length(p)' \in Nat /\ Last(p)' < total_blocks
        /\ bitmap_held'[p] = [at |-> (First(p)' + 1) * BLOCK, len |-> Length(p)' * BLOCK]
        /\ Last(p)' = First(p)' + Length(p)' /\ total_blocks \in Nat
    BY <2>1 DEF BitmapInv, HeadersTrue, Last, BitmapShapes
  <2>4. /\ bitmap_held'[p].at % BLOCK = 0
        /\ bitmap_held'[p].at + bitmap_held'[p].len <= total
    <3>1. bitmap_held'[p].at % BLOCK = 0
      BY <2>3, BlockShape
    <3>2. (Last(p)' + 1) * BLOCK <= total_blocks * BLOCK
      BY <2>3, TimesMonotone, ConstantTypes
    <3>3. (Last(p)' + 1) * BLOCK = (First(p)' + 1) * BLOCK + Length(p)' * BLOCK
      BY <2>3, ConstantTypes
    <3> QED BY <2>3, <3>1, <3>2, <3>3
  <2>5. ASSUME NEW q \in Pointers, bitmap_held[q] # M!Nothing
        PROVE  M!Blocks!Disjoint(bitmap_held'[p], bitmap_held[q])
    <3>1. q \in Busy' /\ q # p /\ bitmap_held'[q] = bitmap_held[q]
      BY <2>1, <2>2, <2>5 DEF Busy, M!Held, BitmapInv, BitmapShapes
    <3>2. /\ First(q)' \in Nat /\ Length(q)' \in Nat /\ Last(q)' = First(q)' + Length(q)'
          /\ bitmap_held'[q] = [at |-> (First(q)' + 1) * BLOCK, len |-> Length(q)' * BLOCK]
      BY <2>1, <3>1 DEF BitmapInv, HeadersTrue, Last
    <3>3. Last(p)' < First(q)' \/ Last(q)' < First(p)'
      BY <2>1, <3>1 DEF BitmapInv, SpansApart
    <3>4. /\ (Last(p)' + 1) * BLOCK = (First(p)' + 1) * BLOCK + Length(p)' * BLOCK
          /\ (Last(q)' + 1) * BLOCK = (First(q)' + 1) * BLOCK + Length(q)' * BLOCK
      BY <2>3, <3>2, ConstantTypes
    <3>5. CASE Last(p)' < First(q)'
      <4>1. (Last(p)' + 1) * BLOCK <= (First(q)' + 1) * BLOCK
        BY <3>5, <2>3, <3>2, TimesMonotone, ConstantTypes
      <4> QED BY <4>1, <2>3, <3>1, <3>2, <3>4 DEF M!Blocks!Disjoint
    <3>6. CASE Last(q)' < First(p)'
      <4>1. (Last(q)' + 1) * BLOCK <= (First(p)' + 1) * BLOCK
        BY <3>6, <2>3, <3>2, TimesMonotone, ConstantTypes
      <4> QED BY <4>1, <2>3, <3>1, <3>2, <3>4 DEF M!Blocks!Disjoint
    <3> QED BY <3>3, <3>5, <3>6
  <2>6. M!Blocks!Alloc(p, size)
    BY <2>1, <2>2, <2>4, <2>5 DEF M!Blocks!Alloc, M!Blocks!Nothing, M!Nothing
  <2> QED BY <2>1, <2>6 DEF M!Blocks!AllocatorNext
<1>3. ASSUME BitmapInv, NEW at \in M!FreedByCallers \cup {NULL}, M!MmFree(at)
      PROVE  M!Blocks!AllocatorNext
  <2>1. PICK p \in Busy : bitmap_held[p].at = at
    BY <1>3, FreeableIsHeld DEF M!MmFree
  <2>2. total_blocks' = total_blocks /\ bitmap_held' = [bitmap_held EXCEPT ![p] = M!Nothing]
    BY <1>3, <2>1, FreeKeeps
  <2>3. p \in Pointers /\ M!Blocks!Free(p)
    BY <2>2 DEF Busy, M!Held, M!Blocks!Free, M!Nothing, M!Blocks!Nothing
  <2> QED BY <2>2, <2>3 DEF M!Blocks!AllocatorNext
<1>4. BitmapInv /\ [ManagersNext]_managersvars
        => [M!Blocks!AllocatorNext]_<<total_blocks * BLOCK, bitmap_held>>
  <2>. SUFFICES ASSUME BitmapInv, [ManagersNext]_managersvars,
                       ~UNCHANGED <<total_blocks * BLOCK, bitmap_held>>
                PROVE  M!Blocks!AllocatorNext
    OBVIOUS
  <2>1. ManagersNext /\ ~UNCHANGED M!bitmapvars
    BY DEF managersvars, M!bitmapvars
  <2>2. \/ \E p \in Pointers, size \in Sizes : p \notin Busy /\ M!MmAlloc(p, size)
        \/ \E at \in M!FreedByCallers \cup {NULL} : M!MmFree(at)
    BY <2>1, StepsOfBitmap DEF M!AllocCall, M!MmAllocNull, M!FreeCall, M!MmFreeNothing
  <2> QED BY <2>2, <1>2, <1>3
<1> QED BY <1>1, <1>4, BitmapInvariant, PTL
    DEF ManagersSpec, BitmapIsAllocator, M!BitmapIsAllocator, M!Blocks!AllocatorSpec

-----------------------------------------------------------------------------
(* The buddy manager.  First, induction over numbers, for a set of them,   *)
(* and powers of two.                                                      *)

\* A set with 0 and with the next of each of its numbers has all of them.
LEMMA Counting ==
  ASSUME NEW S, 0 \in S, \A k \in Nat : k \in S => k + 1 \in S
  PROVE  Nat \subseteq S
PROOF
<1>. SUFFICES ASSUME Nat \ S # {} PROVE FALSE
  OBVIOUS
<1>1. PICK i \in Nat \ S : \A j \in Nat \ S : ~(<<j, i>> \in OpToRel(<, Nat))
  BY NatLessThanWellFounded, WFMin
<1>2. \A j \in Nat \ S : ~(j < i)
  BY <1>1 DEF OpToRel
<1>3. i - 1 \in Nat
  OBVIOUS
<1>4. i - 1 \in S
  BY <1>2, <1>3
<1> QED BY <1>3, <1>4

\* A set has twice as many subsets with one more element.
LEMMA Powers ==
  /\ 2^0 = 1
  /\ \A n \in Nat : 2^n \in Nat \ {0} /\ 2^(n + 1) = 2 * 2^n
PROOF
<1>. DEFINE Sub(n) == SUBSET (1..n)
            Big(n) == {A \in SUBSET (1..(n + 1)) : n + 1 \in A}
<1>1. ASSUME NEW n \in Nat
      PROVE  IsFiniteSet(Sub(n)) /\ Cardinality(Sub(n)) = 2^n /\ 2^n \in Nat
  <2>1. IsFiniteSet(1..n) /\ Cardinality(1..n) = n
    BY FS_Interval
  <2>2. IsFiniteSet(Sub(n)) /\ Cardinality(Sub(n)) = 2^n
    BY <2>1, FS_SUBSET
  <2> QED BY <2>2, FS_CardinalityType
<1>2. 2^0 = 1
  <2>1. Sub(0) = {{}}
    OBVIOUS
  <2>2. Cardinality({{}}) = 1
    BY FS_Singleton
  <2> QED BY <1>1, <2>1, <2>2
<1>3. ASSUME NEW n \in Nat PROVE 2^(n + 1) = 2 * 2^n
  <2>1. Sub(n + 1) = Sub(n) \cup Big(n) /\ Sub(n) \cap Big(n) = {}
    OBVIOUS
  <2>2. Cardinality(Big(n)) = Cardinality(Sub(n))
    <3>. DEFINE f == [A \in Sub(n) |-> A \cup {n + 1}]
    <3>1. f \in Bijection(Sub(n), Big(n))
      <4>1. ASSUME NEW A \in Sub(n) PROVE f[A] \in Big(n) /\ f[A] \ {n + 1} = A
        OBVIOUS
      <4>2. ASSUME NEW A \in Big(n) PROVE A \ {n + 1} \in Sub(n) /\ f[A \ {n + 1}] = A
        <5>1. A \ {n + 1} \in Sub(n)
          OBVIOUS
        <5>2. (A \ {n + 1}) \cup {n + 1} = A
          OBVIOUS
        <5> QED BY <5>1, <5>2
      <4>3. f \in [Sub(n) -> Big(n)]
        BY <4>1
      <4>. HIDE DEF f, Sub, Big
      <4>4. \A A, C \in Sub(n) : f[A] = f[C] => A = C
        BY <4>1
      <4>5. \A C \in Big(n) : \E A \in Sub(n) : f[A] = C
        BY <4>2
      <4> QED BY <4>3, <4>4, <4>5 DEF Bijection, Injection, Surjection, IsInjective
    <3>2. IsFiniteSet(Sub(n))
      BY <1>1
    <3> QED BY <3>1, <3>2, FS_Bijection DEF ExistsBijection
  <2>3. IsFiniteSet(Sub(n)) /\ IsFiniteSet(Sub(n + 1)) /\ Cardinality(Sub(n + 1)) = 2^(n + 1)
        /\ Cardinality(Sub(n)) = 2^n /\ 2^n \in Nat
    <3>1. n + 1 \in Nat
      OBVIOUS
    <3> QED BY <1>1, <3>1
  <2>. HIDE DEF Sub, Big
  <2>4. IsFiniteSet(Big(n))
    <3>1. Big(n) \subseteq Sub(n + 1)
      BY <2>1
    <3> QED BY <2>3, <3>1, FS_Subset
  <2>5. Cardinality(Sub(n) \cup Big(n)) =
          Cardinality(Sub(n)) + Cardinality(Big(n)) - Cardinality(Sub(n) \cap Big(n))
    BY <2>3, <2>4, FS_Union
  <2>6. Cardinality(Sub(n) \cap Big(n)) = 0
    BY <2>1, FS_EmptySet
  <2>7. ASSUME NEW c \in Nat, NEW d, d = c + c - 0 PROVE d = 2 * c
    BY <2>7
  <2>8. 2^(n + 1) = 2^n + 2^n - 0
    BY <2>1, <2>2, <2>3, <2>5, <2>6
  <2> QED BY <2>3, <2>7, <2>8
<1>4. \A n \in Nat : 2^n # 0
  <2>. DEFINE S == {n \in Nat : 2^n # 0}
  <2>1. 0 \in S
    BY <1>2
  <2>2. \A n \in Nat : n \in S => n + 1 \in S
    BY <1>1, <1>3
  <2>. HIDE DEF S
  <2>3. Nat \subseteq S
    BY <2>1, <2>2, Counting
  <2> QED BY <2>3 DEF S
<1> QED BY <1>1, <1>2, <1>3, <1>4

\* The powers grow, and multiply where the exponents add.
LEMMA PowersAdd ==
  ASSUME NEW a \in Nat, NEW b \in Nat
  PROVE  2^(a + b) = 2^a * 2^b
PROOF
<1>. DEFINE S == {n \in Nat : 2^(a + n) = 2^a * 2^n}
<1>1. 0 \in S
  BY Powers
<1>2. ASSUME NEW n \in Nat, n \in S PROVE n + 1 \in S
  <2>1. 2^(a + (n + 1)) = 2 * 2^(a + n)
    <3>1. a + (n + 1) = (a + n) + 1 /\ a + n \in Nat
      OBVIOUS
    <3> QED BY <3>1, Powers
  <2>2. 2^(n + 1) = 2 * 2^n /\ 2^n \in Nat /\ 2^a \in Nat
    BY Powers
  <2>3. 2^a * (2 * 2^n) = 2 * (2^a * 2^n)
    BY <2>2
  <2> QED BY <1>2, <2>1, <2>2, <2>3
<1>. HIDE DEF S
<1>3. Nat \subseteq S
  BY <1>1, <1>2, Counting
<1> QED BY <1>3 DEF S

\* Powers of two grow with the exponent, and faster.
LEMMA PowersGrow ==
  ASSUME NEW a \in Nat, NEW b \in Nat
  PROVE  /\ a <= b => 2^a <= 2^b
         /\ a < b => 2^(a + 1) <= 2^b
         /\ a < 2^a
PROOF
<1>1. ASSUME NEW c \in Nat, NEW d \in Nat, c <= d PROVE 2^c <= 2^d
  <2>1. d - c \in Nat /\ d = c + (d - c)
    BY <1>1
  <2>2. 2^d = 2^c * 2^(d - c)
    BY <2>1, PowersAdd
  <2>3. 2^c \in Nat \ {0} /\ 2^(d - c) \in Nat \ {0}
    BY <2>1, Powers
  <2>4. ASSUME NEW x \in Nat \ {0}, NEW y \in Nat \ {0} PROVE x <= x * y
    OBVIOUS
  <2> QED BY <2>2, <2>3, <2>4
<1>2. a < b => 2^(a + 1) <= 2^b
  BY <1>1
<1>3. a < 2^a
  <2>. DEFINE S == {n \in Nat : n < 2^n}
  <2>1. 0 \in S
    BY Powers
  <2>2. \A n \in Nat : n \in S => n + 1 \in S
    BY Powers
  <2>. HIDE DEF S
  <2>3. Nat \subseteq S
    BY <2>1, <2>2, Counting
  <2> QED BY <2>3 DEF S
<1> QED BY <1>1, <1>2, <1>3

\* my_log2 finds the only power that brackets a number.
LEMMA LogIs ==
  ASSUME NEW n \in Nat \ {0}, NEW r \in Nat, 2^r <= n, n < 2^(r + 1)
  PROVE  B!Log2(n) = r
PROOF
<1>1. r \in 0..n
  <2>1. r < 2^r /\ 2^r \in Nat
    BY Powers, PowersGrow
  <2> QED BY <2>1
<1>2. ASSUME NEW q \in 0..n, 2^q <= n, n < 2^(q + 1) PROVE q = r
  <2>1. q < r => 2^(q + 1) <= 2^r
    BY PowersGrow
  <2>2. r < q => 2^(r + 1) <= 2^q
    BY PowersGrow
  <2>3. 2^q \in Nat /\ 2^r \in Nat /\ 2^(q + 1) \in Nat /\ 2^(r + 1) \in Nat
    BY Powers
  <2> QED BY <1>2, <2>1, <2>2, <2>3
<1>3. \E q \in 0..n : 2^q <= n /\ n < 2^(q + 1)
  BY <1>1
<1> QED BY <1>2, <1>3 DEF B!Log2

\* my_log2 of a number is the exponent of the greatest power within it.
LEMMA LogExists ==
  ASSUME NEW n \in Nat \ {0}
  PROVE  B!Log2(n) \in Nat /\ 2^B!Log2(n) <= n /\ n < 2^(B!Log2(n) + 1)
PROOF
<1>. DEFINE S == {k \in Nat : n < 2^(k + 1)}
<1>1. n \in S
  <2>1. n < 2^n /\ 2^n <= 2^(n + 1) /\ 2^n \in Nat /\ 2^(n + 1) \in Nat
    BY Powers, PowersGrow
  <2> QED BY <2>1
<1>2. PICK r \in S : \A j \in S : ~(<<j, r>> \in OpToRel(<, Nat))
  BY <1>1, NatLessThanWellFounded, WFMin
<1>3. \A j \in S : ~(j < r)
  BY <1>2 DEF OpToRel
<1>4. 2^r <= n
  <2>1. CASE r = 0
    BY <2>1, Powers
  <2>2. CASE r # 0
    <3>1. r - 1 \in Nat /\ (r - 1) + 1 = r
      BY <2>2
    <3>2. r - 1 \notin S
      BY <1>3, <3>1
    <3>3. ~(n < 2^r)
      BY <3>1, <3>2
    <3> QED BY <3>3, Powers
  <2> QED BY <2>1, <2>2
<1> QED BY <1>4, LogIs

-----------------------------------------------------------------------------
(* The nodes: 2^k times half of a node is its k-th ancestor.               *)

\* Halving a quotient halves the number first.
LEMMA HalfAgain ==
  ASSUME NEW n \in Nat, NEW d \in Nat \ {0}
  PROVE  n \div (2 * d) = (n \div d) \div 2
PROOF OBVIOUS

\* The nodes of a level are those from one power of two to the next.
LEMMA LevelBounds ==
  ASSUME NEW n \in Nat \ {0}
  PROVE  B!Level(n) \in Nat /\ 2^B!Level(n) <= n /\ n < 2^(B!Level(n) + 1)
PROOF BY LogExists DEF B!Level

\* Children are one level below, the parent one level above.
LEMMA LevelFacts ==
  ASSUME NEW n \in Nat \ {0}
  PROVE  /\ B!Level(n) \in Nat
         /\ B!Level(2 * n) = B!Level(n) + 1 /\ B!Level(2 * n + 1) = B!Level(n) + 1
         /\ B!Level(n) = 0 <=> n = 1
         /\ n >= 2 => n \div 2 \in Nat \ {0} /\ B!Level(n \div 2) = B!Level(n) - 1
PROOF
<1>1. \A m \in Nat \ {0} : /\ B!Level(m) \in Nat
                           /\ 2^B!Level(m) <= m /\ m < 2^(B!Level(m) + 1)
  BY LevelBounds
<1>2. ASSUME NEW m \in Nat \ {0}, NEW c \in {2 * m, 2 * m + 1} PROVE B!Level(c) = B!Level(m) + 1
  <2>. DEFINE r == B!Level(m)
  <2>1. r \in Nat /\ 2^r <= m /\ m < 2^(r + 1)
    BY <1>1
  <2>2. 2^(r + 1) = 2 * 2^r /\ 2^(r + 1 + 1) = 2 * 2^(r + 1) /\ 2^r \in Nat /\ 2^(r + 1) \in Nat
    BY <2>1, Powers
  <2>. HIDE DEF r
  <2>3. c \in Nat \ {0} /\ r + 1 \in Nat /\ 2^(r + 1) <= c /\ c < 2^(r + 1 + 1)
    BY <2>1, <2>2
  <2>4. B!Log2(c) = r + 1
    BY <2>3, LogIs
  <2> QED BY <2>4 DEF B!Level, r
<1>3. B!Level(1) = 0
  <2>1. ASSUME NEW r \in Nat, r = 0 PROVE B!Log2(1) = r
    <3>1. 2^r = 1 /\ 2^(r + 1) = 2 * 2^r
      BY <2>1, Powers
    <3>2. 2^r <= 1 /\ 1 < 2^(r + 1)
      BY <3>1
    <3> QED BY <3>2, LogIs
  <2> QED BY <2>1 DEF B!Level
<1>4. ASSUME n >= 2
      PROVE  n \div 2 \in Nat \ {0} /\ B!Level(n \div 2) = B!Level(n) - 1 /\ B!Level(n) # 0
  <2>1. PICK h \in Nat \ {0} : h = n \div 2 /\ n \in {2 * h, 2 * h + 1}
    <3>1. n \div 2 \in Nat \ {0} /\ n \in {2 * (n \div 2), 2 * (n \div 2) + 1}
      BY <1>4
    <3> QED BY <3>1
  <2>2. B!Level(n) = B!Level(h) + 1 /\ B!Level(h) \in Nat
    BY <1>1, <1>2, <2>1
  <2> QED BY <2>1, <2>2
<1>5. B!Level(n) = 0 <=> n = 1
  BY <1>3, <1>4
<1>6. B!Level(n) \in Nat
  BY <1>1
<1> QED BY <1>2, <1>4, <1>5, <1>6

\* The k-th ancestor of n, itself when k is 0.
Above(n, k) == n \div 2^k

\* Going up k times goes up k levels, from a node to the root at last.
LEMMA AboveFacts ==
  ASSUME NEW n \in Nat \ {0}
  PROVE  /\ Above(n, 0) = n
         /\ \A k \in 0..B!Level(n) : /\ Above(n, k) \in Nat \ {0}
                                     /\ B!Level(Above(n, k)) = B!Level(n) - k
                                     /\ Above(n, k) <= n
         /\ \A k \in Nat : Above(n, k + 1) = Above(n, k) \div 2
         /\ \A k \in Nat : Above(n, k + 1) = Above(n \div 2, k)
         /\ Above(n, B!Level(n)) = 1
PROOF
<1>1. Above(n, 0) = n
  BY Powers DEF Above
<1>2. ASSUME NEW k \in Nat
      PROVE  Above(n, k + 1) = Above(n, k) \div 2 /\ Above(n, k + 1) = Above(n \div 2, k)
  <2>1. 2^(k + 1) = 2 * 2^k /\ 2^k \in Nat \ {0}
    BY Powers
  <2>2. ASSUME NEW d \in Nat \ {0} PROVE n \div (2 * d) = (n \div 2) \div d
    BY <2>2
  <2> QED BY <2>1, <2>2, HalfAgain DEF Above
<1>3. B!Level(n) \in Nat
  BY LevelFacts
<1>4. \A k \in 0..B!Level(n) : /\ Above(n, k) \in Nat \ {0}
                               /\ B!Level(Above(n, k)) = B!Level(n) - k
                               /\ Above(n, k) <= n
  <2>. DEFINE P(k) == k <= B!Level(n) => /\ Above(n, k) \in Nat \ {0}
                                         /\ B!Level(Above(n, k)) = B!Level(n) - k
                                         /\ Above(n, k) <= n
              S == {k \in Nat : P(k)}
  <2>1. 0 \in S
    BY <1>1, <1>3
  <2>2. ASSUME NEW k \in Nat, k \in S PROVE k + 1 \in S
    <3>1. SUFFICES ASSUME k + 1 <= B!Level(n) PROVE P(k + 1)
      OBVIOUS
    <3>2. PICK a \in Nat \ {0} : a = Above(n, k) /\ B!Level(a) = B!Level(n) - k /\ a <= n
      BY <1>3, <2>2, <3>1
    <3>3. a >= 2
      <4>1. B!Level(a) # 0
        BY <1>3, <3>1, <3>2
      <4>2. a # 1
        BY <4>1, LevelFacts
      <4> QED BY <4>2
    <3>4. a \div 2 \in Nat \ {0} /\ B!Level(a \div 2) = B!Level(a) - 1 /\ a \div 2 <= a
      <4>1. a \div 2 \in Nat \ {0} /\ B!Level(a \div 2) = B!Level(a) - 1
        BY <3>3, LevelFacts
      <4>2. a \div 2 <= a
        OBVIOUS
      <4> QED BY <4>1, <4>2
    <3>5. Above(n, k + 1) = a \div 2
      BY <1>2, <3>2
    <3> QED BY <1>3, <3>2, <3>4, <3>5
  <2>. HIDE DEF S
  <2>3. Nat \subseteq S
    BY <2>1, <2>2, Counting
  <2> QED BY <1>3, <2>3 DEF S
<1>5. Above(n, B!Level(n)) = 1
  <2>1. B!Level(n) \in 0..B!Level(n)
    BY <1>3
  <2>2. Above(n, B!Level(n)) \in Nat \ {0} /\ B!Level(Above(n, B!Level(n))) = 0
    BY <1>3, <1>4, <2>1
  <2> QED BY <2>2, LevelFacts
<1> QED BY <1>1, <1>2, <1>4, <1>5

\* The ancestors are what is above.
LEMMA AncestorsAbove ==
  ASSUME NEW n \in Nat \ {0}
  PROVE  B!Ancestors(n) = {Above(n, k) : k \in 1..B!Level(n)}
PROOF BY DEF B!Ancestors, Above

\* The nodes of a tree of some levels.
LEMMA NodesFacts ==
  ASSUME levels \in Nat
  PROVE  /\ \A n : n \in B!Nodes <=> n \in Nat \ {0} /\ B!Level(n) < levels
         /\ \A n \in B!Nodes : \A k \in 0..B!Level(n) : Above(n, k) \in B!Nodes
         /\ \A n \in Nat \ {0} : 2 * n \in B!Nodes <=> 2 * n + 1 \in B!Nodes
         /\ \A n \in Nat \ {0} : 2 * n \in B!Nodes => n \in B!Nodes
         /\ \A n \in B!Nodes : n >= 2 => n \div 2 \in B!Nodes
PROOF
<1>1. ASSUME NEW n \in Nat \ {0} PROVE n \in B!Nodes <=> B!Level(n) < levels
  <2>. DEFINE l == B!Level(n)
  <2>1. l \in Nat /\ 2^l <= n /\ n < 2^(l + 1)
    BY LevelBounds
  <2>2. 2^levels \in Nat /\ 2^l \in Nat /\ 2^(l + 1) \in Nat
    BY <2>1, Powers
  <2>3. l < levels => 2^(l + 1) <= 2^levels
    BY <2>1, PowersGrow
  <2>4. levels <= l => 2^levels <= 2^l
    BY <2>1, PowersGrow
  <2>. HIDE DEF l
  <2>5. n \in 1..(2^levels - 1) <=> l < levels
    BY <2>1, <2>2, <2>3, <2>4
  <2> QED BY <2>5 DEF B!Nodes, l
<1>2. \A n : n \in B!Nodes => n \in Nat \ {0}
  BY Powers DEF B!Nodes
<1>3. \A n \in Nat \ {0} : B!Level(n) \in Nat
  BY LevelFacts
<1>4. \A n \in B!Nodes : \A k \in 0..B!Level(n) : Above(n, k) \in B!Nodes
  <2>1. ASSUME NEW n \in B!Nodes, NEW k \in 0..B!Level(n) PROVE Above(n, k) \in B!Nodes
    <3>1. n \in Nat \ {0} /\ B!Level(n) < levels /\ B!Level(n) \in Nat
      BY <1>1, <1>2, <1>3
    <3>2. Above(n, k) \in Nat \ {0} /\ B!Level(Above(n, k)) = B!Level(n) - k
      BY <3>1, AboveFacts
    <3>3. B!Level(Above(n, k)) < levels
      BY <3>1, <3>2
    <3> QED BY <1>1, <3>2, <3>3
  <2> QED BY <2>1
<1>5. \A n \in Nat \ {0} : /\ 2 * n \in B!Nodes <=> 2 * n + 1 \in B!Nodes
                           /\ 2 * n \in B!Nodes => n \in B!Nodes
  <2>1. ASSUME NEW n \in Nat \ {0}
        PROVE  /\ 2 * n \in B!Nodes <=> 2 * n + 1 \in B!Nodes
               /\ 2 * n \in B!Nodes => n \in B!Nodes
    <3>1. 2 * n \in Nat \ {0} /\ 2 * n + 1 \in Nat \ {0}
      OBVIOUS
    <3>2. B!Level(2 * n) = B!Level(n) + 1 /\ B!Level(2 * n + 1) = B!Level(n) + 1
      BY LevelFacts
    <3>3. /\ 2 * n \in B!Nodes <=> B!Level(n) + 1 < levels
          /\ 2 * n + 1 \in B!Nodes <=> B!Level(n) + 1 < levels
          /\ n \in B!Nodes <=> B!Level(n) < levels
      BY <1>1, <3>1, <3>2
    <3> QED BY <1>3, <3>3
  <2> QED BY <2>1
<1>6. ASSUME NEW n \in B!Nodes, n >= 2 PROVE n \div 2 \in B!Nodes
  <2>1. n \in Nat \ {0} /\ B!Level(n) < levels /\ B!Level(n) \in Nat
    BY <1>1, <1>2, <1>3
  <2>2. n \div 2 \in Nat \ {0} /\ B!Level(n \div 2) = B!Level(n) - 1
    BY <1>6, <2>1, LevelFacts
  <2>3. B!Level(n \div 2) < levels
    BY <2>1, <2>2
  <2> QED BY <1>1, <2>2, <2>3
<1> QED BY <1>1, <1>2, <1>4, <1>5, <1>6

-----------------------------------------------------------------------------
(* The blocks of the nodes.                                                *)

\* What mm_init leaves: nothing to hand out, or a power of two of bytes, at the
\* leaves of the tree in blocks of at least BLOCK.
LayoutTrue ==
  /\ levels \in Nat
  /\ \/ total_size = 0 /\ levels = 0
     \/ /\ levels # 0
        /\ \E e \in Nat : /\ total_size = 2^e /\ levels - 1 <= e
                          /\ BLOCK * 2^(levels - 1) <= 2^e

\* A product divided by a factor is the other one.
LEMMA ExactQuotient ==
  ASSUME NEW a \in Nat, NEW d \in Nat \ {0}
  PROVE  (d * a) \div d = a
PROOF OBVIOUS

\* A block has a power of two of bytes, half of those of its parent.
LEMMA BlockSizes ==
  ASSUME LayoutTrue, NEW n \in B!Nodes
  PROVE  /\ n \in Nat \ {0}
         /\ \E e \in Nat : /\ total_size = 2^e /\ B!Level(n) <= e
                           /\ B!BlockSize(n) = 2^(e - B!Level(n))
         /\ total_size \in Nat \ {0} /\ B!BlockSize(n) \in Nat \ {0}
         /\ 2^B!Level(n) * B!BlockSize(n) = total_size
         /\ n >= 2 => B!BlockSize(n \div 2) = 2 * B!BlockSize(n)
PROOF
<1>1. levels \in Nat /\ n \in Nat \ {0} /\ B!Level(n) < levels /\ B!Level(n) \in Nat
  BY NodesFacts, LevelFacts DEF LayoutTrue
<1>2. PICK e \in Nat : total_size = 2^e /\ levels - 1 <= e
  BY <1>1 DEF LayoutTrue
<1>3. ASSUME NEW l \in Nat, l <= e
      PROVE  2^e \div 2^l = 2^(e - l) /\ 2^l * 2^(e - l) = 2^e
  <2>1. e - l \in Nat /\ e = l + (e - l)
    BY <1>3
  <2>2. 2^e = 2^l * 2^(e - l)
    BY <2>1, PowersAdd
  <2>3. 2^l \in Nat \ {0} /\ 2^(e - l) \in Nat
    BY <2>1, Powers
  <2> QED BY <2>2, <2>3, ExactQuotient
<1>4. B!Level(n) <= e /\ e - B!Level(n) \in Nat
  BY <1>1, <1>2
<1>5. B!BlockSize(n) = 2^(e - B!Level(n)) /\ 2^B!Level(n) * B!BlockSize(n) = total_size
  BY <1>1, <1>2, <1>3, <1>4 DEF B!BlockSize
<1>6. total_size \in Nat \ {0} /\ B!BlockSize(n) \in Nat \ {0}
  BY <1>2, <1>4, <1>5, Powers
<1>7. ASSUME n >= 2 PROVE B!BlockSize(n \div 2) = 2 * B!BlockSize(n)
  <2>1. B!Level(n \div 2) = B!Level(n) - 1 /\ B!Level(n) # 0
    <3>1. n # 1
      BY <1>7
    <3> QED BY <1>1, <1>7, <3>1, LevelFacts
  <2>. DEFINE l == B!Level(n) - 1
  <2>2. l \in Nat /\ l <= e /\ e - l = (e - B!Level(n)) + 1
    BY <1>1, <1>4, <2>1
  <2>3. B!BlockSize(n \div 2) = 2^(e - l)
    BY <1>2, <1>3, <2>1, <2>2 DEF B!BlockSize
  <2>4. 2^(e - l) = 2 * 2^(e - B!Level(n))
    BY <1>4, <2>2, Powers
  <2> QED BY <1>5, <2>3, <2>4
<1> QED BY <1>1, <1>2, <1>4, <1>5, <1>6, <1>7

\* A block is within the heap, and is the left or the right half of its parent's.
LEMMA Addresses ==
  ASSUME LayoutTrue, NEW n \in B!Nodes
  PROVE  /\ B!Address(n) \in Nat
         /\ B!Address(n) + B!BlockSize(n) <= total_size
         /\ n >= 2 => \/ B!Address(n) = B!Address(n \div 2)
                      \/ B!Address(n) = B!Address(n \div 2) + B!BlockSize(n)
PROOF
<1>. DEFINE l == B!Level(n)  b == B!BlockSize(n)
<1>1. /\ n \in Nat \ {0} /\ b \in Nat \ {0} /\ total_size \in Nat /\ 2^l * b = total_size
      /\ l \in Nat /\ 2^l <= n /\ n < 2^(l + 1) /\ 2^(l + 1) = 2 * 2^l /\ 2^l \in Nat
  BY BlockSizes, LevelBounds, Powers
<1>2. B!Address(n) = (n - 2^l) * b
  BY DEF B!Address
<1>. HIDE DEF l, b
<1>3. PICK x \in Nat : x = n - 2^l /\ x + 1 <= 2^l
  BY <1>1
<1>4. x * b \in Nat /\ x * b + b <= 2^l * b
  <2>1. ASSUME NEW y \in Nat, NEW z \in Nat, NEW c \in Nat, y + 1 <= z PROVE y * c + c <= z * c
    <3>1. (y + 1) * c <= z * c /\ (y + 1) * c = y * c + c
      BY <2>1
    <3> QED BY <3>1
  <2> QED BY <1>1, <1>3, <2>1
<1>5. ASSUME n >= 2
      PROVE  \/ B!Address(n) = B!Address(n \div 2)
             \/ B!Address(n) = B!Address(n \div 2) + b
  <2>. DEFINE h == n \div 2
  <2>1. /\ h \in Nat \ {0} /\ (n = 2 * h \/ n = 2 * h + 1)
        /\ B!Level(h) = l - 1 /\ B!BlockSize(h) = 2 * b /\ l # 0
    <3>1. h \in Nat \ {0} /\ (n = 2 * h \/ n = 2 * h + 1) /\ n # 1
      BY <1>1, <1>5
    <3>2. B!Level(h) = l - 1 /\ l # 0
      BY <1>1, <1>5, <3>1, LevelFacts DEF l
    <3> QED BY <1>5, <3>1, <3>2, BlockSizes DEF b
  <2>2. PICK k \in Nat : k = l - 1 /\ l = k + 1
    BY <1>1, <2>1
  <2>3. 2^l = 2 * 2^k /\ 2^k \in Nat
    BY <2>2, Powers
  <2>4. B!Address(h) = (h - 2^k) * (2 * b)
    BY <2>1, <2>2 DEF B!Address
  <2>. HIDE DEF h
  <2>5. PICK y \in Int : y = h - 2^k
    BY <2>1, <2>3
  <2>6. x = 2 * y \/ x = 2 * y + 1
    BY <1>3, <2>1, <2>3, <2>5
  <2>7. (2 * y) * b = y * (2 * b) /\ (2 * y + 1) * b = y * (2 * b) + b
    BY <1>1
  <2> QED BY <1>2, <1>3, <2>4, <2>5, <2>6, <2>7 DEF h
<1> QED BY <1>1, <1>2, <1>3, <1>4, <1>5 DEF b

\* The block of a node is within those of the nodes above it.
LEMMA Within ==
  ASSUME LayoutTrue, NEW n \in B!Nodes, NEW k \in 0..B!Level(n)
  PROVE  /\ B!Address(Above(n, k)) <= B!Address(n)
         /\ B!Address(n) + B!BlockSize(n) <= B!Address(Above(n, k)) + B!BlockSize(Above(n, k))
PROOF
<1>. DEFINE In(j) == /\ B!Address(Above(n, j)) <= B!Address(n)
                     /\ B!Address(n) + B!BlockSize(n)
                          <= B!Address(Above(n, j)) + B!BlockSize(Above(n, j))
            S == {j \in Nat : j <= B!Level(n) => In(j)}
<1>1. n \in Nat \ {0} /\ B!Level(n) \in Nat /\ levels \in Nat
  BY BlockSizes, LevelFacts DEF LayoutTrue
<1>2. 0 \in S
  <2>1. Above(n, 0) = n
    BY <1>1, AboveFacts
  <2>2. B!Address(n) \in Nat /\ B!BlockSize(n) \in Nat
    BY BlockSizes, Addresses
  <2> QED BY <2>1, <2>2
<1>3. ASSUME NEW j \in Nat, j \in S PROVE j + 1 \in S
  <2>1. SUFFICES ASSUME j + 1 <= B!Level(n) PROVE In(j + 1)
    OBVIOUS
  <2>2. j \in 0..B!Level(n) /\ j + 1 \in 0..B!Level(n)
    BY <1>1, <2>1
  <2>3. PICK a \in B!Nodes : a = Above(n, j)
    BY <1>1, <2>2, NodesFacts
  <2>4. a \div 2 = Above(n, j + 1) /\ a \div 2 \in B!Nodes
    BY <1>1, <2>2, <2>3, AboveFacts, NodesFacts
  <2>5. a \in Nat \ {0} /\ a >= 2
    <3>1. a \in Nat \ {0} /\ a \div 2 \in Nat \ {0}
      BY <2>3, <2>4, BlockSizes
    <3> QED BY <3>1
  <2>6. /\ B!BlockSize(a \div 2) = 2 * B!BlockSize(a) /\ B!BlockSize(a) \in Nat
        /\ B!Address(a) \in Nat /\ B!Address(a \div 2) \in Nat
        /\ \/ B!Address(a) = B!Address(a \div 2)
           \/ B!Address(a) = B!Address(a \div 2) + B!BlockSize(a)
    BY <2>3, <2>4, <2>5, BlockSizes, Addresses
  <2>7. B!Address(n) \in Nat /\ B!BlockSize(n) \in Nat
    BY BlockSizes, Addresses
  <2>8. In(j)
    BY <1>3, <2>2
  <2>. HIDE DEF S
  <2> QED BY <2>3, <2>4, <2>6, <2>7, <2>8
<1>. HIDE DEF S
<1>4. Nat \subseteq S
  BY <1>2, <1>3, Counting
<1>5. k \in S /\ k <= B!Level(n)
  BY <1>1, <1>4
<1> QED BY <1>5 DEF S

BlocksApart(n, m) == \/ B!Address(n) + B!BlockSize(n) <= B!Address(m)
                     \/ B!Address(m) + B!BlockSize(m) <= B!Address(n)

\* Two blocks do not meet, or one node is above the other.
LEMMA ApartOrAbove ==
  ASSUME LayoutTrue, NEW n \in B!Nodes, NEW m \in B!Nodes, B!Level(n) <= B!Level(m)
  PROVE  \/ n = Above(m, B!Level(m) - B!Level(n))
         \/ BlocksApart(n, m)
PROOF
<1>. DEFINE k == B!Level(m) - B!Level(n)  a == Above(m, k)
<1>1. /\ n \in Nat \ {0} /\ m \in Nat \ {0} /\ levels \in Nat
      /\ B!Level(n) \in Nat /\ B!Level(m) \in Nat /\ k \in 0..B!Level(m)
  <2>1. n \in Nat \ {0} /\ m \in Nat \ {0} /\ levels \in Nat
    BY BlockSizes DEF LayoutTrue
  <2>2. B!Level(n) \in Nat /\ B!Level(m) \in Nat
    BY <2>1, LevelFacts
  <2> QED BY <2>1, <2>2
<1>2. a \in B!Nodes /\ B!Level(a) = B!Level(n) /\ a \in Nat \ {0}
  <2>1. B!Level(a) = B!Level(m) - k /\ a \in Nat \ {0}
    BY <1>1, AboveFacts
  <2>2. a \in B!Nodes
    BY <1>1, NodesFacts
  <2> QED BY <1>1, <2>1, <2>2
<1>3. /\ B!Address(a) <= B!Address(m)
      /\ B!Address(m) + B!BlockSize(m) <= B!Address(a) + B!BlockSize(a)
  BY <1>1, Within
<1>. HIDE DEF k, a
<1>4. ASSUME n # a PROVE BlocksApart(n, a)
  <2>. DEFINE b == B!BlockSize(n)  p == 2^B!Level(n)
  <2>1. B!BlockSize(a) = b /\ B!Address(a) = (a - p) * b /\ B!Address(n) = (n - p) * b
    BY <1>2 DEF B!BlockSize, B!Address
  <2>2. b \in Nat /\ p \in Nat
    BY <1>1, BlockSizes, Powers
  <2>. HIDE DEF b, p
  <2>3. ASSUME NEW x \in Int, NEW y \in Int, x < y PROVE x * b + b <= y * b
    <3>1. (x + 1) * b <= y * b /\ (x + 1) * b = x * b + b
      BY <2>2, <2>3
    <3> QED BY <3>1
  <2>4. CASE n < a
    <3>1. n - p \in Int /\ a - p \in Int /\ n - p < a - p
      BY <1>1, <1>2, <2>2, <2>4
    <3> QED BY <2>1, <2>3, <3>1 DEF BlocksApart, b
  <2>5. CASE a < n
    <3>1. n - p \in Int /\ a - p \in Int /\ a - p < n - p
      BY <1>1, <1>2, <2>2, <2>5
    <3> QED BY <2>1, <2>3, <3>1 DEF BlocksApart, b
  <2> QED BY <1>1, <1>2, <1>4, <2>4, <2>5
<1>5. /\ B!Address(n) \in Nat /\ B!BlockSize(n) \in Nat /\ B!Address(a) \in Nat
      /\ B!BlockSize(a) \in Nat /\ B!Address(m) \in Nat /\ B!BlockSize(m) \in Nat
  BY <1>2, BlockSizes, Addresses
<1>6. n # a => BlocksApart(n, m)
  BY <1>3, <1>4, <1>5 DEF BlocksApart
<1> QED BY <1>6 DEF a, k

-----------------------------------------------------------------------------
(* The tree: each node agrees with its two children.                       *)

Agrees(t, m) ==
  IF 2 * m \in B!Nodes
    THEN \/ t[m] = "USED" /\ t[2 * m] = "FREE" /\ t[2 * m + 1] = "FREE"
         \/ t[m] = B!Joined(t[2 * m], t[2 * m + 1])
    ELSE t[m] \in {"FREE", "USED"}
TreeTrue(t) ==
  /\ t \in [B!Nodes -> B!NodeStates]
  /\ \A m \in B!Nodes : Agrees(t, m)

\* A node but the root is a child of its parent, whose other child is its sibling.
LEMMA ChildOf ==
  ASSUME levels \in Nat, NEW c \in B!Nodes, c >= 2
  PROVE  /\ c \div 2 \in B!Nodes
         /\ c = 2 * (c \div 2) \/ c = 2 * (c \div 2) + 1
         /\ 2 * (c \div 2) \in B!Nodes /\ 2 * (c \div 2) + 1 \in B!Nodes
         /\ B!Sibling(c) \in B!Nodes
         /\ c = 2 * (c \div 2) => B!Sibling(c) = 2 * (c \div 2) + 1
         /\ c = 2 * (c \div 2) + 1 => B!Sibling(c) = 2 * (c \div 2)
PROOF
<1>. DEFINE h == c \div 2
<1>1. c \in Nat \ {0} /\ h \in B!Nodes /\ h \in Nat \ {0}
  BY NodesFacts
<1>2. c = 2 * h \/ c = 2 * h + 1
  BY <1>1
<1>3. 2 * h \in B!Nodes /\ 2 * h + 1 \in B!Nodes
  BY <1>1, <1>2, NodesFacts
<1>4. (c = 2 * h => B!Sibling(c) = 2 * h + 1) /\ (c = 2 * h + 1 => B!Sibling(c) = 2 * h)
  BY <1>1 DEF B!Sibling
<1> QED BY <1>1, <1>2, <1>3, <1>4

\* One step up from a node.
LEMMA StepUp ==
  ASSUME levels \in Nat, NEW n \in B!Nodes, NEW k \in Nat, k + 1 <= B!Level(n)
  PROVE  /\ Above(n, k) \in B!Nodes /\ Above(n, k + 1) \in B!Nodes /\ Above(n, k) >= 2
         /\ Above(n, k) \div 2 = Above(n, k + 1)
         /\ 2 * Above(n, k + 1) \in B!Nodes /\ 2 * Above(n, k + 1) + 1 \in B!Nodes
         /\ Above(n, k) \in {2 * Above(n, k + 1), 2 * Above(n, k + 1) + 1}
PROOF
<1>1. n \in Nat \ {0} /\ B!Level(n) \in Nat
  BY NodesFacts, LevelFacts
<1>2. k \in 0..B!Level(n) /\ k + 1 \in 0..B!Level(n)
  BY <1>1
<1>3. PICK c \in B!Nodes : c = Above(n, k)
  BY <1>2, NodesFacts
<1>4. PICK h \in B!Nodes : h = Above(n, k + 1)
  BY <1>2, NodesFacts
<1>5. c \div 2 = h
  BY <1>1, <1>3, <1>4, AboveFacts
<1>6. c >= 2
  <2>1. c \in Nat \ {0} /\ h \in Nat \ {0}
    BY NodesFacts
  <2> QED BY <1>5, <2>1
<1> QED BY <1>3, <1>4, <1>5, <1>6, ChildOf

\* Below a FREE node all are FREE.
LEMMA FreeBelow ==
  ASSUME levels \in Nat, NEW t, TreeTrue(t), NEW n \in B!Nodes, NEW k \in 0..B!Level(n),
         t[Above(n, k)] = "FREE"
  PROVE  t[n] = "FREE"
PROOF
<1>. DEFINE S == {j \in Nat : j <= k => t[Above(n, k - j)] = "FREE"}
<1>1. n \in Nat \ {0} /\ B!Level(n) \in Nat
  BY NodesFacts, LevelFacts
<1>2. 0 \in S
  BY <1>1
<1>3. ASSUME NEW j \in Nat, j \in S PROVE j + 1 \in S
  <2>1. SUFFICES ASSUME j + 1 <= k PROVE t[Above(n, k - (j + 1))] = "FREE"
    OBVIOUS
  <2>2. PICK i \in Nat : i = k - (j + 1) /\ k - j = i + 1 /\ i + 1 <= B!Level(n)
    BY <1>1, <2>1
  <2>3. t[Above(n, i + 1)] = "FREE"
    BY <1>3, <2>1, <2>2
  <2>4. /\ Above(n, i + 1) \in B!Nodes /\ 2 * Above(n, i + 1) \in B!Nodes
        /\ Above(n, i) \in {2 * Above(n, i + 1), 2 * Above(n, i + 1) + 1}
    BY <2>2, StepUp
  <2>. HIDE DEF S
  <2>5. Agrees(t, Above(n, i + 1))
    BY <2>4 DEF TreeTrue
  <2>6. t[2 * Above(n, i + 1)] = "FREE" /\ t[2 * Above(n, i + 1) + 1] = "FREE"
    BY <2>3, <2>4, <2>5 DEF Agrees, B!Joined
  <2> QED BY <2>2, <2>4, <2>6
<1>. HIDE DEF S
<1>4. Nat \subseteq S
  BY <1>2, <1>3, Counting
<1>5. t[Above(n, k - k)] = "FREE"
  BY <1>1, <1>4 DEF S
<1> QED BY <1>1, <1>5, AboveFacts

\* Below a USED node all are FREE.
LEMMA UsedBelow ==
  ASSUME levels \in Nat, NEW t, TreeTrue(t), NEW n \in B!Nodes, NEW k \in 1..B!Level(n),
         t[Above(n, k)] = "USED"
  PROVE  t[n] = "FREE"
PROOF
<1>1. n \in Nat \ {0} /\ B!Level(n) \in Nat
  BY NodesFacts, LevelFacts
<1>2. PICK i \in Nat : k = i + 1 /\ i + 1 <= B!Level(n) /\ i \in 0..B!Level(n)
  <2>1. k - 1 \in Nat /\ k = (k - 1) + 1 /\ (k - 1) + 1 <= B!Level(n)
    BY <1>1
  <2> QED BY <1>1, <2>1
<1>3. /\ Above(n, k) \in B!Nodes /\ 2 * Above(n, k) \in B!Nodes
      /\ Above(n, i) \in {2 * Above(n, k), 2 * Above(n, k) + 1}
  BY <1>2, StepUp
<1>4. t[2 * Above(n, k)] = "FREE" /\ t[2 * Above(n, k) + 1] = "FREE"
  BY <1>3 DEF TreeTrue, Agrees, B!Joined
<1> QED BY <1>2, <1>3, <1>4, FreeBelow

\* Blocks in use do not meet.
LEMMA UsedApart ==
  ASSUME LayoutTrue, NEW t, TreeTrue(t), NEW n \in B!Nodes, NEW m \in B!Nodes, n # m,
         t[n] = "USED", t[m] = "USED"
  PROVE  BlocksApart(n, m)
PROOF
<1>1. ASSUME NEW a \in B!Nodes, NEW c \in B!Nodes, a # c, t[a] = "USED", t[c] = "USED",
             B!Level(a) <= B!Level(c)
      PROVE  BlocksApart(a, c)
  <2>1. a \in Nat \ {0} /\ c \in Nat \ {0} /\ levels \in Nat
    BY BlockSizes DEF LayoutTrue
  <2>2. B!Level(a) \in Nat /\ B!Level(c) \in Nat
    BY <2>1, LevelFacts
  <2>. DEFINE k == B!Level(c) - B!Level(a)
  <2>3. SUFFICES ASSUME a = Above(c, k) PROVE FALSE
    BY <1>1, ApartOrAbove
  <2>4. k # 0
    BY <1>1, <2>1, <2>3, AboveFacts
  <2>5. k \in 1..B!Level(c)
    BY <1>1, <2>2, <2>4
  <2> QED BY <1>1, <2>1, <2>3, <2>5, UsedBelow
<1>2. B!Level(n) \in Nat /\ B!Level(m) \in Nat
  BY BlockSizes, LevelFacts
<1> QED BY <1>1, <1>2 DEF BlocksApart

\* Above a FREE node that is not in a block in use the search can go down.
LEMMA AboveOpen ==
  ASSUME levels \in Nat, NEW t, TreeTrue(t), NEW n \in B!Nodes, t[n] = "FREE",
         \A k \in 1..B!Level(n) : t[Above(n, k)] # "USED"
  PROVE  \A k \in 1..B!Level(n) : t[Above(n, k)] \in {"FREE", "SPLIT"}
PROOF
<1>. DEFINE S == {k \in Nat : k <= B!Level(n) => t[Above(n, k)] \in {"FREE", "SPLIT"}}
<1>1. n \in Nat \ {0} /\ B!Level(n) \in Nat
  BY NodesFacts, LevelFacts
<1>2. 0 \in S
  BY <1>1, AboveFacts
<1>3. ASSUME NEW k \in Nat, k \in S PROVE k + 1 \in S
  <2>1. SUFFICES ASSUME k + 1 <= B!Level(n) PROVE t[Above(n, k + 1)] \in {"FREE", "SPLIT"}
    OBVIOUS
  <2>2. t[Above(n, k)] \in {"FREE", "SPLIT"} /\ t[Above(n, k + 1)] # "USED"
    BY <1>1, <1>3, <2>1
  <2>. HIDE DEF S
  <2>3. /\ Above(n, k + 1) \in B!Nodes /\ 2 * Above(n, k + 1) \in B!Nodes
        /\ Above(n, k) \in {2 * Above(n, k + 1), 2 * Above(n, k + 1) + 1}
    BY <2>1, StepUp
  <2> QED BY <2>2, <2>3 DEF TreeTrue, Agrees, B!Joined
<1>. HIDE DEF S
<1>4. Nat \subseteq S
  BY <1>2, <1>3, Counting
<1> QED BY <1>1, <1>4 DEF S

\* A node that is not FREE is, or has below it, a block in use.
LEMMA SomeUsedBelow ==
  ASSUME levels \in Nat, NEW t, TreeTrue(t), NEW n \in B!Nodes, t[n] # "FREE"
  PROVE  \E m \in B!Nodes : \E k \in 0..B!Level(m) : Above(m, k) = n /\ t[m] = "USED"
PROOF
<1>. DEFINE UsedUnder(a) ==
              \E m \in B!Nodes : \E k \in 0..B!Level(m) : Above(m, k) = a /\ t[m] = "USED"
            S == {j \in Nat : \A a \in B!Nodes :
                                B!Level(a) = levels - 1 - j /\ t[a] # "FREE" => UsedUnder(a)}
<1>1. ASSUME NEW a \in B!Nodes
      PROVE  a \in Nat \ {0} /\ B!Level(a) \in Nat /\ B!Level(a) < levels
  BY NodesFacts, LevelFacts
<1>2. ASSUME NEW a \in B!Nodes, t[a] = "USED" PROVE UsedUnder(a)
  <2>1. 0 \in 0..B!Level(a) /\ Above(a, 0) = a
    BY <1>1, AboveFacts
  <2> QED BY <1>2, <2>1
<1>3. ASSUME NEW a \in B!Nodes, t[a] # "FREE", t[a] # "USED"
      PROVE  \E c \in B!Nodes : /\ c \div 2 = a /\ t[c] # "FREE"
                                /\ B!Level(c) = B!Level(a) + 1
  <2>1. 2 * a \in B!Nodes
    BY <1>3 DEF TreeTrue, Agrees
  <2>2. 2 * a + 1 \in B!Nodes
    BY <1>1, <2>1, NodesFacts
  <2>3. t[2 * a] # "FREE" \/ t[2 * a + 1] # "FREE"
    BY <1>3, <2>1 DEF TreeTrue, Agrees, B!Joined
  <2>4. (2 * a) \div 2 = a /\ (2 * a + 1) \div 2 = a
    BY <1>1
  <2>5. B!Level(2 * a) = B!Level(a) + 1 /\ B!Level(2 * a + 1) = B!Level(a) + 1
    BY <1>1, LevelFacts
  <2> QED BY <2>1, <2>2, <2>3, <2>4, <2>5
<1>4. 0 \in S
  <2>1. ASSUME NEW a \in B!Nodes, B!Level(a) = levels - 1 - 0, t[a] # "FREE" PROVE UsedUnder(a)
    <3>1. t[a] = "USED"
      BY <1>1, <1>3, <2>1
    <3> QED BY <1>2, <3>1
  <2> QED BY <2>1
<1>5. ASSUME NEW j \in Nat, j \in S PROVE j + 1 \in S
  <2>1. SUFFICES ASSUME NEW a \in B!Nodes, B!Level(a) = levels - 1 - (j + 1), t[a] # "FREE",
                        t[a] # "USED"
                 PROVE  UsedUnder(a)
    BY <1>2
  <2>2. PICK c \in B!Nodes : c \div 2 = a /\ t[c] # "FREE" /\ B!Level(c) = B!Level(a) + 1
    BY <1>3, <2>1
  <2>3. B!Level(c) = levels - 1 - j
    BY <1>1, <2>1, <2>2
  <2>10. PICK m \in B!Nodes : \E k \in 0..B!Level(m) : Above(m, k) = c /\ t[m] = "USED"
    BY <1>5, <2>2, <2>3
  <2>4. PICK k \in 0..B!Level(m) : Above(m, k) = c /\ t[m] = "USED"
    BY <2>10
  <2>5. m \in Nat \ {0} /\ B!Level(m) \in Nat
    BY <1>1
  <2>6. Above(m, k + 1) = a
    BY <2>2, <2>4, <2>5, AboveFacts
  <2>7. B!Level(c) = B!Level(m) - k
    BY <2>4, <2>5, AboveFacts
  <2>8. k + 1 \in 0..B!Level(m)
    BY <1>1, <2>2, <2>5, <2>7
  <2> QED BY <2>4, <2>6, <2>8
<1>. HIDE DEF S
<1>6. Nat \subseteq S
  BY <1>4, <1>5, Counting
<1>7. PICK j \in Nat : j = levels - 1 - B!Level(n) /\ B!Level(n) = levels - 1 - j
  BY <1>1
<1> QED BY <1>6, <1>7 DEF S

-----------------------------------------------------------------------------
(* update_parent repairs what only the parent of a node disagrees with.    *)

\* update_parent never marks a node USED.
LEMMA JoinedStates ==
  ASSUME NEW l, NEW r
  PROVE  B!Joined(l, r) \in B!NodeStates /\ B!Joined(l, r) # "USED"
PROOF BY DEF B!Joined, B!NodeStates

\* A tree wrong only at the parent of a node is right after update_parent of it,
\* which goes up from there as far as something changes; the blocks in use stay.
LEMMA UpdateRepairs ==
  ASSUME levels \in Nat, NEW n \in B!Nodes, NEW t \in [B!Nodes -> B!NodeStates],
         \A m \in B!Nodes : m # n \div 2 => Agrees(t, m),
         \A k \in 1..B!Level(n) : t[Above(n, k)] # "USED"
  PROVE  /\ TreeTrue(B!UpdateParent(t, n))
         /\ \A m \in B!Nodes : B!UpdateParent(t, n)[m] = "USED" <=> t[m] = "USED"
PROOF
<1>. DEFINE L == B!Level(n)
            Start == [tree |-> t, stop |-> FALSE]
            Up(k, s) ==
              LET now == s.tree
                  a   == n \div 2^k
                  new == B!Joined(now[2 * a], now[2 * a + 1])
              IN  IF s.stop \/ now[a] = new
                    THEN [tree |-> now, stop |-> TRUE]
                    ELSE [tree |-> [now EXCEPT ![a] = new], stop |-> FALSE]
            Steps(u, j) == u = [k \in 0..j |-> IF k = 0 THEN Start ELSE Up(k, u[k - 1])]
<1>1. n \in Nat \ {0} /\ L \in Nat
  BY NodesFacts, LevelFacts
<1>2. \E u : Steps(u, L)
  <2>. DEFINE S == {j \in Nat : \E u : Steps(u, j)}
  <2>. HIDE DEF Start, Up, L
  <2>1. 0 \in S
    <3>. DEFINE v == [k \in 0..0 |-> Start]
    <3>1. Steps(v, 0)
      OBVIOUS
    <3> QED BY <3>1
  <2>2. ASSUME NEW j \in Nat, j \in S PROVE j + 1 \in S
    <3>1. PICK u : Steps(u, j)
      BY <2>2
    <3>. DEFINE v == [k \in 0..(j + 1) |-> IF k = j + 1 THEN Up(j + 1, u[j]) ELSE u[k]]
    <3>2. ASSUME NEW k \in 0..(j + 1) PROVE v[k] = IF k = 0 THEN Start ELSE Up(k, v[k - 1])
      <4>1. CASE k = 0
        BY <3>1, <4>1
      <4>2. CASE k \in 1..j
        <5>1. k \in 0..j /\ k - 1 \in 0..j /\ k # j + 1 /\ k - 1 # j + 1 /\ k # 0
          BY <4>2
        <5>2. u[k] = Up(k, u[k - 1])
          BY <3>1, <5>1
        <5> QED BY <5>1, <5>2
      <4>3. CASE k = j + 1
        <5>1. v[k] = Up(k, u[j]) /\ v[j] = u[j] /\ k - 1 = j /\ k # 0
          BY <4>3
        <5> QED BY <5>1
      <4> QED BY <4>1, <4>2, <4>3
    <3>3. v = [k \in 0..(j + 1) |-> IF k = 0 THEN Start ELSE Up(k, v[k - 1])]
      <4>. DEFINE w == [k \in 0..(j + 1) |-> IF k = 0 THEN Start ELSE Up(k, v[k - 1])]
      <4>1. \A k \in 0..(j + 1) : v[k] = w[k]
        BY <3>2
      <4>2. DOMAIN v = 0..(j + 1) /\ DOMAIN w = 0..(j + 1)
        OBVIOUS
      <4> QED BY <4>1, <4>2
    <3>. HIDE DEF v
    <3>4. Steps(v, j + 1)
      BY <3>3
    <3> QED BY <3>4
  <2>. HIDE DEF S, Steps
  <2>3. Nat \subseteq S
    BY <2>1, <2>2, Counting
  <2> QED BY <1>1, <2>3 DEF S
<1>. DEFINE u == CHOOSE u : Steps(u, L)
<1>3. B!UpdateParent(t, n) = u[L].tree
  BY DEF B!UpdateParent
<1>4. Steps(u, L)
  <2>. HIDE DEF Steps
  <2> QED BY <1>2
<1>. HIDE DEF u
<1>5. u[0] = Start /\ \A k \in 1..L : u[k] = Up(k, u[k - 1])
  <2>. HIDE DEF Start, Up, L
  <2>1. ASSUME NEW k \in 0..L PROVE u[k] = IF k = 0 THEN Start ELSE Up(k, u[k - 1])
    BY <1>4
  <2> QED BY <1>1, <2>1
<1>. DEFINE Good(k, now, stop) ==
              /\ now \in [B!Nodes -> B!NodeStates] /\ stop \in BOOLEAN
              /\ \A m \in B!Nodes : now[m] = "USED" <=> t[m] = "USED"
              /\ \A m \in B!Nodes : stop \/ m # Above(n, k + 1) => Agrees(now, m)
            S == {k \in Nat : k <= L => Good(k, u[k].tree, u[k].stop)}
<1>6. 0 \in S
  <2>1. u[0].tree = t /\ u[0].stop = FALSE
    BY <1>5
  <2>2. Above(n, 0 + 1) = n \div 2
    <3>1. Above(n, 0 + 1) = Above(n, 0) \div 2 /\ Above(n, 0) = n
      BY <1>1, AboveFacts
    <3> QED BY <3>1
  <2>3. Good(0, t, FALSE)
    BY <2>2
  <2> QED BY <2>1, <2>3
<1>7. ASSUME NEW k \in Nat, k \in S PROVE k + 1 \in S
  <2>1. SUFFICES ASSUME k + 1 <= L PROVE Good(k + 1, u[k + 1].tree, u[k + 1].stop)
    OBVIOUS
  <2>2. PICK now, stop, a : /\ now = u[k].tree /\ stop = u[k].stop /\ a = Above(n, k + 1)
                            /\ Good(k, now, stop)
    BY <1>1, <1>7, <2>1
  <2>3. PICK new : new = B!Joined(now[2 * a], now[2 * a + 1])
    OBVIOUS
  <2>4. u[k + 1] = IF stop \/ now[a] = new
                     THEN [tree |-> now, stop |-> TRUE]
                     ELSE [tree |-> [now EXCEPT ![a] = new], stop |-> FALSE]
    <3>1. k + 1 \in 1..L /\ (k + 1) - 1 = k
      BY <1>1, <2>1
    <3>2. u[k + 1] = Up(k + 1, u[k])
      BY <1>5, <3>1
    <3> QED BY <2>2, <2>3, <3>2 DEF Above
  <2>5. /\ a \in B!Nodes /\ a \in Nat \ {0} /\ 2 * a \in B!Nodes /\ 2 * a + 1 \in B!Nodes
        /\ 2 * a # a /\ 2 * a + 1 # a
    <3>1. a \in B!Nodes /\ 2 * a \in B!Nodes /\ 2 * a + 1 \in B!Nodes
      BY <2>1, <2>2, StepUp
    <3>2. a \in Nat \ {0}
      BY <3>1, NodesFacts
    <3> QED BY <3>1, <3>2
  <2>6. t[a] # "USED" /\ now[a] # "USED"
    <3>1. k + 1 \in 1..L
      BY <1>1, <2>1
    <3>2. t[a] # "USED"
      BY <2>2, <3>1
    <3> QED BY <2>2, <2>5, <3>2
  <2>. HIDE DEF S
  <2>7. CASE stop
    BY <2>2, <2>4, <2>7
  <2>8. CASE ~stop /\ now[a] = new
    <3>1. Agrees(now, a)
      BY <2>3, <2>5, <2>8 DEF Agrees
    <3> QED BY <2>2, <2>4, <2>8, <3>1
  <2>9. CASE ~stop /\ now[a] # new
    <3>. DEFINE then == [now EXCEPT ![a] = new]
    <3>1. u[k + 1].tree = then /\ u[k + 1].stop = FALSE
      BY <2>4, <2>9
    <3>2. new \in B!NodeStates /\ new # "USED"
      BY <2>3, JoinedStates
    <3>3. then \in [B!Nodes -> B!NodeStates]
      BY <2>2, <3>2
    <3>4. then[a] = new /\ \A m \in B!Nodes : m # a => then[m] = now[m]
      BY <2>2, <2>5
    <3>. HIDE DEF then
    <3>5. \A m \in B!Nodes : then[m] = "USED" <=> t[m] = "USED"
      BY <2>2, <2>6, <3>2, <3>4
    <3>6. Agrees(then, a)
      BY <2>3, <2>5, <3>4 DEF Agrees
    <3>7. Above(n, k + 1 + 1) = a \div 2
      <4>1. k + 1 \in Nat
        OBVIOUS
      <4> QED BY <1>1, <2>2, <4>1, AboveFacts
    <3>8. ASSUME NEW m \in B!Nodes, m # a, m # a \div 2 PROVE Agrees(then, m)
      <4>1. m \in Nat \ {0}
        BY NodesFacts
      <4>2. 2 * m # a /\ 2 * m + 1 # a
        BY <2>5, <3>8, <4>1
      <4>3. Agrees(now, m)
        BY <2>2, <3>8
      <4>4. 2 * m \in B!Nodes => 2 * m + 1 \in B!Nodes
        BY <4>1, NodesFacts
      <4> QED BY <3>4, <3>8, <4>2, <4>3, <4>4 DEF Agrees
    <3> QED BY <3>1, <3>3, <3>5, <3>6, <3>7, <3>8
  <2> QED BY <2>2, <2>7, <2>8, <2>9
<1>. HIDE DEF S
<1>8. Nat \subseteq S
  BY <1>6, <1>7, Counting
<1>9. Good(L, u[L].tree, u[L].stop)
  BY <1>1, <1>8 DEF S
<1>10. Above(n, L + 1) \notin B!Nodes
  <2>1. Above(n, L + 1) = Above(n, L) \div 2 /\ Above(n, L) = 1
    BY <1>1, AboveFacts
  <2>2. Above(n, L + 1) = 0
    BY <2>1
  <2> QED BY <2>2, NodesFacts
<1> QED BY <1>3, <1>9, <1>10 DEF TreeTrue

-----------------------------------------------------------------------------
(* The two changes of the tree.                                            *)

\* What is below a FREE node is FREE already.
LEMMA FoundIsTree ==
  ASSUME levels \in Nat, TreeTrue(tree), NEW n \in B!Nodes
  PROVE  B!Found(n) = tree[n]
PROOF
<1>1. n \in Nat \ {0} /\ B!Level(n) \in Nat
  BY NodesFacts, LevelFacts
<1>2. ASSUME NEW a \in B!Ancestors(n), tree[a] = "FREE" PROVE tree[n] = "FREE"
  <2>1. PICK k \in 1..B!Level(n) : a = Above(n, k)
    BY <1>1, AncestorsAbove
  <2>2. k \in 0..B!Level(n)
    BY <1>1
  <2> QED BY <1>2, <2>1, <2>2, FreeBelow
<1> QED BY <1>2 DEF B!Found

\* The blocks the search can find are FREE, under nodes that are FREE or SPLIT.
LEMMA CandidatesAre ==
  ASSUME levels \in Nat, TreeTrue(tree), NEW l
  PROVE  B!Candidates(l) =
           {n \in B!Nodes : /\ B!Level(n) = l /\ tree[n] = "FREE"
                            /\ \A k \in 1..B!Level(n) : tree[Above(n, k)] \in {"FREE", "SPLIT"}}
PROOF
<1>1. ASSUME NEW n \in B!Nodes
      PROVE  (\A a \in B!Ancestors(n) : B!Found(a) \in {"FREE", "SPLIT"})
               <=> \A k \in 1..B!Level(n) : tree[Above(n, k)] \in {"FREE", "SPLIT"}
  <2>1. n \in Nat \ {0} /\ B!Level(n) \in Nat
    BY NodesFacts, LevelFacts
  <2>2. ASSUME NEW k \in 1..B!Level(n) PROVE B!Found(Above(n, k)) = tree[Above(n, k)]
    <3>1. k \in 0..B!Level(n)
      BY <2>1
    <3> QED BY <3>1, NodesFacts, FoundIsTree
  <2>3. B!Ancestors(n) = {Above(n, k) : k \in 1..B!Level(n)}
    BY <2>1, AncestorsAbove
  <2> QED BY <2>2, <2>3
<1> QED BY <1>1, FoundIsTree DEF B!Candidates

\* Which nodes are above n, and their children.
LEMMA PathChildren ==
  ASSUME levels \in Nat, NEW n \in B!Nodes, NEW m \in B!Nodes, NEW c \in {2 * m, 2 * m + 1}
  PROVE  /\ \A k \in 0..B!Level(n) : c = Above(n, k) => m = Above(n, k + 1) /\ k + 1 <= B!Level(n)
         /\ \A k \in Nat : k + 1 <= B!Level(n) /\ m = Above(n, k + 1) =>
              Above(n, k) \in {2 * m, 2 * m + 1}
PROOF
<1>1. n \in Nat \ {0} /\ B!Level(n) \in Nat /\ m \in Nat \ {0}
  BY NodesFacts, LevelFacts
<1>2. ASSUME NEW k \in 0..B!Level(n), c = Above(n, k)
      PROVE  m = Above(n, k + 1) /\ k + 1 <= B!Level(n)
  <2>1. Above(n, k + 1) = c \div 2 /\ c \div 2 = m
    <3>1. c \div 2 = m
      BY <1>1
    <3> QED BY <1>1, <1>2, <3>1, AboveFacts
  <2>2. B!Level(c) = B!Level(m) + 1 /\ B!Level(m) \in Nat
    BY <1>1, LevelFacts
  <2>3. B!Level(c) = B!Level(n) - k
    BY <1>1, <1>2, AboveFacts
  <2> QED BY <1>1, <2>1, <2>2, <2>3
<1>3. ASSUME NEW k \in Nat, k + 1 <= B!Level(n), m = Above(n, k + 1)
      PROVE  Above(n, k) \in {2 * m, 2 * m + 1}
  BY <1>3, StepUp
<1> QED BY <1>2, <1>3

\* The tree in which mm_alloc calls update_parent.
Marked(n) == [B!SplitTo(n) EXCEPT ![n] = "USED"]

\* alloc_recursive splits its way down to the node and mm_alloc marks it: only
\* the parent of the node may then disagree with its children.
LEMMA SplitMarks ==
  ASSUME levels \in Nat, TreeTrue(tree), NEW n \in B!Nodes, tree[n] = "FREE",
         \A k \in 1..B!Level(n) : tree[Above(n, k)] \in {"FREE", "SPLIT"},
         NEW t, t = Marked(n)
  PROVE  /\ t \in [B!Nodes -> B!NodeStates]
         /\ \A m \in B!Nodes : m # n \div 2 => Agrees(t, m)
         /\ \A k \in 1..B!Level(n) : t[Above(n, k)] # "USED"
         /\ \A m \in B!Nodes : t[m] = "USED" <=> m = n \/ tree[m] = "USED"
PROOF
<1>1. /\ n \in B!Nodes /\ n \in Nat \ {0} /\ B!Level(n) \in Nat /\ tree[n] = "FREE"
      /\ \A k \in 1..B!Level(n) : tree[Above(n, k)] \in {"FREE", "SPLIT"}
  BY NodesFacts, LevelFacts
<1>. DEFINE Path == {Above(n, k) : k \in 1..B!Level(n)}
<1>2. B!Ancestors(n) = Path
  BY <1>1, AncestorsAbove
<1>3. ASSUME NEW m \in B!Nodes
      PROVE  B!SplitTo(n)[m] = IF m \in Path THEN "SPLIT" ELSE tree[m]
  <2>1. m \in Path => tree[m] \in {"FREE", "SPLIT"}
    BY <1>1
  <2>2. B!Found(m) = tree[m]
    BY FoundIsTree
  <2>3. ASSUME B!Parent(m) \in Path, B!Found(B!Parent(m)) = "FREE" PROVE tree[m] = "FREE"
    <3>1. m \in Nat \ {0} /\ m \div 2 \in B!Nodes
      <4>1. \A k \in 1..B!Level(n) : k \in 0..B!Level(n)
        BY <1>1
      <4>2. m \div 2 \in B!Nodes
        <5>1. PICK k \in 1..B!Level(n) : m \div 2 = Above(n, k)
          BY <2>3 DEF B!Parent
        <5>2. Above(n, k) \in B!Nodes
          BY <1>1, <4>1, NodesFacts
        <5> QED BY <5>1, <5>2
      <4> QED BY <4>2, NodesFacts
    <3>2. m >= 2
      <4>1. m \div 2 \in Nat \ {0}
        BY <3>1, NodesFacts
      <4> QED BY <3>1, <4>1
    <3>3. tree[m \div 2] = "FREE"
      BY <2>3, <3>1, FoundIsTree DEF B!Parent
    <3>4. B!Level(m) \in Nat /\ 1 <= B!Level(m)
      <4>1. m # 1
        BY <3>2
      <4> QED BY <3>1, <4>1, LevelFacts
    <3>5. m \div 2 = Above(m, 1)
      <4>1. Above(m, 0 + 1) = Above(m, 0) \div 2 /\ Above(m, 0) = m
        BY <3>1, AboveFacts
      <4> QED BY <4>1
    <3> QED BY <3>3, <3>4, <3>5, FreeBelow
  <2>. HIDE DEF Path
  <2>4. B!SplitTo(n)[m] =
          IF m \in Path /\ tree[m] = "FREE" THEN "SPLIT"
          ELSE IF B!Parent(m) \in Path /\ B!Found(B!Parent(m)) = "FREE" THEN "FREE"
          ELSE tree[m]
    BY <1>2, <2>2 DEF B!SplitTo
  <2> QED BY <2>1, <2>3, <2>4
<1>4. n \notin Path
  <2>1. ASSUME NEW k \in 1..B!Level(n) PROVE Above(n, k) # n
    <3>1. k \in 0..B!Level(n)
      BY <1>1
    <3>2. B!Level(Above(n, k)) = B!Level(n) - k
      BY <1>1, <3>1, AboveFacts
    <3> QED BY <1>1, <3>2
  <2> QED BY <2>1
<1>. DEFINE T(m) == IF m = n THEN "USED" ELSE IF m \in Path THEN "SPLIT" ELSE tree[m]
<1>5. t \in [B!Nodes -> B!NodeStates] /\ \A m \in B!Nodes : t[m] = T(m)
  <2>1. DOMAIN B!SplitTo(n) = B!Nodes
    BY DEF B!SplitTo
  <2>. HIDE DEF Path
  <2>2. t = [m \in B!Nodes |-> IF m = n THEN "USED" ELSE B!SplitTo(n)[m]]
    <3>1. B!SplitTo(n) = [m \in B!Nodes |-> B!SplitTo(n)[m]]
      BY DEF B!SplitTo
    <3> QED BY <2>1, <3>1 DEF Marked
  <2>3. \A m \in B!Nodes : t[m] = T(m)
    BY <1>3, <2>2
  <2>4. \A m \in B!Nodes : T(m) \in B!NodeStates
    BY DEF TreeTrue, B!NodeStates
  <2> QED BY <2>2, <2>3, <2>4
<1>6. \A k \in 1..B!Level(n) : t[Above(n, k)] = "SPLIT"
  <2>1. ASSUME NEW k \in 1..B!Level(n) PROVE t[Above(n, k)] = "SPLIT"
    <3>1. k \in 0..B!Level(n)
      BY <1>1
    <3>2. Above(n, k) \in B!Nodes /\ Above(n, k) \in Path
      BY <1>1, <3>1, NodesFacts
    <3>. HIDE DEF Path
    <3> QED BY <1>4, <1>5, <3>2
  <2> QED BY <2>1
<1>7. \A m \in B!Nodes : t[m] = "USED" <=> m = n \/ tree[m] = "USED"
  <2>1. \A m \in B!Nodes : m \in Path => tree[m] # "USED"
    BY <1>1
  <2>. HIDE DEF Path
  <2> QED BY <1>5, <2>1
<1>8. ASSUME NEW m \in B!Nodes, m # n \div 2 PROVE Agrees(t, m)
  <2>1. m \in Nat \ {0} /\ (2 * m \in B!Nodes => 2 * m + 1 \in B!Nodes)
    BY NodesFacts
  <2>2. 0 \in 0..B!Level(n) /\ Above(n, 0) = n /\ Above(n, 0 + 1) = n \div 2
    <3>1. Above(n, 0 + 1) = Above(n, 0) \div 2 /\ Above(n, 0) = n
      BY <1>1, AboveFacts
    <3> QED BY <1>1, <3>1
  <2>3. ASSUME m \notin Path, NEW c \in {2 * m, 2 * m + 1} PROVE c # n /\ c \notin Path
    <3>9. \A k \in 0..B!Level(n) : c = Above(n, k) => /\ m = Above(n, k + 1)
                                                     /\ k + 1 <= B!Level(n)
      BY <1>1, PathChildren
    <3>1. c # n
      BY <1>8, <2>2, <3>9
    <3>2. ASSUME NEW k \in 1..B!Level(n), c = Above(n, k) PROVE FALSE
      <4>1. k \in 0..B!Level(n)
        BY <1>1
      <4>2. m = Above(n, k + 1) /\ k + 1 <= B!Level(n)
        BY <3>9, <3>2, <4>1
      <4>3. k + 1 \in 1..B!Level(n)
        BY <1>1, <4>2
      <4> QED BY <2>3, <4>2, <4>3
    <3> QED BY <3>1, <3>2
  <2>4. CASE m \notin Path
    <3>1. Agrees(tree, m)
      BY DEF TreeTrue
    <3>2. 2 * m \in B!Nodes => t[2 * m] = tree[2 * m] /\ t[2 * m + 1] = tree[2 * m + 1]
      BY <1>5, <2>1, <2>3, <2>4
    <3>3. CASE m = n
      <4>1. t[m] = "USED"
        BY <1>5, <3>3
      <4>2. 2 * m \in B!Nodes => tree[2 * m] = "FREE" /\ tree[2 * m + 1] = "FREE"
        BY <1>1, <3>1, <3>3 DEF Agrees, B!Joined
      <4> QED BY <3>2, <4>1, <4>2 DEF Agrees
    <3>4. CASE m # n
      <4>1. t[m] = tree[m]
        BY <1>5, <2>4, <3>4
      <4> QED BY <3>1, <3>2, <4>1 DEF Agrees
    <3> QED BY <3>3, <3>4
  <2>5. CASE m \in Path
    <3>1. PICK k \in 1..B!Level(n) : m = Above(n, k)
      BY <2>5
    <3>2. k # 1
      BY <1>8, <2>2, <3>1
    <3>3. PICK i \in Nat : k = i + 1 /\ i + 1 <= B!Level(n) /\ i \in 1..B!Level(n)
      <4>1. k - 1 \in Nat /\ k = (k - 1) + 1 /\ (k - 1) + 1 <= B!Level(n) /\ k - 1 \in 1..B!Level(n)
        BY <1>1, <3>2
      <4> QED BY <4>1
    <3>4. Above(n, i) \in {2 * m, 2 * m + 1} /\ 2 * m \in B!Nodes
      <4>1. /\ Above(n, i) \in {2 * Above(n, i + 1), 2 * Above(n, i + 1) + 1}
            /\ 2 * Above(n, i + 1) \in B!Nodes
        BY <1>1, <3>3, StepUp
      <4>2. m = Above(n, i + 1)
        BY <3>1, <3>3
      <4> QED BY <4>1, <4>2
    <3>5. t[m] = "SPLIT" /\ t[Above(n, i)] = "SPLIT"
      BY <1>6, <3>1, <3>3
    <3> QED BY <3>4, <3>5 DEF Agrees, B!Joined
  <2> QED BY <2>4, <2>5
<1>9. \A k \in 1..B!Level(n) : t[Above(n, k)] # "USED"
  BY <1>6
<1> QED BY <1>1, <1>5, <1>7, <1>8, <1>9

\* A set of numbers up to N has a greatest one.
LEMMA GreatestExists ==
  ASSUME NEW N \in Nat, NEW S \in SUBSET (0..N), S # {}
  PROVE  B!Max(S) \in S /\ \A j \in S : j <= B!Max(S)
PROOF
<1>. DEFINE Rest == {i \in Nat : N - i \in S}
<1>1. Rest # {} /\ Rest \subseteq Nat
  <2>1. PICK j \in S : TRUE
    OBVIOUS
  <2>2. N - j \in Nat /\ N - (N - j) = j
    BY <2>1
  <2> QED BY <2>1, <2>2
<1>2. PICK i \in Rest : \A j \in Rest : ~(<<j, i>> \in OpToRel(<, Nat))
  BY <1>1, NatLessThanWellFounded, WFMin
<1>3. \A j \in Rest : ~(j < i)
  BY <1>2 DEF OpToRel
<1>4. ASSUME NEW j \in S PROVE j <= N - i
  <2>1. N - j \in Nat /\ N - (N - j) = j
    OBVIOUS
  <2> QED BY <1>3, <2>1
<1>5. \E m \in S : \A j \in S : m >= j
  BY <1>4
<1> QED BY <1>5 DEF B!Max

\* The tree in which mm_free calls update_parent.
Merged(n, top) ==
  [m \in B!Nodes |-> IF \E k \in 0..top : m = Above(n, k) THEN "FREE" ELSE tree[m]]

\* mm_free frees the node and merges it with FREE siblings, upwards, which leaves
\* only the parent of the last one to update.
LEMMA MergeFrees ==
  ASSUME levels \in Nat, TreeTrue(tree), NEW n \in B!Nodes, tree[n] = "USED",
         NEW top, top = B!MergeEnds(tree, n),
         NEW t, t = Merged(n, top)
  PROVE  /\ Above(n, top) \in B!Nodes
         /\ t \in [B!Nodes -> B!NodeStates]
         /\ \A m \in B!Nodes : m # Above(n, top) \div 2 => Agrees(t, m)
         /\ \A k \in 1..B!Level(Above(n, top)) : t[Above(Above(n, top), k)] # "USED"
         /\ \A m \in B!Nodes : t[m] = "USED" <=> m # n /\ tree[m] = "USED"
PROOF
<1>1. n \in Nat \ {0} /\ B!Level(n) \in Nat
  BY NodesFacts, LevelFacts
<1>2. /\ top \in 0..B!Level(n)
      /\ \A j \in 0..(top - 1) : tree[B!Sibling(Above(n, j))] = "FREE"
  <2>. DEFINE S == {k \in 0..B!Level(n) :
                      \A j \in 0..(k - 1) : tree[B!Sibling(Above(n, j))] = "FREE"}
  <2>1. 0 \in S
    BY <1>1
  <2>2. top = B!Max(S)
    BY DEF B!MergeEnds, Above
  <2>3. B!Max(S) \in S
    BY <1>1, <2>1, GreatestExists
  <2> QED BY <2>2, <2>3
<1>3. PICK x \in B!Nodes : x = Above(n, top)
  BY <1>2, NodesFacts
<1>. DEFINE Path == {Above(n, k) : k \in 0..top}
<1>4. /\ t \in [B!Nodes -> B!NodeStates]
      /\ \A m \in B!Nodes : t[m] = IF m \in Path THEN "FREE" ELSE tree[m]
  BY DEF TreeTrue, B!NodeStates, Merged
<1>5. ASSUME NEW k \in 1..B!Level(n) PROVE tree[Above(n, k)] # "USED"
  BY <1>5, UsedBelow
<1>6. n \in Path
  <2>1. 0 \in 0..top /\ Above(n, 0) = n
    BY <1>1, <1>2, AboveFacts
  <2> QED BY <2>1
<1>7. \A m \in B!Nodes : t[m] = "USED" <=> m # n /\ tree[m] = "USED"
  <2>1. ASSUME NEW k \in 0..top PROVE Above(n, k) = n \/ tree[Above(n, k)] # "USED"
    <3>1. CASE k = 0
      BY <1>1, <3>1, AboveFacts
    <3>2. CASE k # 0
      <4>1. k \in 1..B!Level(n)
        BY <1>1, <1>2, <3>2
      <4> QED BY <1>5, <4>1
    <3> QED BY <3>1, <3>2
  <2>2. \A m \in Path : m = n \/ tree[m] # "USED"
    BY <2>1
  <2>. HIDE DEF Path
  <2> QED BY <1>4, <1>6, <2>2
<1>8. \A k \in 1..B!Level(x) : t[Above(x, k)] # "USED"
  <2>1. ASSUME NEW k \in 1..B!Level(x) PROVE t[Above(x, k)] # "USED"
    <3>1. B!Level(x) = B!Level(n) - top
      BY <1>1, <1>2, <1>3, AboveFacts
    <3>2. Above(x, k) = Above(n, top + k)
      <4>1. 2^top * 2^k = 2^(top + k) /\ 2^top \in Nat \ {0} /\ 2^k \in Nat \ {0}
        <5>1. top \in Nat /\ k \in Nat
          BY <1>1, <1>2
        <5> QED BY <5>1, Powers, PowersAdd
      <4>2. ASSUME NEW a \in Nat, NEW c \in Nat \ {0}, NEW d \in Nat \ {0}
            PROVE  (a \div c) \div d = a \div (c * d)
        OBVIOUS
      <4> QED BY <1>1, <1>3, <4>1, <4>2 DEF Above
    <3>3. top + k \in 1..B!Level(n) /\ k \in 0..B!Level(x)
      BY <1>1, <1>2, <3>1
    <3>4. Above(x, k) \in B!Nodes
      BY <3>3, NodesFacts
    <3>. HIDE DEF Path
    <3> QED BY <1>4, <1>5, <3>2, <3>3, <3>4
  <2> QED BY <2>1
<1>9. ASSUME NEW m \in B!Nodes, m # x \div 2 PROVE Agrees(t, m)
  <2>1. m \in Nat \ {0} /\ (2 * m \in B!Nodes => 2 * m + 1 \in B!Nodes)
    BY NodesFacts
  <2>2. ASSUME NEW c \in {2 * m, 2 * m + 1}, c \in Path PROVE m \in Path /\ m # n
    <3>1. PICK k \in 0..top : c = Above(n, k)
      BY <2>2
    <3>2. k \in 0..B!Level(n)
      BY <1>1, <1>2
    <3>3. m = Above(n, k + 1) /\ k + 1 <= B!Level(n)
      BY <3>1, <3>2, PathChildren
    <3>4. k # top
      <4>1. Above(n, k + 1) = Above(n, k) \div 2
        BY <1>1, AboveFacts
      <4> QED BY <1>3, <1>9, <3>3, <4>1
    <3>5. k + 1 \in 0..top
      BY <1>2, <3>4
    <3>6. B!Level(m) = B!Level(n) - (k + 1)
      <4>1. k + 1 \in 0..B!Level(n)
        BY <1>1, <1>2, <3>5
      <4> QED BY <1>1, <3>3, <4>1, AboveFacts
    <3>7. m # n
      BY <1>1, <3>6
    <3> QED BY <3>3, <3>5, <3>7
  <2>3. CASE m \notin Path
    <3>1. Agrees(tree, m)
      BY DEF TreeTrue
    <3>2. t[m] = tree[m]
      BY <1>4, <2>3
    <3>3. 2 * m \in B!Nodes => t[2 * m] = tree[2 * m] /\ t[2 * m + 1] = tree[2 * m + 1]
      <4>. HIDE DEF Path
      <4> QED BY <1>4, <2>1, <2>2, <2>3
    <3> QED BY <3>1, <3>2, <3>3 DEF Agrees
  <2>4. CASE m = n
    <3>1. t[m] = "FREE"
      BY <1>4, <1>6, <2>4
    <3>2. 2 * m \in B!Nodes => tree[2 * m] = "FREE" /\ tree[2 * m + 1] = "FREE"
      BY <2>4 DEF TreeTrue, Agrees, B!Joined
    <3>3. 2 * m \in B!Nodes => t[2 * m] = tree[2 * m] /\ t[2 * m + 1] = tree[2 * m + 1]
      <4>. HIDE DEF Path
      <4> QED BY <1>4, <2>1, <2>2, <2>4
    <3> QED BY <3>1, <3>2, <3>3 DEF Agrees, B!Joined
  <2>5. CASE m \in Path /\ m # n
    <3>1. PICK k \in 0..top : m = Above(n, k)
      BY <2>5
    <3>2. k # 0
      BY <1>1, <2>5, <3>1, AboveFacts
    <3>3. PICK i \in Nat : k = i + 1 /\ i + 1 <= B!Level(n) /\ i \in 0..(top - 1) /\ i \in 0..top
      <4>1. /\ k - 1 \in Nat /\ k = (k - 1) + 1 /\ (k - 1) + 1 <= B!Level(n)
            /\ k - 1 \in 0..(top - 1) /\ k - 1 \in 0..top
        BY <1>1, <1>2, <3>2
      <4> QED BY <4>1
    <3>4. /\ Above(n, i) \in {2 * m, 2 * m + 1} /\ 2 * m \in B!Nodes /\ 2 * m + 1 \in B!Nodes
          /\ Above(n, i) \in B!Nodes /\ Above(n, i) >= 2 /\ Above(n, i) \div 2 = m
      BY <3>1, <3>3, StepUp
    <3>5. t[m] = "FREE" /\ t[Above(n, i)] = "FREE"
      BY <1>4, <2>5, <3>3, <3>4
    <3>6. t[B!Sibling(Above(n, i))] = "FREE"
      <4>1. tree[B!Sibling(Above(n, i))] = "FREE"
        BY <1>2, <3>3
      <4>2. B!Sibling(Above(n, i)) \in B!Nodes
        BY <3>4, ChildOf
      <4>. HIDE DEF Path
      <4> QED BY <1>4, <4>1, <4>2
    <3>7. /\ Above(n, i) = 2 * m => B!Sibling(Above(n, i)) = 2 * m + 1
          /\ Above(n, i) = 2 * m + 1 => B!Sibling(Above(n, i)) = 2 * m
      BY <3>4, ChildOf
    <3>8. t[2 * m] = "FREE" /\ t[2 * m + 1] = "FREE"
      BY <3>4, <3>5, <3>6, <3>7
    <3> QED BY <3>4, <3>5, <3>8 DEF Agrees, B!Joined
  <2> QED BY <2>3, <2>4, <2>5
<1> QED BY <1>3, <1>4, <1>7, <1>8, <1>9

-----------------------------------------------------------------------------
(* The inductive invariant of the buddy manager.                           *)

BuddyLayout ==
  /\ heap_size \in Nat /\ total_size = B!Manageable
  /\ levels = IF total_size = 0 THEN 0 ELSE B!Log2(total_size \div BLOCK) + 1

Block(n) == [at |-> B!Address(n), len |-> B!BlockSize(n)]

\* The blocks held are those of the USED nodes, each held once.
HeldUsed ==
  /\ buddy_held \in [Pointers -> [at : Nat, len : Nat]]
  /\ \A p \in B!Held : \E n \in B!Nodes : tree[n] = "USED" /\ buddy_held[p] = Block(n)
  /\ \A n \in B!Nodes : tree[n] = "USED" => \E p \in B!Held : buddy_held[p] = Block(n)
  /\ \A p, q \in B!Held : p # q => buddy_held[p].at # buddy_held[q].at

\* The bytes of the blocks in use.
Bytes(n)     == B!Address(n)..(B!Address(n) + B!BlockSize(n) - 1)
UsedBytes(t) == UNION {Bytes(n) : n \in {m \in B!Nodes : t[m] = "USED"}}

BuddyInv ==
  /\ BuddyLayout
  /\ TreeTrue(tree)
  /\ HeldUsed
  /\ used_mem = Cardinality(UsedBytes(tree))

\* my_log2 of more is not less.
LEMMA LogGrows ==
  ASSUME NEW a \in Nat \ {0}, NEW c \in Nat \ {0}, a <= c
  PROVE  B!Log2(a) <= B!Log2(c)
PROOF
<1>1. /\ B!Log2(a) \in Nat /\ 2^B!Log2(a) <= a
      /\ B!Log2(c) \in Nat /\ c < 2^(B!Log2(c) + 1)
  BY LogExists
<1>2. B!Log2(c) < B!Log2(a) => 2^(B!Log2(c) + 1) <= 2^B!Log2(a)
  BY <1>1, PowersGrow
<1>3. 2^(B!Log2(c) + 1) \in Nat /\ 2^B!Log2(a) \in Nat
  BY <1>1, Powers
<1> QED BY <1>1, <1>2, <1>3

\* mm_init leaves room for the tree and the heap it hands out.
LEMMA LayoutIs ==
  ASSUME BuddyLayout
  PROVE  LayoutTrue /\ B!LayoutFits
PROOF
<1>1. BLOCK \in Nat \ {0} /\ heap_size \in Nat
  BY ConstantTypes DEF BuddyLayout
<1>2. CASE total_size = 0
  BY <1>2 DEF BuddyLayout, LayoutTrue, B!LayoutFits
<1>3. CASE total_size # 0
  <2>. DEFINE ratio == heap_size \div BLOCK  room == heap_size - B!TreeSize
  <2>1. /\ heap_size >= 4 * BLOCK /\ B!TreeSize < heap_size
        /\ total_size = 2^B!Log2(room) /\ total_size >= BLOCK
    BY <1>3 DEF BuddyLayout, B!Manageable, B!FloorPow2
  <2>2. ratio \in Nat \ {0}
    BY <1>1, <2>1
  <2>3. /\ B!PreLevels = B!Log2(ratio) + 1 /\ B!Log2(ratio) \in Nat
        /\ B!TreeSize = 2^(B!Log2(ratio) + 1)
    BY <2>2, LogExists DEF B!PreLevels, B!TreeSize
  <2>4. B!TreeSize \in Nat
    BY <2>3, Powers
  <2>5. room \in Nat \ {0}
    BY <1>1, <2>1, <2>4
  <2>6. PICK e \in Nat : e = B!Log2(room) /\ total_size = 2^e /\ 2^e <= room
    BY <2>1, <2>5, LogExists
  <2>. HIDE DEF ratio, room
  <2>7. total_size \in Nat \ {0}
    BY <2>6, Powers
  <2>8. PICK quot : quot = total_size \div BLOCK
    OBVIOUS
  <2>9. quot \in Nat \ {0} /\ BLOCK * quot <= total_size /\ quot <= total_size /\ quot <= ratio
    <3>1. total_size <= heap_size
      BY <1>1, <2>1, <2>4, <2>6, <2>7 DEF room
    <3> QED BY <1>1, <2>1, <2>7, <2>8, <3>1 DEF ratio
  <2>10. PICK l \in Nat : l = B!Log2(quot) /\ 2^l <= quot
    BY <2>9, LogExists
  <2>11. levels = l + 1
    BY <1>3, <2>8, <2>10 DEF BuddyLayout
  <2>12. l <= e
    <3>1. 2^l <= 2^e /\ 2^l \in Nat /\ 2^e \in Nat \ {0} /\ 2^(e + 1) = 2 * 2^e
      BY <2>6, <2>7, <2>9, <2>10, Powers
    <3>2. e < l => 2^(e + 1) <= 2^l
      BY PowersGrow
    <3> QED BY <3>1, <3>2
  <2>13. BLOCK * 2^l <= 2^e
    <3>1. ASSUME NEW x \in Nat, NEW y \in Nat, x <= y PROVE BLOCK * x <= BLOCK * y
      BY <1>1, <3>1
    <3>2. BLOCK * 2^l <= BLOCK * quot /\ BLOCK * 2^l \in Nat /\ BLOCK * quot \in Nat
      BY <1>1, <2>9, <2>10, <3>1, Powers
    <3> QED BY <2>6, <2>7, <2>9, <3>2
  <2>14. LayoutTrue
    <3>1. levels - 1 = l /\ levels \in Nat /\ levels # 0
      BY <2>11
    <3> QED BY <2>6, <2>12, <2>13, <3>1 DEF LayoutTrue
  <2>15. 2^levels <= B!TreeSize
    <3>1. l <= B!Log2(ratio)
      BY <2>2, <2>9, <2>10, LogGrows
    <3>2. l + 1 \in Nat /\ B!Log2(ratio) + 1 \in Nat /\ l + 1 <= B!Log2(ratio) + 1
      BY <2>3, <3>1
    <3> QED BY <2>3, <2>11, <3>2, PowersGrow
  <2>16. B!TreeSize + total_size <= heap_size
    BY <1>1, <2>4, <2>6, <2>7 DEF room
  <2> QED BY <2>14, <2>15, <2>16 DEF B!LayoutFits
<1> QED BY <1>2, <1>3

\* Every block begins at a multiple of the smallest one.
LEMMA Aligned ==
  ASSUME LayoutTrue, NEW n \in B!Nodes
  PROVE  B!Address(n) % BLOCK = 0
PROOF
<1>1. PICK k \in Nat : BLOCK = 2^k
  <2>1. \E k \in 0..BLOCK : BLOCK = 2^k
    BY ManagersAssumption, Zenon
  <2>2. PICK k \in 0..BLOCK : BLOCK = 2^k
    BY <2>1
  <2>3. k \in Nat
    BY <2>2
  <2> QED BY <2>2, <2>3
<1>2. n \in Nat \ {0} /\ levels \in Nat /\ B!Level(n) \in Nat /\ B!Level(n) < levels
  <2>1. n \in Nat \ {0} /\ levels \in Nat
    BY BlockSizes DEF LayoutTrue
  <2> QED BY <2>1, NodesFacts, LevelFacts
<1>3. PICK e \in Nat : total_size = 2^e /\ levels - 1 <= e /\ BLOCK * 2^(levels - 1) <= 2^e
  BY <1>2 DEF LayoutTrue
<1>4. B!BlockSize(n) = 2^(e - B!Level(n))
  <2>1. B!Level(n) <= e /\ e - B!Level(n) \in Nat /\ e = B!Level(n) + (e - B!Level(n))
    BY <1>2, <1>3
  <2>2. 2^e = 2^B!Level(n) * 2^(e - B!Level(n))
    BY <1>2, <2>1, PowersAdd
  <2>3. 2^B!Level(n) \in Nat \ {0} /\ 2^(e - B!Level(n)) \in Nat
    BY <1>2, <2>1, Powers
  <2> QED BY <1>3, <2>2, <2>3, ExactQuotient DEF B!BlockSize
<1>5. k + (levels - 1) <= e
  <2>1. levels - 1 \in Nat /\ k + (levels - 1) \in Nat
    BY <1>2
  <2>2. 2^(k + (levels - 1)) <= 2^e
    BY <1>1, <1>3, <2>1, PowersAdd
  <2>3. e < k + (levels - 1) => 2^(e + 1) <= 2^(k + (levels - 1))
    BY <2>1, PowersGrow
  <2>4. 2^(e + 1) = 2 * 2^e /\ 2^e \in Nat \ {0} /\ 2^(k + (levels - 1)) \in Nat
    BY <2>1, Powers
  <2> QED BY <2>1, <2>2, <2>3, <2>4
<1>6. PICK j \in Nat : e - B!Level(n) = k + j
  <2>1. e - B!Level(n) - k \in Nat /\ e - B!Level(n) = k + (e - B!Level(n) - k)
    BY <1>2, <1>5
  <2> QED BY <2>1
<1>7. PICK d \in Nat : B!BlockSize(n) = BLOCK * d
  <2>1. 2^(k + j) = 2^k * 2^j /\ 2^j \in Nat
    BY PowersAdd, Powers
  <2> QED BY <1>1, <1>4, <1>6, <2>1
<1>8. PICK x \in Nat : B!Address(n) = x * B!BlockSize(n)
  <2>1. 2^B!Level(n) <= n /\ 2^B!Level(n) \in Nat
    BY <1>2, LevelBounds, Powers
  <2>2. n - 2^B!Level(n) \in Nat
    BY <1>2, <2>1
  <2> QED BY <2>2 DEF B!Address
<1>9. BLOCK \in Nat \ {0}
  BY ConstantTypes
<1>10. x * (BLOCK * d) = (x * d) * BLOCK /\ x * d \in Nat
  BY <1>9
<1>11. ASSUME NEW a \in Nat PROVE (a * BLOCK) % BLOCK = 0
  BY <1>9
<1> QED BY <1>7, <1>8, <1>10, <1>11

\* A search from the left finds the least of those it looks for.
LEMMA LeftmostExists ==
  ASSUME NEW F \in SUBSET Nat, F # {}
  PROVE  B!Min(F) \in F
PROOF
<1>1. PICK i \in F : \A j \in F : ~(<<j, i>> \in OpToRel(<, Nat))
  BY NatLessThanWellFounded, WFMin
<1>2. \A j \in F : ~(j < i)
  BY <1>1 DEF OpToRel
<1>3. \A j \in F : i <= j
  BY <1>2
<1> QED BY <1>3 DEF B!Min

\* The level that mm_alloc searches has blocks with room for what is asked.
LEMMA TargetHasRoom ==
  ASSUME LayoutTrue, NEW size \in 1..total_size, NEW n \in B!Nodes,
         B!Level(n) = B!TargetLevel(size)
  PROVE  B!BlockSize(n) >= size
PROOF
<1>. DEFINE S == {l \in 0..(levels - 1) : total_size \div 2^l >= size}
<1>1. total_size \in Nat \ {0} /\ levels \in Nat
  BY BlockSizes DEF LayoutTrue
<1>2. levels # 0
  BY <1>1 DEF LayoutTrue
<1>3. total_size \div 2^0 >= size
  BY <1>1, Powers
<1>4. 0 \in S /\ levels - 1 \in Nat
  BY <1>1, <1>2, <1>3
<1>5. B!Max(S) \in S
  BY <1>4, GreatestExists
<1>6. B!TargetLevel(size) = B!Max(S)
  BY DEF B!TargetLevel
<1>7. total_size \div 2^B!Level(n) >= size
  BY <1>5, <1>6
<1> QED BY <1>7 DEF B!BlockSize

\* One more node in use is as many bytes more as its block has.
LEMMA UsedBytesGrow ==
  ASSUME LayoutTrue, NEW s, NEW t, TreeTrue(t), NEW n \in B!Nodes, s[n] # "USED",
         \A m \in B!Nodes : t[m] = "USED" <=> m = n \/ s[m] = "USED"
  PROVE  /\ Cardinality(UsedBytes(t)) = Cardinality(UsedBytes(s)) + B!BlockSize(n)
         /\ Cardinality(UsedBytes(s)) \in Nat
PROOF
<1>1. \A m \in B!Nodes : /\ B!Address(m) \in Nat /\ B!BlockSize(m) \in Nat \ {0}
                         /\ B!Address(m) + B!BlockSize(m) <= total_size
  BY Addresses, BlockSizes
<1>2. total_size \in Nat
  BY BlockSizes
<1>3. UsedBytes(t) = UsedBytes(s) \cup Bytes(n)
  BY DEF UsedBytes
<1>4. UsedBytes(s) \cap Bytes(n) = {}
  <2>1. ASSUME NEW m \in B!Nodes, s[m] = "USED" PROVE Bytes(m) \cap Bytes(n) = {}
    <3>1. m # n /\ t[m] = "USED" /\ t[n] = "USED"
      BY <2>1
    <3>2. BlocksApart(n, m)
      BY <3>1, UsedApart
    <3> QED BY <3>2, <1>1 DEF BlocksApart, Bytes
  <2> QED BY <2>1 DEF UsedBytes
<1>5. UsedBytes(s) \subseteq 0..(total_size - 1)
  BY <1>1, <1>2 DEF UsedBytes, Bytes
<1>6. IsFiniteSet(UsedBytes(s))
  <2>1. 0 \in Int /\ total_size - 1 \in Int
    BY <1>2
  <2>2. IsFiniteSet(0..(total_size - 1))
    BY <2>1, FS_Interval
  <2> QED BY <2>2, <1>5, FS_Subset
<1>7. IsFiniteSet(Bytes(n)) /\ Cardinality(Bytes(n)) = B!BlockSize(n)
  <2>. DEFINE a == B!Address(n)  z == B!Address(n) + B!BlockSize(n) - 1
  <2>1. a \in Int /\ z \in Int /\ a <= z /\ z - a + 1 = B!BlockSize(n)
    BY <1>1
  <2>2. IsFiniteSet(a..z) /\ Cardinality(a..z) = (IF a > z THEN 0 ELSE z - a + 1)
    <3>. HIDE DEF a, z
    <3> QED BY <2>1, FS_Interval
  <2> QED BY <2>1, <2>2 DEF Bytes
<1>8. Cardinality(UsedBytes(s) \cup Bytes(n))
        = Cardinality(UsedBytes(s)) + Cardinality(Bytes(n)) - Cardinality(UsedBytes(s) \cap Bytes(n))
  BY <1>6, <1>7, FS_Union
<1>9. Cardinality(UsedBytes(s)) \in Nat /\ Cardinality({}) = 0
  BY <1>6, FS_CardinalityType, FS_EmptySet
<1>10. B!BlockSize(n) \in Nat
  BY <1>1
<1>11. Cardinality(UsedBytes(t)) = Cardinality(UsedBytes(s)) + B!BlockSize(n) - 0
  BY <1>3, <1>4, <1>7, <1>8, <1>9
<1> QED BY <1>9, <1>10, <1>11

\* Nothing of the layout changes after mm_init.
LEMMA SameLayout ==
  ASSUME UNCHANGED B!layout
  PROVE  /\ BuddyLayout => BuddyLayout'
         /\ B!Nodes' = B!Nodes
         /\ \A n : Block(n)' = Block(n)
         /\ TreeTrue(tree') => TreeTrue(tree)'
         /\ UsedBytes(tree)' = UsedBytes(tree')
PROOF
<1>1. heap_size' = heap_size /\ total_size' = total_size /\ levels' = levels
  BY DEF B!layout
<1>2. BuddyLayout => BuddyLayout'
  BY <1>1 DEF BuddyLayout, B!Manageable, B!TreeSize, B!PreLevels, B!FloorPow2, B!Log2
<1>3. B!Nodes' = B!Nodes
  BY <1>1 DEF B!Nodes
<1>4. \A n : B!BlockSize(n)' = B!BlockSize(n)
  BY <1>1 DEF B!BlockSize, B!Level, B!Log2
<1>5. \A n : B!Address(n)' = B!Address(n)
  BY <1>4 DEF B!Address, B!Level, B!Log2
<1>6. \A n : Block(n)' = Block(n)
  BY <1>4, <1>5 DEF Block
<1>7. TreeTrue(tree') => TreeTrue(tree)'
  BY <1>3 DEF TreeTrue, Agrees, B!Joined, B!NodeStates
<1>8. UsedBytes(tree)' = UsedBytes(tree')
  BY <1>3, <1>4, <1>5 DEF UsedBytes, Bytes
<1> QED BY <1>2, <1>3, <1>6, <1>7, <1>8

\* A call that changes nothing keeps the invariant.
LEMMA BuddySame ==
  ASSUME BuddyInv, UNCHANGED B!buddyvars
  PROVE  BuddyInv'
PROOF
<1>1. UNCHANGED B!layout /\ UNCHANGED <<tree, used_mem, buddy_held>>
  BY DEF B!buddyvars
<1>2. BuddyLayout' /\ TreeTrue(tree)' /\ used_mem' = Cardinality(UsedBytes(tree)')
  BY <1>1, SameLayout DEF BuddyInv
<1>3. HeldUsed'
  <2>1. B!Nodes' = B!Nodes /\ \A m : Block(m)' = Block(m)
    BY <1>1, SameLayout
  <2> QED BY <1>1, <2>1 DEF BuddyInv, HeldUsed, B!Held
<1> QED BY <1>2, <1>3 DEF BuddyInv

\* mm_alloc marks a free node of the level it searches, whose block nobody holds.
LEMMA BuddyAllocKeeps ==
  ASSUME BuddyInv, NEW p \in Pointers, NEW size \in Sizes, p \notin B!Held, B!MmAlloc(p, size)
  PROVE  /\ BuddyInv' /\ total_size' = total_size
         /\ \E n \in B!Nodes :
              /\ buddy_held' = [buddy_held EXCEPT ![p] = Block(n)]
              /\ B!BlockSize(n) >= size
              /\ \A q \in B!Held : \E m \in B!Nodes : buddy_held[q] = Block(m) /\ BlocksApart(n, m)
PROOF
<1>. USE DEF BuddyInv
<1>1. LayoutTrue /\ levels \in Nat
  BY LayoutIs DEF LayoutTrue
<1>2. PICK l : l = B!TargetLevel(size)
  OBVIOUS
<1>3. /\ size \in 1..total_size
      /\ B!Fitting(size) = B!Candidates(l) /\ B!Candidates(l) # {}
  BY <1>2 DEF B!MmAlloc, B!Fitting
<1>4. PICK n : n = B!Min(B!Candidates(l))
  OBVIOUS
<1>5. n \in B!Candidates(l)
  <2>1. B!Candidates(l) \subseteq Nat
    BY <1>1, NodesFacts DEF B!Candidates
  <2> QED BY <1>3, <1>4, <2>1, LeftmostExists
<1>6. /\ n \in B!Nodes /\ B!Level(n) = l /\ tree[n] = "FREE"
      /\ \A k \in 1..B!Level(n) : tree[Above(n, k)] \in {"FREE", "SPLIT"}
  BY <1>1, <1>5, CandidatesAre
<1>7. PICK t : t = Marked(n)
  OBVIOUS
<1>8. /\ tree' = B!UpdateParent(t, n)
      /\ used_mem' = used_mem + B!BlockSize(n)
      /\ buddy_held' = [buddy_held EXCEPT ![p] = Block(n)]
      /\ UNCHANGED B!layout
  BY <1>3, <1>4, <1>7 DEF B!MmAlloc, Block, Marked
<1>9. /\ t \in [B!Nodes -> B!NodeStates]
      /\ \A m \in B!Nodes : m # n \div 2 => Agrees(t, m)
      /\ \A k \in 1..B!Level(n) : t[Above(n, k)] # "USED"
      /\ \A m \in B!Nodes : t[m] = "USED" <=> m = n \/ tree[m] = "USED"
  <2>1. TreeTrue(tree)
    OBVIOUS
  <2>. HIDE DEF BuddyInv
  <2> QED BY <1>1, <1>6, <1>7, <2>1, SplitMarks
<1>10. TreeTrue(tree') /\ \A m \in B!Nodes : tree'[m] = "USED" <=> m = n \/ tree[m] = "USED"
  BY <1>1, <1>6, <1>8, <1>9, UpdateRepairs
<1>11. \A m \in B!Nodes : Block(m) \in [at : Nat, len : Nat] /\ Block(m).len # 0
  BY <1>1, Addresses, BlockSizes DEF Block
<1>12. \A m \in B!Nodes : tree[m] = "USED" => m # n /\ BlocksApart(n, m)
  BY <1>1, <1>6, <1>10, UsedApart
<1>13. \A m \in B!Nodes : tree[m] = "USED" => Block(m).at # Block(n).at
  <2>1. \A m \in B!Nodes : /\ B!Address(m) \in Nat /\ B!BlockSize(m) \in Nat \ {0}
    BY <1>1, Addresses, BlockSizes
  <2> QED BY <1>6, <1>12, <2>1 DEF BlocksApart, Block
<1>14. /\ B!Held' = B!Held \cup {p} /\ buddy_held'[p] = Block(n)
       /\ \A q \in B!Held : buddy_held'[q] = buddy_held[q]
       /\ B!Held \subseteq Pointers
  BY <1>6, <1>8, <1>11 DEF HeldUsed, B!Held, B!Nothing
<1>15. HeldUsed'
  <2>1. buddy_held' \in [Pointers -> [at : Nat, len : Nat]]
    BY <1>6, <1>8, <1>11 DEF HeldUsed
  <2>2. \A q \in B!Held' : \E m \in B!Nodes : tree'[m] = "USED" /\ buddy_held'[q] = Block(m)
    BY <1>6, <1>10, <1>14 DEF HeldUsed
  <2>3. \A m \in B!Nodes : tree'[m] = "USED" => \E q \in B!Held' : buddy_held'[q] = Block(m)
    BY <1>10, <1>14 DEF HeldUsed
  <2>4. \A q \in B!Held : buddy_held[q].at # Block(n).at
    BY <1>13 DEF HeldUsed
  <2>5. \A q, r \in B!Held' : q # r => buddy_held'[q].at # buddy_held'[r].at
    BY <1>14, <2>4 DEF HeldUsed
  <2>6. B!Nodes' = B!Nodes /\ \A m : Block(m)' = Block(m)
    BY <1>8, SameLayout
  <2> QED BY <2>1, <2>2, <2>3, <2>5, <2>6 DEF HeldUsed
<1>16. used_mem' = Cardinality(UsedBytes(tree'))
  BY <1>1, <1>6, <1>8, <1>10, UsedBytesGrow
<1>17. BuddyInv'
  BY <1>8, <1>10, <1>15, <1>16, SameLayout
<1>18. B!BlockSize(n) >= size
  BY <1>1, <1>2, <1>3, <1>6, TargetHasRoom
<1>19. \A q \in B!Held : \E m \in B!Nodes : buddy_held[q] = Block(m) /\ BlocksApart(n, m)
  BY <1>12 DEF HeldUsed
<1> QED BY <1>6, <1>8, <1>17, <1>18, <1>19 DEF B!layout

\* Any call of mm_alloc by somebody who holds nothing.
LEMMA BuddyAllocCallKeeps ==
  ASSUME BuddyInv, NEW p \in Pointers, NEW size \in Sizes, p \notin B!Held, B!AllocCall(p, size)
  PROVE  BuddyInv'
PROOF
<1>1. CASE B!MmAlloc(p, size)
  BY <1>1, BuddyAllocKeeps
<1>2. CASE UNCHANGED B!buddyvars
  BY <1>2, BuddySame
<1> QED BY <1>1, <1>2 DEF B!AllocCall, B!MmAllocNull

\* The only node in use at an address is that of the block somebody holds there.
LEMMA UsedAtIsHeld ==
  ASSUME BuddyInv, NEW at, B!UsedAt(at) # {}
  PROVE  \E n \in B!Nodes : /\ B!Max(B!UsedAt(at)) = n
                            /\ tree[n] = "USED" /\ at = Block(n).at
                            /\ \E p \in B!Held : buddy_held[p] = Block(n)
PROOF
<1>. USE DEF BuddyInv
<1>1. LayoutTrue
  BY LayoutIs
<1>2. PICK n \in B!Nodes : tree[n] = "USED" /\ B!Address(n) = at
  BY DEF B!UsedAt
<1>3. \A m \in B!Nodes : /\ B!Address(m) \in Nat /\ B!BlockSize(m) \in Nat \ {0} /\ m \in Nat
  BY <1>1, Addresses, BlockSizes
<1>4. ASSUME NEW m \in B!Nodes, tree[m] = "USED", B!Address(m) = at PROVE m = n
  <2>1. m # n => BlocksApart(n, m)
    BY <1>1, <1>2, <1>4, UsedApart
  <2> QED BY <1>2, <1>3, <1>4, <2>1 DEF BlocksApart
<1>5. B!UsedAt(at) = {n}
  BY <1>2, <1>4 DEF B!UsedAt
<1>6. B!Max(B!UsedAt(at)) = n
  BY <1>3, <1>5 DEF B!Max
<1> QED BY <1>2, <1>6 DEF HeldUsed, Block

\* mm_free gives back the block of one pointer.
LEMMA BuddyFreeKeeps ==
  ASSUME BuddyInv, NEW at, B!MmFree(at)
  PROVE  /\ BuddyInv' /\ total_size' = total_size
         /\ \E p \in B!Held : /\ buddy_held[p].at = at
                              /\ buddy_held' = [buddy_held EXCEPT ![p] = B!Nothing]
PROOF
<1>. USE DEF BuddyInv
<1>1. LayoutTrue /\ levels \in Nat /\ TreeTrue(tree)
  BY LayoutIs DEF LayoutTrue
<1>2. PICK n \in B!Nodes :
        /\ B!Max(B!UsedAt(at)) = n /\ tree[n] = "USED" /\ at = Block(n).at
        /\ \E p \in B!Held : buddy_held[p] = Block(n)
  BY UsedAtIsHeld DEF B!MmFree
<1>3. PICK p \in B!Held : buddy_held[p] = Block(n)
  BY <1>2
<1>4. PICK top : top = B!MergeEnds(tree, n)
  OBVIOUS
<1>5. PICK t : t = Merged(n, top)
  OBVIOUS
<1>6. /\ tree' = B!UpdateParent(t, Above(n, top))
      /\ used_mem' = used_mem - B!BlockSize(n)
      /\ buddy_held' = [q \in Pointers |-> IF buddy_held[q].at = at THEN B!Nothing ELSE buddy_held[q]]
      /\ UNCHANGED B!layout
  BY <1>2, <1>4, <1>5 DEF B!MmFree, Merged, Above
<1>7. /\ Above(n, top) \in B!Nodes
      /\ t \in [B!Nodes -> B!NodeStates]
      /\ \A m \in B!Nodes : m # Above(n, top) \div 2 => Agrees(t, m)
      /\ \A k \in 1..B!Level(Above(n, top)) : t[Above(Above(n, top), k)] # "USED"
      /\ \A m \in B!Nodes : t[m] = "USED" <=> m # n /\ tree[m] = "USED"
  <2>. HIDE DEF BuddyInv
  <2> QED BY <1>1, <1>2, <1>4, <1>5, MergeFrees
<1>8. TreeTrue(tree') /\ \A m \in B!Nodes : tree'[m] = "USED" <=> m # n /\ tree[m] = "USED"
  BY <1>1, <1>6, <1>7, UpdateRepairs
<1>9. /\ p \in Pointers /\ B!Held \subseteq Pointers
      /\ \A q \in B!Held : q # p => buddy_held[q].at # at
  BY <1>2, <1>3 DEF HeldUsed, B!Held
<1>10. /\ buddy_held'[p] = B!Nothing
       /\ \A q \in Pointers : q # p => buddy_held'[q] = buddy_held[q]
  <2>1. ASSUME NEW q \in Pointers, q # p PROVE buddy_held'[q] = buddy_held[q]
    <3>1. CASE q \in B!Held
      BY <2>1, <3>1, <1>6, <1>9
    <3>2. CASE q \notin B!Held
      BY <2>1, <3>2, <1>6 DEF B!Held
    <3> QED BY <3>1, <3>2
  <2>2. buddy_held'[p] = B!Nothing
    BY <1>2, <1>3, <1>6, <1>9
  <2> QED BY <2>1, <2>2
<1>11. buddy_held' = [buddy_held EXCEPT ![p] = B!Nothing]
  BY <1>6, <1>9, <1>10 DEF HeldUsed
<1>12. B!Held' = B!Held \ {p}
  BY <1>9, <1>10 DEF B!Held, B!Nothing
<1>13. HeldUsed'
  <2>1. buddy_held' \in [Pointers -> [at : Nat, len : Nat]]
    BY <1>11 DEF HeldUsed, B!Nothing
  <2>2. ASSUME NEW q \in B!Held'
        PROVE  \E m \in B!Nodes : tree'[m] = "USED" /\ buddy_held'[q] = Block(m)
    <3>1. q \in B!Held /\ q # p /\ buddy_held'[q] = buddy_held[q]
      BY <1>9, <1>10, <1>12
    <3>2. PICK m \in B!Nodes : tree[m] = "USED" /\ buddy_held[q] = Block(m)
      BY <3>1 DEF HeldUsed
    <3>3. m # n
      BY <3>1, <3>2, <1>2, <1>9
    <3> QED BY <3>1, <3>2, <3>3, <1>8
  <2>3. ASSUME NEW m \in B!Nodes, tree'[m] = "USED"
        PROVE  \E q \in B!Held' : buddy_held'[q] = Block(m)
    <3>1. m # n /\ tree[m] = "USED"
      BY <2>3, <1>8
    <3>2. PICK q \in B!Held : buddy_held[q] = Block(m)
      BY <3>1 DEF HeldUsed
    <3>3. Block(m) # Block(n)
      <4>1. BlocksApart(n, m)
        BY <3>1, <1>1, <1>2, UsedApart
      <4>2. \A k \in B!Nodes : B!Address(k) \in Nat /\ B!BlockSize(k) \in Nat \ {0}
        BY <1>1, Addresses, BlockSizes
      <4> QED BY <4>1, <4>2 DEF BlocksApart, Block
    <3>4. q # p
      BY <3>2, <3>3, <1>3
    <3> QED BY <3>2, <3>4, <1>9, <1>10, <1>12
  <2>4. \A q, r \in B!Held' : q # r => buddy_held'[q].at # buddy_held'[r].at
    BY <1>9, <1>10, <1>12 DEF HeldUsed
  <2>5. B!Nodes' = B!Nodes /\ \A m : Block(m)' = Block(m)
    BY <1>6, SameLayout
  <2> QED BY <2>1, <2>2, <2>3, <2>4, <2>5 DEF HeldUsed
<1>14. used_mem' = Cardinality(UsedBytes(tree'))
  <2>1. /\ Cardinality(UsedBytes(tree)) = Cardinality(UsedBytes(tree')) + B!BlockSize(n)
        /\ Cardinality(UsedBytes(tree')) \in Nat
    <3>1. tree'[n] # "USED" /\ \A m \in B!Nodes : tree[m] = "USED" <=> m = n \/ tree'[m] = "USED"
      BY <1>2, <1>8
    <3>2. PICK s : s = tree'
      OBVIOUS
    <3> QED BY <3>1, <3>2, <1>1, UsedBytesGrow
  <2>2. B!BlockSize(n) \in Nat
    BY <1>1, BlockSizes
  <2> QED BY <2>1, <2>2, <1>6
<1>15. BuddyInv'
  BY <1>6, <1>8, <1>13, <1>14, SameLayout
<1> QED BY <1>2, <1>3, <1>6, <1>11, <1>15 DEF B!layout

-----------------------------------------------------------------------------
(* The theorems about the buddy manager, and those about both.             *)

\* What mm_init leaves: nothing in use.
LEMMA BuddyStarts == B!BuddyInit => BuddyInv
PROOF
<1>. SUFFICES ASSUME B!BuddyInit PROVE BuddyInv
  OBVIOUS
<1>1. BuddyLayout
  BY ConstantTypes DEF B!BuddyInit, BuddyLayout
<1>2. levels \in Nat
  BY <1>1, LayoutIs DEF LayoutTrue
<1>3. TreeTrue(tree)
  <2>1. tree = [n \in B!Nodes |-> "FREE"]
    BY DEF B!BuddyInit
  <2>2. tree \in [B!Nodes -> B!NodeStates]
    BY <2>1 DEF B!NodeStates
  <2>3. ASSUME NEW m \in B!Nodes PROVE Agrees(tree, m)
    <3>1. tree[m] = "FREE" /\ m \in Nat \ {0}
      BY <2>1, <1>2, NodesFacts
    <3>2. CASE 2 * m \in B!Nodes
      <4>1. 2 * m + 1 \in B!Nodes
        BY <3>1, <3>2, <1>2, NodesFacts
      <4>2. tree[2 * m] = "FREE" /\ tree[2 * m + 1] = "FREE"
        BY <2>1, <3>2, <4>1
      <4> QED BY <3>1, <3>2, <4>2 DEF Agrees, B!Joined
    <3> QED BY <3>1, <3>2 DEF Agrees
  <2> QED BY <2>2, <2>3 DEF TreeTrue
<1>4. B!Held = {} /\ \A n \in B!Nodes : tree[n] # "USED"
  BY DEF B!BuddyInit, B!Held
<1>5. HeldUsed
  BY <1>4 DEF HeldUsed, B!BuddyInit, B!Nothing
<1>6. used_mem = Cardinality(UsedBytes(tree))
  <2>1. UsedBytes(tree) = {}
    BY <1>4 DEF UsedBytes
  <2> QED BY <2>1, FS_EmptySet DEF B!BuddyInit
<1> QED BY <1>1, <1>3, <1>5, <1>6 DEF BuddyInv

\* What the callers of Managers do is a call of mm_alloc by somebody who holds
\* nothing, or a call of mm_free.
LEMMA StepsOfBuddy ==
  ASSUME BuddyInv, [ManagersNext]_managersvars
  PROVE  \/ \E p \in Pointers, size \in Sizes : p \notin B!Held /\ B!AllocCall(p, size)
         \/ \E at : B!FreeCall(at)
         \/ UNCHANGED B!buddyvars
PROOF
<1>1. CASE UNCHANGED managersvars
  BY <1>1 DEF managersvars, B!buddyvars, B!layout
<1>2. ASSUME NEW p \in Pointers, NEW size \in Sizes, Alloc(p, size)
      PROVE  p \notin B!Held /\ B!AllocCall(p, size)
  <2>1. CASE buddy_held[p] = B!Nothing
    BY <1>2, <2>1 DEF Alloc, B!Held
  <2>2. CASE buddy_held[p] # B!Nothing
    <3>1. buddy_held[p].at \in Nat
      BY DEF BuddyInv, HeldUsed
    <3>2. buddy_held[p].at = -1
      BY <1>2, <2>2 DEF Alloc, PointerIn, NULL
    <3> QED BY <3>1, <3>2
  <2> QED BY <2>1, <2>2
<1>3. ASSUME NEW p \in Pointers, Free(p)
      PROVE  \E at : B!FreeCall(at)
  BY <1>3 DEF Free
<1>4. ASSUME NEW at \in M!Addresses, FreeStray(at)
      PROVE  \E x : B!FreeCall(x)
  BY <1>4 DEF FreeStray
<1> QED BY <1>1, <1>2, <1>3, <1>4 DEF ManagersNext

\* The inductive invariant holds of every state of the specification: what
\* mm_init laid out, a tree in which every node agrees with its children, the
\* blocks held being those of the USED nodes, and used_mem their bytes.
THEOREM BuddyInvariant == ManagersSpec => []BuddyInv
PROOF
<1>1. ManagersInit => BuddyInv
  BY BuddyStarts DEF ManagersInit
<1>2. BuddyInv /\ [ManagersNext]_managersvars => BuddyInv'
  <2>. SUFFICES ASSUME BuddyInv, [ManagersNext]_managersvars PROVE BuddyInv'
    OBVIOUS
  <2>1. ASSUME NEW at, B!FreeCall(at) PROVE BuddyInv'
    BY <2>1, BuddyFreeKeeps, BuddySame DEF B!FreeCall, B!MmFreeNothing
  <2> QED BY <2>1, StepsOfBuddy, BuddyAllocCallKeeps, BuddySame
<1> QED BY <1>1, <1>2, PTL DEF ManagersSpec

\* After any history mm_state of the buddy manager adds up the blocks held, and
\* these are its USED nodes: mm_free and the merges it makes lose no byte.
THEOREM BuddyUsedAlwaysExact == ManagersSpec => []BuddyUsedExact
PROOF
<1>1. ASSUME BuddyInv PROVE BuddyUsedExact
  <2>. USE <1>1 DEF BuddyInv
  <2>1. LayoutTrue
    BY LayoutIs
  <2>2. \A n \in B!Nodes : /\ B!Address(n) \in Nat /\ B!BlockSize(n) \in Nat \ {0}
                           /\ B!Address(n) + B!BlockSize(n) <= total_size
                           /\ total_size \in Nat
    BY <2>1, Addresses, BlockSizes
  <2>3. B!BytesHeld = UsedBytes(tree)
    <3>1. ASSUME NEW b \in B!BytesHeld PROVE b \in UsedBytes(tree)
      <4>1. /\ b \in Int
            /\ \E p \in B!Held : buddy_held[p].at <= b /\ b < buddy_held[p].at + buddy_held[p].len
        BY <3>1 DEF B!BytesHeld
      <4>2. PICK p \in B!Held : buddy_held[p].at <= b /\ b < buddy_held[p].at + buddy_held[p].len
        BY <4>1
      <4>3. PICK n \in B!Nodes : tree[n] = "USED" /\ buddy_held[p] = Block(n)
        BY DEF HeldUsed
      <4>4. b \in Bytes(n)
        BY <4>1, <4>2, <4>3, <2>2 DEF Block, Bytes
      <4> QED BY <4>3, <4>4 DEF UsedBytes
    <3>2. ASSUME NEW b \in UsedBytes(tree) PROVE b \in B!BytesHeld
      <4>1. PICK n \in B!Nodes : tree[n] = "USED" /\ b \in Bytes(n)
        BY <3>2 DEF UsedBytes
      <4>2. PICK p \in B!Held : buddy_held[p] = Block(n)
        BY <4>1 DEF HeldUsed
      <4>3. /\ b \in 0..(total_size - 1)
            /\ buddy_held[p].at <= b /\ b < buddy_held[p].at + buddy_held[p].len
        BY <4>1, <4>2, <2>2 DEF Block, Bytes
      <4> QED BY <4>3 DEF B!BytesHeld
    <3> QED BY <3>1, <3>2
  <2>4. {<<B!Address(n), B!BlockSize(n)>> : n \in {m \in B!Nodes : tree[m] = "USED"}}
          = {<<buddy_held[p].at, buddy_held[p].len>> : p \in B!Held}
    <3>1. ASSUME NEW n \in B!Nodes, tree[n] = "USED"
          PROVE  \E p \in B!Held : buddy_held[p].at = B!Address(n) /\ buddy_held[p].len = B!BlockSize(n)
      <4>1. PICK p \in B!Held : buddy_held[p] = Block(n)
        BY <3>1 DEF HeldUsed
      <4> QED BY <4>1 DEF Block
    <3>2. ASSUME NEW p \in B!Held
          PROVE  \E n \in B!Nodes : /\ tree[n] = "USED"
                                    /\ buddy_held[p].at = B!Address(n)
                                    /\ buddy_held[p].len = B!BlockSize(n)
      <4>1. PICK n \in B!Nodes : tree[n] = "USED" /\ buddy_held[p] = Block(n)
        BY DEF HeldUsed
      <4> QED BY <4>1 DEF Block
    <3> QED BY ONLY <3>1, <3>2
  <2>5. used_mem = B!Cardinality(B!BytesHeld)
    BY <2>3 DEF B!Cardinality, Cardinality
  <2> QED BY <2>4, <2>5 DEF BuddyUsedExact, B!UsedExact
<1> QED BY <1>1, BuddyInvariant, PTL

\* The search of mm_alloc finds a block of a level exactly when no block held
\* meets one: what is free is never hidden behind a SPLIT or FULL mark.
THEOREM BuddySearchAlwaysExact == ManagersSpec => []BuddySearchExact
PROOF
<1>1. ASSUME BuddyInv PROVE BuddySearchExact
  <2>. USE <1>1 DEF BuddyInv
  <2>1. LayoutTrue /\ levels \in Nat /\ TreeTrue(tree)
    BY LayoutIs DEF LayoutTrue
  <2>2. \A n \in B!Nodes : /\ B!Address(n) \in Nat /\ B!BlockSize(n) \in Nat \ {0}
                           /\ n \in Nat \ {0} /\ B!Level(n) \in Nat
    BY <2>1, Addresses, BlockSizes, LevelFacts
  <2>3. ASSUME NEW l, NEW n \in B!Candidates(l), NEW p \in B!Held
        PROVE  n \in B!Nodes /\ B!Level(n) = l
               /\ \/ B!Address(n) + B!BlockSize(n) <= buddy_held[p].at
                  \/ buddy_held[p].at + buddy_held[p].len <= B!Address(n)
    <3>1. /\ n \in B!Nodes /\ B!Level(n) = l /\ tree[n] = "FREE"
          /\ \A k \in 1..B!Level(n) : tree[Above(n, k)] \in {"FREE", "SPLIT"}
      BY <2>1, CandidatesAre
    <3>2. PICK m \in B!Nodes : tree[m] = "USED" /\ buddy_held[p] = Block(m)
      BY DEF HeldUsed
    <3>3. CASE B!Level(n) <= B!Level(m)
      <4>. DEFINE k == B!Level(m) - B!Level(n)
      <4>1. k \in 0..B!Level(m)
        BY <2>2, <3>1, <3>3
      <4>2. n # Above(m, k)
        BY <2>1, <3>1, <3>2, <4>1, FreeBelow
      <4>3. BlocksApart(n, m)
        BY <2>1, <3>1, <3>3, <4>2, ApartOrAbove
      <4> QED BY <3>1, <3>2, <4>3 DEF BlocksApart, Block
    <3>4. CASE B!Level(m) < B!Level(n)
      <4>. DEFINE k == B!Level(n) - B!Level(m)
      <4>1. k \in 1..B!Level(n) /\ B!Level(m) <= B!Level(n)
        BY <2>2, <3>1, <3>4
      <4>2. m # Above(n, k)
        BY <3>1, <3>2, <4>1
      <4>3. BlocksApart(m, n)
        BY <2>1, <3>1, <4>1, <4>2, ApartOrAbove
      <4> QED BY <3>1, <3>2, <4>3 DEF BlocksApart, Block
    <3> QED BY <2>2, <3>1, <3>3, <3>4
  <2>4. ASSUME NEW n \in B!Nodes,
               \A p \in B!Held : \/ B!Address(n) + B!BlockSize(n) <= buddy_held[p].at
                                 \/ buddy_held[p].at + buddy_held[p].len <= B!Address(n)
        PROVE  n \in B!Candidates(B!Level(n))
    <3>1. ASSUME NEW m \in B!Nodes, tree[m] = "USED" PROVE BlocksApart(n, m)
      <4>1. PICK p \in B!Held : buddy_held[p] = Block(m)
        BY <3>1 DEF HeldUsed
      <4> QED BY <2>4, <4>1 DEF Block, BlocksApart
    <3>2. tree[n] = "FREE"
      <4>. SUFFICES ASSUME tree[n] # "FREE" PROVE FALSE
        OBVIOUS
      <4>1. PICK m \in B!Nodes : \E k \in 0..B!Level(m) : Above(m, k) = n /\ tree[m] = "USED"
        BY <2>1, SomeUsedBelow
      <4>2. /\ B!Address(n) <= B!Address(m)
            /\ B!Address(m) + B!BlockSize(m) <= B!Address(n) + B!BlockSize(n)
        BY <2>1, <4>1, Within
      <4>3. BlocksApart(n, m)
        BY <3>1, <4>1
      <4> QED BY <2>2, <4>2, <4>3 DEF BlocksApart
    <3>3. ASSUME NEW k \in 1..B!Level(n) PROVE tree[Above(n, k)] # "USED"
      <4>1. k \in 0..B!Level(n)
        BY <2>2
      <4>2. Above(n, k) \in B!Nodes
        BY <2>1, <4>1, NodesFacts
      <4>3. /\ B!Address(Above(n, k)) <= B!Address(n)
            /\ B!Address(n) + B!BlockSize(n) <= B!Address(Above(n, k)) + B!BlockSize(Above(n, k))
        BY <2>1, <4>1, Within
      <4>4. ~BlocksApart(n, Above(n, k))
        BY <2>2, <4>2, <4>3 DEF BlocksApart
      <4> QED BY <3>1, <4>2, <4>4
    <3>4. \A k \in 1..B!Level(n) : tree[Above(n, k)] \in {"FREE", "SPLIT"}
      BY <2>1, <3>2, <3>3, AboveOpen
    <3> QED BY <2>1, <3>2, <3>4, CandidatesAre
  <2>5. ASSUME NEW l \in 0..(levels - 1)
        PROVE  B!Candidates(l) # {} <=>
                 \E n \in B!Nodes :
                   /\ B!Level(n) = l
                   /\ \A p \in B!Held : \/ B!Address(n) + B!BlockSize(n) <= buddy_held[p].at
                                      \/ buddy_held[p].at + buddy_held[p].len <= B!Address(n)
    <3>1. ASSUME NEW n \in B!Candidates(l) PROVE n \in B!Nodes /\ B!Level(n) = l
      BY <2>1, CandidatesAre
    <3> QED BY <2>3, <2>4, <3>1
  <2> QED BY <2>5 DEF BuddySearchExact, B!SearchExact
<1> QED BY <1>1, BuddyInvariant, PTL

\* The types of both managers, used_mem and used_blocks within their totals, and
\* what each keeps for itself and hands out within the memory given to mm_init.
THEOREM ManagersTypesHold == ManagersSpec => []ManagersTypeOK
PROOF
<1>1. ASSUME BuddyInv PROVE B!BuddyTypeOK /\ B!LayoutFits
  <2>. USE <1>1 DEF BuddyInv
  <2>1. LayoutTrue /\ B!LayoutFits
    BY LayoutIs
  <2>2. \A n \in B!Nodes : /\ B!Address(n) \in Nat /\ B!BlockSize(n) \in Nat \ {0}
                           /\ B!Address(n) + B!BlockSize(n) <= total_size
    BY <2>1, Addresses, BlockSizes
  <2>3. total_size \in Nat
    BY <2>1, Powers DEF LayoutTrue
  <2>4. UsedBytes(tree) \subseteq 0..(total_size - 1)
    BY <2>2, <2>3 DEF UsedBytes, Bytes
  <2>5. IsFiniteSet(0..(total_size - 1)) /\ Cardinality(0..(total_size - 1)) = total_size
    <3>1. 0 \in Int /\ total_size - 1 \in Int
      BY <2>3
    <3>2. /\ IsFiniteSet(0..(total_size - 1))
          /\ Cardinality(0..(total_size - 1))
               = (IF 0 > total_size - 1 THEN 0 ELSE (total_size - 1) - 0 + 1)
      BY <3>1, FS_Interval
    <3> QED BY <2>3, <3>2
  <2>6. IsFiniteSet(UsedBytes(tree)) /\ Cardinality(UsedBytes(tree)) <= total_size
    BY <2>4, <2>5, FS_Subset
  <2>7. used_mem \in 0..total_size
    BY <2>3, <2>6, FS_CardinalityType
  <2> QED BY <2>1, <2>7 DEF B!BuddyTypeOK, TreeTrue
<1> QED BY <1>1, BuddyInvariant, BitmapFits, PTL DEF ManagersTypeOK

\* A block that mm_alloc of the buddy manager returns is aligned, long enough,
\* inside the heap, and shares no byte with one that is held; mm_free gives back
\* one block.
THEOREM BuddyImplementsAllocator == ManagersSpec => BuddyIsAllocator
PROOF
<1>1. ManagersInit => B!Blocks!AllocatorInit
  BY DEF ManagersInit, B!BuddyInit, B!Blocks!AllocatorInit, B!Nothing, B!Blocks!Nothing
<1>2. ASSUME BuddyInv, NEW p \in Pointers, NEW size \in Sizes, p \notin B!Held, B!MmAlloc(p, size)
      PROVE  B!Blocks!AllocatorNext
  <2>1. LayoutTrue
    BY <1>2, LayoutIs DEF BuddyInv
  <2>2. total_size' = total_size
    BY <1>2, BuddyAllocKeeps
  <2>3. PICK n \in B!Nodes :
          /\ buddy_held' = [buddy_held EXCEPT ![p] = Block(n)]
          /\ B!BlockSize(n) >= size
          /\ \A q \in B!Held : \E m \in B!Nodes : buddy_held[q] = Block(m) /\ BlocksApart(n, m)
    BY <1>2, BuddyAllocKeeps
  <2>4. \A m \in B!Nodes : B!Address(m) \in Nat /\ B!BlockSize(m) \in Nat \ {0}
    BY <2>1, Addresses, BlockSizes
  <2>5. B!Address(n) % BLOCK = 0 /\ B!Address(n) + B!BlockSize(n) <= total_size
    BY <2>1, Aligned, Addresses
  <2>6. buddy_held'[p] = Block(n) /\ buddy_held[p] = B!Nothing
    BY <1>2, <2>3 DEF BuddyInv, HeldUsed, B!Held
  <2>7. buddy_held'[p] # B!Nothing
    BY <2>4, <2>6 DEF Block, B!Nothing
  <2>8. ASSUME NEW q \in Pointers, buddy_held[q] # B!Nothing
        PROVE  B!Blocks!Disjoint(buddy_held'[p], buddy_held[q])
    <3>1. PICK m \in B!Nodes : buddy_held[q] = Block(m) /\ BlocksApart(n, m)
      BY <2>3, <2>8 DEF B!Held
    <3> QED BY <2>6, <3>1 DEF BlocksApart, Block, B!Blocks!Disjoint
  <2>9. /\ buddy_held'[p].at % BLOCK = 0 /\ buddy_held'[p].len >= size
        /\ buddy_held'[p].at + buddy_held'[p].len <= total_size
    BY <2>3, <2>5, <2>6 DEF Block
  <2>10. buddy_held' = [buddy_held EXCEPT ![p] = buddy_held'[p]]
    BY <2>3, <2>6
  <2>11. B!Blocks!Alloc(p, size)
    BY <2>6, <2>7, <2>8, <2>9, <2>10 DEF B!Blocks!Alloc, B!Blocks!Nothing, B!Nothing
  <2> QED BY <2>2, <2>11 DEF B!Blocks!AllocatorNext
<1>3. ASSUME BuddyInv, NEW at, B!MmFree(at)
      PROVE  B!Blocks!AllocatorNext
  <2>1. total_size' = total_size
    BY <1>3, BuddyFreeKeeps
  <2>2. PICK p \in B!Held : buddy_held' = [buddy_held EXCEPT ![p] = B!Nothing]
    BY <1>3, BuddyFreeKeeps
  <2>3. p \in Pointers /\ B!Blocks!Free(p)
    BY <2>2 DEF B!Held, B!Blocks!Free, B!Nothing, B!Blocks!Nothing
  <2> QED BY <2>1, <2>3 DEF B!Blocks!AllocatorNext
<1>4. BuddyInv /\ [ManagersNext]_managersvars
        => [B!Blocks!AllocatorNext]_<<total_size, buddy_held>>
  <2>. SUFFICES ASSUME BuddyInv, [ManagersNext]_managersvars,
                       ~UNCHANGED <<total_size, buddy_held>>
                PROVE  B!Blocks!AllocatorNext
    OBVIOUS
  <2>1. ~UNCHANGED B!buddyvars
    BY DEF B!buddyvars, B!layout
  <2>2. \/ \E p \in Pointers, size \in Sizes : p \notin B!Held /\ B!MmAlloc(p, size)
        \/ \E at : B!MmFree(at)
    BY <2>1, StepsOfBuddy DEF B!AllocCall, B!MmAllocNull, B!FreeCall, B!MmFreeNothing
  <2> QED BY <2>2, <1>2, <1>3
<1> QED BY <1>1, <1>4, BuddyInvariant, PTL
    DEF ManagersSpec, BuddyIsAllocator, B!BuddyIsAllocator, B!Blocks!AllocatorSpec

-----------------------------------------------------------------------------
(* The two managers are interchangeable.                                   *)

\* Whichever manager the kernel is linked with, what it records is what its callers
\* hold.
THEOREM AccountsAlwaysExact == ManagersSpec => []AccountsExact
PROOF BY BuddyUsedAlwaysExact, BitsAreExact, PTL DEF AccountsExact

\* Whichever manager the kernel is linked with, it implements Allocator.
THEOREM BothImplementAllocator == ManagersSpec => BothAreAllocators
PROOF BY BuddyImplementsAllocator, BitmapImplementsAllocator DEF BothAreAllocators

-----------------------------------------------------------------------------
(* The locks of the semaphores: contexts and what they are doing.          *)

\* Where a context can be in each call, and what it knows there.
Posting == {"open", "opening", "post", "posting", "posted", "waking", "close", "closing"}
AwayFrom == {"user", "exited", "halted"}
Places(call) ==
  CASE call = "none"   -> AwayFrom
    [] call = "create" -> {"open", "opening"}
    [] call = "wait"   -> {"open", "opening", "wait", "halt", "close", "closing"}
    [] call = "waited" -> {"close", "closing"}
    [] call = "kill"   -> Posting \cup {"remove"}
    [] OTHER           -> Posting \cup {"die"}
Fitting(f) ==
  /\ f.at \in Places(f.call)
  /\ f.call # "none" => f.pid \in Pids
  /\ f.at \notin AwayFrom \cup {"open"} => f.sem \in SemIds
  /\ f.call \in {"create", "kill", "exit"} => f.masked
  /\ f.call \in {"none", "return"} \/ f.at = "halt" => ~f.masked
  /\ f.call = "wait" /\ f.at \in {"open", "opening", "wait"} => f.masked

\* Only the context that has the CPU has interrupts masked.
Framed ==
  \A c \in Contexts : Fitting(ctx[c]) /\ (ctx[c].masked => c = Running)

\* The keyboard handler does nothing but kill.
IrqFramed ==
  ctx[Irq].call \in {"none", "kill"} /\ (ctx[Irq].call = "none" => ctx[Irq] = InUserCode)

FramesTrue == LockTypeOK /\ Framed /\ IrqFramed

LEMMA WhoRuns ==
  ASSUME FramesTrue
  PROVE  /\ Running \in Contexts /\ Me \in Frames /\ Fitting(Me)
         /\ Running = Irq => Me.call \in {"none", "kill"}
         /\ Running # Irq => Running = current /\ victims = {} /\ ctx[Irq] = InUserCode
         /\ Running = Irq => victims # {} \/ ctx[Irq] # InUserCode
         /\ Irq \notin Pids
PROOF
<1>1. Irq \in Contexts /\ current \in Contexts /\ current # Irq /\ Irq \notin Pids
  BY SemLockAssumption DEF Contexts, FramesTrue, LockTypeOK, Pids, Irq
<1>2. Running \in {Irq, current}
  BY DEF Running
<1>3. Me \in Frames /\ Fitting(Me)
  BY <1>1, <1>2 DEF Me, FramesTrue, LockTypeOK, Framed
<1> QED BY <1>1, <1>2, <1>3 DEF Running, Me, FramesTrue, IrqFramed

\* The running context goes on: the frames stay as they should be if its new one is.
LEMMA FrameStep ==
  ASSUME FramesTrue, NEW g \in Frames, Fitting(g), Goes(g),
         Running = Irq => g.call = "kill" \/ g = InUserCode,
         current' = current, victims' = victims
  PROVE  /\ ctx' \in [Contexts -> Frames] /\ Framed' /\ IrqFramed'
         /\ ctx'[Running] = g
         /\ \A c \in Contexts : c # Running => ctx'[c] = ctx[c]
         /\ g # InUserCode => Running' = Running
PROOF
<1>1. /\ Running \in Contexts /\ Irq \in Contexts /\ ctx \in [Contexts -> Frames]
      /\ ctx' = [ctx EXCEPT ![Running] = g]
  BY WhoRuns DEF FramesTrue, LockTypeOK, Goes, Contexts
<1>2. /\ ctx' \in [Contexts -> Frames] /\ ctx'[Running] = g
      /\ \A c \in Contexts : c # Running => ctx'[c] = ctx[c]
  BY <1>1
<1>3. g # InUserCode => Running' = Running
  <2>1. CASE Running = Irq
    BY <1>2, <2>1 DEF Running
  <2>2. CASE Running # Irq
    <3>1. Running = current /\ victims = {} /\ ctx[Irq] = InUserCode /\ ctx'[Irq] = ctx[Irq]
      BY <1>1, <1>2, <2>2, WhoRuns
    <3> QED BY <3>1 DEF Running
  <2> QED BY <2>1, <2>2
<1>4. Framed'
  <2> SUFFICES ASSUME NEW c \in Contexts
               PROVE  Fitting(ctx'[c]) /\ (ctx'[c].masked => c = Running')
    BY DEF Framed, Fitting
  <2>1. CASE c = Running
    BY <1>2, <1>3, <2>1 DEF InUserCode
  <2>2. CASE c # Running
    BY <1>2, <2>2 DEF FramesTrue, Framed
  <2> QED BY <2>1, <2>2
<1>5. IrqFramed'
  <2>1. CASE Running = Irq
    <3>1. ctx'[Irq] = g /\ (g.call = "kill" \/ g = InUserCode)
      BY <1>2, <2>1
    <3>2. g.call \in {"none", "kill"} /\ (g.call = "none" => g = InUserCode)
      BY <3>1 DEF InUserCode
    <3> QED BY <3>1, <3>2 DEF IrqFramed
  <2>2. CASE Running # Irq
    BY <1>1, <1>2, <2>2 DEF IrqFramed, FramesTrue
  <2> QED BY <2>1, <2>2
<1> QED BY <1>2, <1>3, <1>4, <1>5

LEMMA GoesResult ==
  ASSUME FramesTrue, NEW g, Goes(g)
  PROVE  ctx'[Running] = g /\ \A c \in Contexts : c # Running => ctx'[c] = ctx[c]
PROOF BY WhoRuns DEF Goes, FramesTrue, LockTypeOK

\* Unless it is back in user code, nobody else has the CPU then.
LEMMA GoesOn ==
  ASSUME FramesTrue, NEW g, Goes(g), g # InUserCode, current' = current, victims' = victims
  PROVE  Running' = Running
PROOF
<1>1. ctx'[Running] = g /\ \A c \in Contexts : c # Running => ctx'[c] = ctx[c]
  BY GoesResult
<1>2. CASE Running = Irq
  BY <1>1, <1>2 DEF Running
<1>3. CASE Running # Irq
  <2>1. Running = current /\ victims = {} /\ ctx[Irq] = InUserCode /\ ctx'[Irq] = ctx[Irq]
    BY <1>1, <1>3, WhoRuns DEF Contexts
  <2> QED BY <2>1 DEF Running
<1> QED BY <1>2, <1>3

-----------------------------------------------------------------------------
(* The table.                                                              *)

\* No two entries have one name, an entry without users has none, and names are
\* those of processes.
NamesTrue ==
  /\ \A i, j \in SemIds : sems[i].pid = sems[j].pid /\ sems[i].pid # 0 => i = j
  /\ \A i \in SemIds : (sems[i].pid = 0 <=> sems[i].users = 0) /\ sems[i].pid < next_pid

LEMMA LeastExists ==
  ASSUME NEW S \in SUBSET Nat, S # {}
  PROVE  Least(S) \in S
PROOF
<1>1. PICK x \in S : \A y \in S : ~(<<y, x>> \in OpToRel(<, Nat))
  BY NatLessThanWellFounded, WFMin
<1>2. \A y \in S : ~(y < x)
  BY <1>1 DEF OpToRel
<1>3. \A y \in S : x <= y
  BY <1>2
<1> QED BY <1>3 DEF Least

LEMMA OpenIdResult ==
  ASSUME LockTypeOK, NamesTrue, NEW p \in Pids, Named(p) # {} \/ SemIds \ Active # {}
  PROVE  /\ OpenId(p) \in SemIds
         /\ Named(p) # {} => sems[OpenId(p)].pid = p
         /\ Named(p) = {} => sems[OpenId(p)].pid = 0
PROOF
<1>1. SemIds \in SUBSET Nat
  BY SemLockAssumption DEF SemIds
<1>2. CASE Named(p) # {}
  <2>1. Named(p) \in SUBSET Nat
    BY <1>1 DEF Named
  <2>2. Least(Named(p)) \in Named(p)
    BY <1>2, <2>1, LeastExists
  <2> QED BY <1>2, <2>2 DEF OpenId, Named
<1>3. CASE Named(p) = {}
  <2>1. SemIds \ Active # {} /\ SemIds \ Active \in SUBSET Nat
    BY <1>1, <1>3
  <2>2. Least(SemIds \ Active) \in SemIds \ Active
    BY <2>1, LeastExists
  <2> QED BY <1>3, <2>2 DEF OpenId, Active
<1> QED BY <1>2, <1>3

LEMMA EntryType ==
  ASSUME LockTypeOK, NEW i \in SemIds
  PROVE  /\ sems[i] \in Entries
         /\ sems[i].pid \in Pids \cup {0} /\ sems[i].users \in Nat /\ sems[i].value \in Nat
         /\ sems[i].blocked \in Seq(Pids)
         /\ Queued(i) = Range(sems[i].blocked) /\ Queued(i) \in SUBSET Pids
PROOF
<1>1. /\ sems[i] \in Entries
      /\ sems[i].pid \in Pids \cup {0} /\ sems[i].users \in Nat /\ sems[i].value \in Nat
      /\ sems[i].blocked \in Seq(Pids)
  BY DEF LockTypeOK, Entries
<1>2. DOMAIN sems[i].blocked = 1..Len(sems[i].blocked)
  BY <1>1
<1>3. Queued(i) = Range(sems[i].blocked)
  BY <1>2 DEF Queued, Range
<1>4. Queued(i) \subseteq Pids
  BY <1>1 DEF Queued
<1> QED BY <1>1, <1>3, <1>4

LEMMA FrameType ==
  ASSUME NEW f \in Frames
  PROVE  /\ f.pid \in Pids \cup {0} /\ f.sem \in SemIds \cup {0} /\ f.seen \in Nat
         /\ f.masked \in BOOLEAN
PROOF BY DEF Frames

-----------------------------------------------------------------------------
(* The inductive invariant.                                                *)

\* What a context has loaded and not yet stored is still so: whoever it works for
\* has an entry or has none, the users are as many, the head of the queue is that.
OpenLoaded(f) ==
  /\ f.seen = sems[f.sem].users
  /\ f.seen = 0 => sems[f.sem].pid = 0 /\ Named(f.pid) = {}
  /\ f.seen # 0 => sems[f.sem].pid = f.pid
CloseLoaded(f) == f.seen = sems[f.sem].users
PostLoaded(f) ==
  f.seen = IF sems[f.sem].blocked = <<>> THEN 0 ELSE Head(sems[f.sem].blocked)
Loaded ==
  \A c \in Contexts :
    /\ ctx[c].at = "opening" => OpenLoaded(ctx[c])
    /\ ctx[c].at = "closing" => CloseLoaded(ctx[c])
    /\ ctx[c].at = "posted"  => PostLoaded(ctx[c])

PidsGiven ==
  /\ current < next_pid
  /\ \A p \in Pids : state[p] # "none" => p < next_pid
  /\ \A c \in Contexts : ctx[c].call # "none" => ctx[c].pid < next_pid

\* Children have a semaphore, from the end of their creation until somebody waits
\* for them.
ChildrenTrue ==
  /\ \A c \in Contexts : \A p \in children[c] : Named(p) # {}
  /\ \A c \in Contexts : ctx[c].call = "create" => Named(ctx[c].pid) = {}
  /\ \A c \in Contexts : ctx[c].call = "wait" /\ ctx[c].at \in {"open", "opening"} =>
       ctx[c].pid \in children[c]

SleepersHalt ==
  \A p \in Pids : state[p] = "BLOCKED" => ctx[p].call = "wait" /\ ctx[p].at = "halt"

LockInv ==
  /\ FramesTrue /\ NamesTrue /\ PidsGiven /\ ChildrenTrue
  /\ Loaded /\ OneInside /\ UsersCounted
  /\ SleepersHalt /\ SleepersQueued

-----------------------------------------------------------------------------
(* Each step leaves the frames and the types as they should be.            *)

States == {"none", "READY", "RUNNING", "BLOCKED", "KILLED"}

LEMMA FramesGo ==
  ASSUME FramesTrue, NEW g \in Frames, Fitting(g), Goes(g),
         Running = Irq => g.call = "kill" \/ g = InUserCode,
         current' = current, victims' = victims, locks' \subseteq Locks,
         sems' \in [SemIds -> Entries], state' \in [Pids -> States],
         children' \in [Contexts -> SUBSET Pids], next_pid' \in 3..(MaxPid + 1)
  PROVE  FramesTrue'
PROOF
<1>1. ctx' \in [Contexts -> Frames] /\ Framed' /\ IrqFramed'
  BY FrameStep
<1>2. current' \in Pids /\ victims' \subseteq Pids
  BY DEF FramesTrue, LockTypeOK
<1> QED BY <1>1, <1>2 DEF FramesTrue, LockTypeOK, States

\* What the types of everything are, for the steps that leave it.
LEMMA TypesKept ==
  ASSUME FramesTrue
  PROVE  /\ locks \subseteq Locks /\ sems \in [SemIds -> Entries] /\ state \in [Pids -> States]
         /\ children \in [Contexts -> SUBSET Pids] /\ next_pid \in 3..(MaxPid + 1)
         /\ current \in Pids
PROOF BY DEF FramesTrue, LockTypeOK, States

LEMMA InUserCodeFits ==
  InUserCode \in Frames /\ Fitting(InUserCode)
PROOF BY DEF InUserCode, Frames, Stops, Fitting, Places, AwayFrom

LEMMA NoEntryTrue ==
  /\ NoEntry \in Entries /\ NoEntry.pid = 0 /\ NoEntry.users = 0 /\ NoEntry.value = 0
  /\ NoEntry.blocked = <<>>
PROOF BY DEF NoEntry, Entries

LEMMA FreshTrue ==
  ASSUME NEW p \in Pids
  PROVE  /\ Fresh(p) \in Entries /\ Fresh(p).pid = p /\ Fresh(p).users = 1 /\ Fresh(p).value = 0
         /\ Fresh(p).blocked = <<>>
PROOF BY NoEntryTrue DEF Fresh, Entries

LEMMA AwakenedType ==
  ASSUME FramesTrue, NEW S
  PROVE  /\ Awakened(S) \in [Pids -> States]
         /\ \A p \in Pids : Awakened(S)[p] = "BLOCKED" => state[p] = "BLOCKED" /\ p \notin S
         /\ \A p \in Pids : Awakened(S)[p] = "none" => state[p] = "none"
PROOF
<1>1. \A p \in Pids : state[p] \in States
  BY TypesKept
<1> QED BY <1>1 DEF Awakened, States

LEMMA OpenLoadsFrames ==
  ASSUME FramesTrue, NamesTrue, OpenLoads
  PROVE  FramesTrue'
PROOF
<1> DEFINE i == OpenId(Me.pid)
           g == [Me EXCEPT !.at = "opening", !.sem = i, !.seen = sems[i].users]
<1>1. /\ Running \in Contexts /\ Me \in Frames /\ Fitting(Me) /\ Me.at = "open"
      /\ Running = Irq => Me.call \in {"none", "kill"}
  BY WhoRuns DEF OpenLoads, Runs
<1>2. Me.call # "none" /\ Me.pid \in Pids
  BY <1>1 DEF Fitting, Places, AwayFrom, Frames
<1>3. i \in SemIds /\ sems[i].users \in Nat
  BY <1>2, OpenIdResult, EntryType DEF FramesTrue, OpenLoads
<1> HIDE DEF i
<1>4. g \in Frames
  BY <1>1, <1>3 DEF Frames, Stops
<1>5. Fitting(g)
  BY <1>1, <1>2, <1>3 DEF Fitting, Places, AwayFrom, Posting, Frames
<1>6. Goes(g) /\ (Running = Irq => g.call = "kill") /\ UNCHANGED <<sems, state, children, current, victims, next_pid>>
      /\ locks' = locks \cup {Registry}
  BY <1>1, <1>2 DEF OpenLoads, i, Takes
<1> HIDE DEF g
<1>7. locks' \subseteq Locks
  BY <1>6, TypesKept DEF Locks
<1> QED BY <1>4, <1>5, <1>6, <1>7, FramesGo, TypesKept

\* What is known of a context that is on a semaphore.
LEMMA OnSemaphore ==
  ASSUME FramesTrue, Me.at \notin AwayFrom \cup {"open"}
  PROVE  /\ Me.sem \in SemIds /\ sems[Me.sem] \in Entries /\ Me.pid \in Pids
         /\ Me.sem \in Locks /\ Me.sem # Registry
PROOF
<1>1. Me \in Frames /\ Fitting(Me)
  BY WhoRuns
<1>2. Me.sem \in SemIds /\ Me.call # "none"
  BY <1>1 DEF Fitting, Places, AwayFrom
<1>3. Me.pid \in Pids
  BY <1>1, <1>2 DEF Fitting
<1>4. Registry \notin SemIds
  BY SemLockAssumption DEF Registry, SemIds
<1> QED BY <1>2, <1>3, <1>4, EntryType DEF FramesTrue, Locks

LEMMA OpenStoresFrames ==
  ASSUME FramesTrue, OpenStores
  PROVE  FramesTrue'
PROOF
<1> DEFINE i == Me.sem
           e == IF Me.seen = 0 THEN Fresh(Me.pid) ELSE [sems[i] EXCEPT !.users = Me.seen + 1]
           g == IF Me.call = "create" THEN InUserCode
                ELSE [Me EXCEPT !.at = IF Me.call = "wait" THEN "wait" ELSE "post"]
<1>1. /\ Running \in Contexts /\ Me \in Frames /\ Fitting(Me) /\ Me.at = "opening"
      /\ Running = Irq => Me.call \in {"none", "kill"}
  BY WhoRuns DEF OpenStores, Runs
<1>2. i \in SemIds /\ sems[i] \in Entries /\ Me.pid \in Pids /\ Me.seen \in Nat
  BY <1>1, OnSemaphore, FrameType DEF AwayFrom
<1>3. g \in Frames
  BY <1>1, InUserCodeFits DEF Frames, Stops
<1>4. Fitting(g)
  <2>1. CASE Me.call = "create"
    BY <2>1, InUserCodeFits
  <2>2. CASE Me.call = "wait"
    BY <1>1, <1>2, <2>2 DEF Fitting, Places, AwayFrom, Posting, Frames
  <2>3. CASE Me.call \notin {"wait", "create"}
    BY <1>1, <1>2, <2>3 DEF Fitting, Places, AwayFrom, Posting, Frames
  <2> QED BY <2>1, <2>2, <2>3
<1>5. Running = Irq => g.call = "kill" \/ g = InUserCode
  BY <1>1 DEF Fitting, Places, AwayFrom
<1>6. e \in Entries
  BY <1>2, FreshTrue DEF Entries
<1>7. /\ Goes(g) /\ UNCHANGED <<state, current, victims, next_pid>>
      /\ locks' \subseteq locks /\ sems' = [sems EXCEPT ![i] = e]
      /\ children' = [children EXCEPT ![Running] = children'[Running]]
      /\ children'[Running] \subseteq children[Running] \cup {Me.pid}
  BY <1>1, <1>2, TypesKept DEF OpenStores
<1> HIDE DEF e, g, i
<1>8. sems' \in [SemIds -> Entries] /\ locks' \subseteq Locks
  BY <1>2, <1>6, <1>7, TypesKept
<1>9. children' \in [Contexts -> SUBSET Pids]
  BY <1>1, <1>2, <1>7, TypesKept
<1> QED BY <1>3, <1>4, <1>5, <1>7, <1>8, <1>9, FramesGo, TypesKept

LEMMA CloseLoadsFrames ==
  ASSUME FramesTrue, CloseLoads
  PROVE  FramesTrue'
PROOF
<1> DEFINE g == [Me EXCEPT !.at = "closing", !.seen = sems[Me.sem].users]
<1>1. /\ Running \in Contexts /\ Me \in Frames /\ Fitting(Me) /\ Me.at = "close"
      /\ Running = Irq => Me.call \in {"none", "kill"}
  BY WhoRuns DEF CloseLoads, Runs
<1>2. Me.sem \in SemIds /\ sems[Me.sem].users \in Nat
  BY <1>1, OnSemaphore DEF AwayFrom, Entries
<1>3. g \in Frames
  BY <1>1, <1>2 DEF Frames, Stops
<1>4. Fitting(g)
  BY <1>1, <1>2 DEF Fitting, Places, AwayFrom, Posting, Frames
<1>5. Running = Irq => g.call = "kill"
  BY <1>1 DEF Fitting, Places, AwayFrom
<1>6. Goes(g) /\ UNCHANGED <<sems, state, children, current, victims, next_pid>>
      /\ locks' = locks \cup {Registry}
  BY DEF CloseLoads, Takes
<1> HIDE DEF g
<1>7. locks' \subseteq Locks
  BY <1>6, TypesKept DEF Locks
<1> QED BY <1>3, <1>4, <1>5, <1>6, <1>7, FramesGo, TypesKept

LEMMA CloseStoresFrames ==
  ASSUME FramesTrue, CloseStores
  PROVE  FramesTrue'
PROOF
<1> DEFINE i == Me.sem
           e == [sems[i] EXCEPT !.users = Me.seen - 1]
           g == AfterClose
<1>1. /\ Running \in Contexts /\ Me \in Frames /\ Fitting(Me) /\ Me.at = "closing"
      /\ Running = Irq => Me.call \in {"none", "kill"}
  BY WhoRuns DEF CloseStores, Runs
<1>2. i \in SemIds /\ sems[i] \in Entries /\ Me.pid \in Pids /\ Me.seen \in Nat
  BY <1>1, OnSemaphore, FrameType DEF AwayFrom
<1>3. Me.call \in {"wait", "waited", "kill", "exit", "return"}
  BY <1>1 DEF Fitting, Places, AwayFrom, Frames
<1>4. g \in Frames /\ Fitting(g)
  <2>1. CASE Me.call = "wait"
    <3>1. g = [Me EXCEPT !.call = "waited", !.at = "close", !.seen = 0]
      BY <2>1 DEF AfterClose
    <3> QED BY <1>1, <1>2, <2>1, <3>1 DEF Fitting, Places, AwayFrom, Posting, Frames, Stops
  <2>2. CASE Me.call = "waited"
    BY <2>2, InUserCodeFits DEF AfterClose
  <2>3. CASE Me.call = "kill"
    <3>1. g = [Me EXCEPT !.at = "remove", !.seen = 0]
      BY <2>3 DEF AfterClose
    <3> QED BY <1>1, <1>2, <2>3, <3>1 DEF Fitting, Places, AwayFrom, Posting, Frames, Stops
  <2>4. CASE Me.call \in {"exit", "return"}
    <3>1. g = [Me EXCEPT !.at = "die", !.seen = 0]
      BY <2>4 DEF AfterClose
    <3> QED BY <1>1, <1>2, <2>4, <3>1 DEF Fitting, Places, AwayFrom, Posting, Frames, Stops
  <2> QED BY <1>3, <2>1, <2>2, <2>3, <2>4
<1>5. Running = Irq => g.call = "kill"
  BY <1>1, <1>3 DEF AfterClose, Frames
<1>6. Me.seen \notin {0, 1} => e \in Entries
  BY <1>2 DEF Entries
<1>7. /\ Goes(g) /\ UNCHANGED <<children, current, victims, next_pid>>
      /\ locks' \subseteq locks
      /\ sems' = IF Me.seen = 0 THEN sems
                 ELSE IF Me.seen = 1 THEN [sems EXCEPT ![i] = NoEntry] ELSE [sems EXCEPT ![i] = e]
      /\ state' \in {Awakened(Queued(i)), state}
  BY DEF CloseStores
<1> HIDE DEF e, g, i
<1>8. sems' \in [SemIds -> Entries] /\ locks' \subseteq Locks
  BY <1>2, <1>6, <1>7, TypesKept, NoEntryTrue
<1>9. state' \in [Pids -> States]
  BY <1>7, AwakenedType, TypesKept
<1> QED BY <1>4, <1>5, <1>7, <1>8, <1>9, FramesGo, TypesKept

LEMMA HeadIsPid ==
  ASSUME NEW q \in Seq(Pids), q # <<>>
  PROVE  /\ Head(q) \in Pids /\ Head(q) \in Nat /\ Head(q) # 0
         /\ Tail(q) \in Seq(Pids)
         /\ \A x \in Range(q) : x = Head(q) \/ x \in Range(Tail(q))
PROOF
<1>1. Head(q) \in Pids /\ Tail(q) \in Seq(Pids) /\ Len(Tail(q)) = Len(q) - 1 /\ Head(q) = q[1]
  OBVIOUS
<1>2. /\ DOMAIN q = 1..Len(q) /\ DOMAIN Tail(q) = 1..(Len(q) - 1) /\ Len(q) \in Nat
      /\ \A k \in 1..(Len(q) - 1) : Tail(q)[k] = q[k + 1]
  OBVIOUS
<1>3. ASSUME NEW x \in Range(q), x # Head(q) PROVE x \in Range(Tail(q))
  <2>1. PICK k \in 1..Len(q) : q[k] = x /\ k # 1
    BY <1>1, <1>2, <1>3 DEF Range
  <2>2. k - 1 \in 1..(Len(q) - 1) /\ Tail(q)[k - 1] = x
    BY <1>2, <2>1
  <2> QED BY <1>2, <2>2 DEF Range
<1>4. Head(q) \in Nat /\ Head(q) # 0
  BY <1>1, SemLockAssumption DEF Pids
<1> QED BY <1>1, <1>3, <1>4

LEMMA AppendRange ==
  ASSUME NEW q \in Seq(Pids), NEW x \in Pids
  PROVE  Range(Append(q, x)) = Range(q) \cup {x}
PROOF
<1> DEFINE u == Append(q, x)
<1>1. /\ Len(q) \in Nat /\ DOMAIN q = 1..Len(q) /\ DOMAIN u = 1..(Len(q) + 1)
      /\ \A k \in 1..Len(q) : u[k] = q[k]
      /\ u[Len(q) + 1] = x
  OBVIOUS
<1> HIDE DEF u
<1>2. \A y : y \in Range(u) => y \in Range(q) \cup {x}
  BY <1>1 DEF Range
<1>3. \A y : y \in Range(q) \cup {x} => y \in Range(u)
  BY <1>1 DEF Range
<1> QED BY <1>2, <1>3 DEF u

LEMMA PostLooksFrames ==
  ASSUME FramesTrue, PostLooks
  PROVE  FramesTrue'
PROOF
<1> DEFINE g == [Me EXCEPT !.at = IF Me.sem \in Active THEN "posting" ELSE "close"]
<1>1. /\ Running \in Contexts /\ Me \in Frames /\ Fitting(Me) /\ Me.at = "post"
      /\ Running = Irq => Me.call \in {"none", "kill"}
  BY WhoRuns DEF PostLooks, Runs
<1>2. Me.sem \in SemIds
  BY <1>1, OnSemaphore DEF AwayFrom
<1>3. g \in Frames
  BY <1>1 DEF Frames, Stops
<1>4. Fitting(g)
  BY <1>1, <1>2 DEF Fitting, Places, AwayFrom, Posting, Frames
<1>5. Running = Irq => g.call = "kill"
  BY <1>1 DEF Fitting, Places, AwayFrom
<1>6. Goes(g) /\ UNCHANGED <<locks, sems, state, children, current, victims, next_pid>>
  BY DEF PostLooks
<1> HIDE DEF g
<1> QED BY <1>3, <1>4, <1>5, <1>6, FramesGo, TypesKept

LEMMA PostLoadsFrames ==
  ASSUME FramesTrue, PostLoads
  PROVE  FramesTrue'
PROOF
<1> DEFINE q == sems[Me.sem].blocked
           g == [Me EXCEPT !.at = "posted", !.seen = IF q = <<>> THEN 0 ELSE Head(q)]
<1>1. /\ Running \in Contexts /\ Me \in Frames /\ Fitting(Me) /\ Me.at = "posting"
      /\ Running = Irq => Me.call \in {"none", "kill"}
  BY WhoRuns DEF PostLoads, Runs
<1>2. Me.sem \in SemIds /\ q \in Seq(Pids) /\ Me.sem \in Locks
  BY <1>1, OnSemaphore DEF AwayFrom, Entries
<1>3. q # <<>> => Head(q) \in Nat
  BY <1>2, HeadIsPid
<1>4. g \in Frames
  BY <1>1, <1>3 DEF Frames, Stops
<1>5. Fitting(g)
  BY <1>1, <1>2 DEF Fitting, Places, AwayFrom, Posting, Frames
<1>6. Running = Irq => g.call = "kill"
  BY <1>1 DEF Fitting, Places, AwayFrom
<1>7. /\ Goes(g) /\ UNCHANGED <<sems, state, children, current, victims, next_pid>>
      /\ locks' = locks \cup {Me.sem}
  BY DEF PostLoads, Takes
<1> HIDE DEF g
<1>8. locks' \subseteq Locks
  BY <1>2, <1>7, TypesKept
<1> QED BY <1>4, <1>5, <1>6, <1>7, <1>8, FramesGo, TypesKept

\* What PostStores makes of the entry.
Posted(e, seen) == IF seen = 0 THEN [e EXCEPT !.value = @ + 1] ELSE [e EXCEPT !.blocked = Tail(@)]

LEMMA PostedEntry ==
  ASSUME FramesTrue, Runs("posted"), PostLoaded(Me)
  PROVE  /\ Posted(sems[Me.sem], Me.seen) \in Entries
         /\ Posted(sems[Me.sem], Me.seen).pid = sems[Me.sem].pid
         /\ Posted(sems[Me.sem], Me.seen).users = sems[Me.sem].users
         /\ Me.seen # 0 => Posted(sems[Me.sem], Me.seen).blocked = Tail(sems[Me.sem].blocked)
         /\ Me.seen # 0 => Posted(sems[Me.sem], Me.seen).value = sems[Me.sem].value
         /\ Me.seen # 0 => sems[Me.sem].blocked # <<>> /\ Me.seen = Head(sems[Me.sem].blocked)
         /\ Me.seen = 0 => sems[Me.sem].blocked = <<>>
PROOF
<1>1. Me.at = "posted" /\ Me.sem \in SemIds /\ sems[Me.sem] \in Entries
  BY OnSemaphore DEF AwayFrom, Runs
<1>2. sems[Me.sem].blocked \in Seq(Pids)
  BY <1>1 DEF Entries
<1>3. /\ Me.seen # 0 => sems[Me.sem].blocked # <<>> /\ Me.seen = Head(sems[Me.sem].blocked)
      /\ Me.seen = 0 => sems[Me.sem].blocked = <<>>
  <2>1. sems[Me.sem].blocked # <<>> => Head(sems[Me.sem].blocked) # 0
    BY <1>2, HeadIsPid
  <2> QED BY <2>1 DEF PostLoaded
<1>4. CASE Me.seen = 0
  BY <1>1, <1>3, <1>4 DEF Posted, Entries
<1>5. CASE Me.seen # 0
  <2>1. Tail(sems[Me.sem].blocked) \in Seq(Pids)
    BY <1>2, <1>3, <1>5
  <2> QED BY <1>1, <1>3, <1>5, <2>1 DEF Posted, Entries
<1> QED BY <1>4, <1>5

LEMMA PostStoresFrames ==
  ASSUME FramesTrue, PostStores, PostLoaded(Me)
  PROVE  FramesTrue'
PROOF
<1> DEFINE e == Posted(sems[Me.sem], Me.seen)
           g == [Me EXCEPT !.at = IF Me.seen = 0 THEN "close" ELSE "waking"]
<1>1. /\ Running \in Contexts /\ Me \in Frames /\ Fitting(Me) /\ Me.at = "posted"
      /\ Running = Irq => Me.call \in {"none", "kill"}
  BY WhoRuns DEF PostStores, Runs
<1>2. Me.sem \in SemIds
  BY <1>1, OnSemaphore DEF AwayFrom
<1>3. e \in Entries
  BY PostedEntry DEF PostStores
<1>4. g \in Frames
  BY <1>1 DEF Frames, Stops
<1>5. Fitting(g)
  BY <1>1, <1>2 DEF Fitting, Places, AwayFrom, Posting, Frames
<1>6. Running = Irq => g.call = "kill"
  BY <1>1 DEF Fitting, Places, AwayFrom
<1>7. /\ Goes(g) /\ UNCHANGED <<state, children, current, victims, next_pid>>
      /\ locks' \subseteq locks
  BY DEF PostStores
<1>8. sems' = [sems EXCEPT ![Me.sem] = e]
  BY <1>2, TypesKept DEF PostStores, Posted
<1> HIDE DEF g, e
<1>9. sems' \in [SemIds -> Entries] /\ locks' \subseteq Locks
  BY <1>2, <1>3, <1>7, <1>8, TypesKept
<1> QED BY <1>4, <1>5, <1>6, <1>7, <1>9, FramesGo, TypesKept

LEMMA PostWakesFrames ==
  ASSUME FramesTrue, PostWakes
  PROVE  FramesTrue'
PROOF
<1> DEFINE g == [Me EXCEPT !.at = "close"]
<1>1. /\ Running \in Contexts /\ Me \in Frames /\ Fitting(Me) /\ Me.at = "waking"
      /\ Running = Irq => Me.call \in {"none", "kill"}
  BY WhoRuns DEF PostWakes, Runs
<1>2. Me.sem \in SemIds
  BY <1>1, OnSemaphore DEF AwayFrom
<1>3. g \in Frames
  BY <1>1 DEF Frames, Stops
<1>4. Fitting(g)
  BY <1>1, <1>2 DEF Fitting, Places, AwayFrom, Posting, Frames
<1>5. Running = Irq => g.call = "kill"
  BY <1>1 DEF Fitting, Places, AwayFrom
<1>6. /\ Goes(g) /\ UNCHANGED <<locks, sems, children, current, victims, next_pid>>
      /\ state' = Awakened({Me.seen})
  BY DEF PostWakes
<1> HIDE DEF g
<1>7. state' \in [Pids -> States]
  BY <1>6, AwakenedType
<1> QED BY <1>3, <1>4, <1>5, <1>6, <1>7, FramesGo, TypesKept

\* sem_wait leaves the entry its name and its users.
LEMMA WaitedEntry ==
  ASSUME FramesTrue, NEW e \in Entries
  PROVE  /\ Waited(e) \in Entries /\ Waited(e).pid = e.pid /\ Waited(e).users = e.users
         /\ e.value = 0 => Waited(e).blocked = Append(e.blocked, current) /\ Waited(e).value = 0
         /\ e.value # 0 => Waited(e).blocked = e.blocked
PROOF
<1>1. current \in Pids /\ e.blocked \in Seq(Pids) /\ e.value \in Nat
  BY TypesKept DEF Entries
<1>2. CASE e.value = 0
  <2>1. Append(e.blocked, current) \in Seq(Pids)
    BY <1>1
  <2> QED BY <1>2, <2>1 DEF Waited, Entries
<1>3. CASE e.value # 0
  <2>1. e.value - 1 \in Nat
    BY <1>1, <1>3
  <2> QED BY <1>3, <2>1 DEF Waited, Entries
<1> QED BY <1>2, <1>3

LEMMA WaitsFrames ==
  ASSUME FramesTrue, Waits
  PROVE  FramesTrue'
PROOF
<1> DEFINE e == Waited(sems[Me.sem])
           g == ctx'[Running]
<1>1. /\ Running \in Contexts /\ Me \in Frames /\ Fitting(Me) /\ Me.at = "wait"
      /\ Running = Irq => Me.call \in {"none", "kill"}
  BY WhoRuns DEF Waits, Runs
<1>2. Me.sem \in SemIds /\ sems[Me.sem] \in Entries
  BY <1>1, OnSemaphore DEF AwayFrom
<1>3. Me.call = "wait" /\ Running # Irq
  BY <1>1 DEF Fitting, Places, AwayFrom, Posting, Frames
<1>4. e \in Entries
  BY <1>2, WaitedEntry
<1>5. g = [Me EXCEPT !.at = "halt", !.masked = FALSE] \/ g = [Me EXCEPT !.at = "close"]
  BY <1>1, TypesKept DEF Waits, Goes, FramesTrue, LockTypeOK
<1>6. g \in Frames
  BY <1>1, <1>5 DEF Frames, Stops
<1>7. Fitting(g)
  BY <1>1, <1>2, <1>3, <1>5 DEF Fitting, Places, AwayFrom, Posting, Frames
<1>8. /\ UNCHANGED <<locks, children, current, victims, next_pid>>
      /\ sems' = [sems EXCEPT ![Me.sem] = e]
      /\ state' = state \/ state' = [state EXCEPT ![current] = "BLOCKED"]
  BY DEF Waits
<1>9. Goes(g)
  BY <1>1 DEF Waits, Goes, FramesTrue, LockTypeOK
<1> HIDE DEF g, e
<1>10. sems' \in [SemIds -> Entries]
  BY <1>2, <1>4, <1>8, TypesKept
<1>11. state' \in [Pids -> States]
  BY <1>8, TypesKept DEF States
<1> QED BY <1>3, <1>6, <1>7, <1>8, <1>9, <1>10, <1>11, FramesGo, TypesKept

LEMMA HaltEndsFrames ==
  ASSUME FramesTrue, HaltEnds
  PROVE  FramesTrue'
PROOF
<1> DEFINE g == [Me EXCEPT !.at = "close"]
<1>1. /\ Running \in Contexts /\ Me \in Frames /\ Fitting(Me) /\ Me.at = "halt"
      /\ Running = Irq => Me.call \in {"none", "kill"}
  BY WhoRuns DEF HaltEnds, Runs
<1>2. Me.sem \in SemIds
  BY <1>1, OnSemaphore DEF AwayFrom
<1>3. g \in Frames
  BY <1>1 DEF Frames, Stops
<1>4. Fitting(g) /\ Running # Irq
  BY <1>1, <1>2 DEF Fitting, Places, AwayFrom, Posting, Frames
<1>5. Goes(g) /\ UNCHANGED <<locks, sems, state, children, current, victims, next_pid>>
  BY DEF HaltEnds
<1> HIDE DEF g
<1> QED BY <1>3, <1>4, <1>5, FramesGo, TypesKept

\* sem_remove_pid leaves the entry its name, its users and its tokens.
Cleaned(e, p) == [e EXCEPT !.blocked = Compacted(@, p)]

LEMMA CleanedEntry ==
  ASSUME NEW e \in Entries, NEW p
  PROVE  /\ Cleaned(e, p) \in Entries /\ Cleaned(e, p).pid = e.pid /\ Cleaned(e, p).users = e.users
         /\ Cleaned(e, p).value = e.value /\ Range(Cleaned(e, p).blocked) = Range(e.blocked) \ {p}
PROOF
<1>1. e.blocked \in Seq(Pids)
  BY DEF Entries
<1>2. Compacted(e.blocked, p) \in Seq(Pids) /\ Range(Compacted(e.blocked, p)) = Range(e.blocked) \ {p}
  BY <1>1, CompactedResult
<1> QED BY <1>2 DEF Cleaned, Entries

LEMMA RemoveFrames ==
  ASSUME FramesTrue, NEW i \in SemIds, RemoveFrom(i)
  PROVE  FramesTrue'
PROOF
<1> DEFINE e == Cleaned(sems[i], Me.pid)
           g == [Me EXCEPT !.seen = i]
<1>1. /\ Running \in Contexts /\ Me \in Frames /\ Fitting(Me) /\ Me.at = "remove"
      /\ Running = Irq => Me.call \in {"none", "kill"}
  BY WhoRuns DEF RemoveFrom, Runs
<1>2. e \in Entries
  BY EntryType, CleanedEntry DEF FramesTrue
<1>3. i \in Nat
  BY SemLockAssumption DEF SemIds
<1>4. g \in Frames /\ Fitting(g)
  BY <1>1, <1>3 DEF Frames, Stops, Fitting, Places, AwayFrom, Posting
<1>5. Running = Irq => g.call = "kill"
  BY <1>1 DEF Fitting, Places, AwayFrom
<1>6. /\ Goes(g) /\ UNCHANGED <<locks, state, children, current, victims, next_pid>>
      /\ sems' = [sems EXCEPT ![i] = e]
  BY DEF RemoveFrom, Cleaned
<1> HIDE DEF g, e
<1>7. sems' \in [SemIds -> Entries]
  BY <1>2, <1>6, TypesKept
<1> QED BY <1>4, <1>5, <1>6, <1>7, FramesGo, TypesKept

LEMMA BuriesFrames ==
  ASSUME FramesTrue, Buries
  PROVE  FramesTrue'
PROOF
<1>1. state' \in [Pids -> States]
  BY TypesKept DEF Buries, States
<1> QED BY <1>1, InUserCodeFits, FramesGo, TypesKept DEF Buries

LEMMA DiesFrames ==
  ASSUME FramesTrue, Dies
  PROVE  FramesTrue'
PROOF
<1> DEFINE g == [InUserCode EXCEPT !.at = IF Me.call = "exit" THEN "exited" ELSE "halted"]
<1>1. state' \in [Pids -> States]
  BY TypesKept DEF Dies, States
<1>2. g \in Frames /\ Fitting(g)
  BY InUserCodeFits DEF InUserCode, Frames, Stops, Fitting, Places, AwayFrom
<1>3. Fitting(Me) /\ Me.at = "die" /\ (Running = Irq => Me.call \in {"none", "kill"})
  BY WhoRuns DEF Dies, Runs
<1>4. Running # Irq
  BY <1>3 DEF Fitting, Places, AwayFrom, Posting
<1>5. Goes(g) /\ UNCHANGED <<locks, sems, children, current, victims, next_pid>>
  BY DEF Dies
<1> HIDE DEF g
<1> QED BY <1>1, <1>2, <1>4, <1>5, FramesGo, TypesKept

LEMMA StartsFits ==
  ASSUME NEW call \in {"create", "wait", "kill", "exit", "return"}, NEW p \in Pids
  PROVE  LET g == Starts(call, p, call # "return") IN
         /\ g \in Frames /\ Fitting(g) /\ g.call = call /\ g.at = "open" /\ g.pid = p /\ g.seen = 0
         /\ g.masked = (call # "return") /\ g # InUserCode
PROOF
<1> DEFINE g == Starts(call, p, call # "return")
<1>1. g \in Frames
  BY DEF Starts, InUserCode, Frames, Stops
<1>2. /\ g.call = call /\ g.at = "open" /\ g.pid = p /\ g.seen = 0
      /\ g.masked = (call # "return")
  BY DEF Starts, InUserCode
<1>3. g # InUserCode
  BY <1>2 DEF InUserCode
<1> HIDE DEF g
<1>4. Fitting(g)
  BY <1>2 DEF Fitting, Places, AwayFrom, Posting
<1> QED BY <1>1, <1>2, <1>3, <1>4 DEF g

LEMMA CallsFrames ==
  ASSUME FramesTrue, NEW call \in {"create", "wait", "kill", "exit"}, NEW p \in Pids, Calls(call, p),
         state' \in [Pids -> States], next_pid' \in 3..(MaxPid + 1)
  PROVE  FramesTrue'
PROOF
<1> DEFINE g == Starts(call, p, call # "return")
<1>1. g \in Frames /\ Fitting(g)
  BY StartsFits
<1>2. Running # Irq
  BY WhoRuns, TypesKept DEF Calls
<1>3. Goes(g) /\ UNCHANGED <<locks, sems, children, current, victims>>
  BY DEF Calls
<1> HIDE DEF g
<1> QED BY <1>1, <1>2, <1>3, FramesGo, TypesKept

LEMMA CreateFrames ==
  ASSUME FramesTrue, Create
  PROVE  FramesTrue' /\ next_pid \in Pids
PROOF
<1>1. next_pid \in Pids /\ next_pid' \in 3..(MaxPid + 1)
  BY TypesKept, SemLockAssumption DEF Create, Pids
<1>2. state' \in [Pids -> States]
  BY TypesKept DEF Create, States
<1>3. Calls("create", next_pid)
  BY DEF Create
<1> QED BY <1>1, <1>2, <1>3, CallsFrames

LEMMA ReturnsFrames ==
  ASSUME FramesTrue, Returns
  PROVE  FramesTrue'
PROOF
<1> DEFINE g == Starts("return", current, "return" # "return")
<1>1. g \in Frames /\ Fitting(g)
  BY StartsFits, TypesKept
<1>2. Running # Irq
  BY WhoRuns, TypesKept DEF Returns
<1>3. Goes(g) /\ UNCHANGED <<locks, sems, state, children, current, victims, next_pid>>
  BY DEF Returns
<1> HIDE DEF g
<1> QED BY <1>1, <1>2, <1>3, FramesGo, TypesKept

\* While the process that has the CPU can be interrupted, nobody has interrupts
\* masked.
LEMMA NobodyMasked ==
  ASSUME FramesTrue, ~Me.masked
  PROVE  \A c \in Contexts : ~ctx[c].masked
PROOF BY DEF FramesTrue, Framed, Me

LEMMA FramesStay ==
  ASSUME FramesTrue, ~Me.masked, ctx' = ctx
  PROVE  ctx' \in [Contexts -> Frames] /\ Framed' /\ IrqFramed'
PROOF
<1>1. \A c \in Contexts : ~ctx'[c].masked
  BY NobodyMasked
<1>2. \A c \in Contexts : Fitting(ctx'[c])
  BY DEF FramesTrue, Framed
<1>3. Framed'
  BY <1>1, <1>2 DEF Framed, Fitting
<1> QED BY <1>3 DEF IrqFramed, FramesTrue, LockTypeOK

LEMMA TickFrames ==
  ASSUME FramesTrue, NEW p \in Pids, Tick(p)
  PROVE  FramesTrue'
PROOF
<1>1. ctx' \in [Contexts -> Frames] /\ Framed' /\ IrqFramed'
  BY FramesStay DEF Tick
<1>2. \A q \in Pids : state[q] \in States
  BY TypesKept
<1>3. state' \in [Pids -> States]
  BY <1>2 DEF Tick, States
<1>4. UNCHANGED <<locks, sems, children, victims, next_pid>> /\ current' \in Pids
  BY DEF Tick
<1> QED BY <1>1, <1>3, <1>4 DEF FramesTrue, LockTypeOK, States

LEMMA CtrlCFrames ==
  ASSUME FramesTrue, CtrlC
  PROVE  FramesTrue'
PROOF
<1>1. ctx' \in [Contexts -> Frames] /\ Framed' /\ IrqFramed'
  BY FramesStay DEF CtrlC
<1>2. UNCHANGED <<locks, sems, children, state, current, next_pid>>
  BY DEF CtrlC
<1>3. Foreground \subseteq Pids
  BY SemLockAssumption DEF Pids
<1>4. victims' \subseteq Pids
  BY <1>3 DEF CtrlC
<1> QED BY <1>1, <1>2, <1>4 DEF FramesTrue, LockTypeOK

LEMMA NextVictimFrames ==
  ASSUME FramesTrue, NEW p \in Pids, NextVictim(p)
  PROVE  FramesTrue'
PROOF
<1>1. Running = Irq /\ Irq \in Contexts /\ ctx[Irq] = InUserCode /\ ~Me.masked
  BY WhoRuns DEF NextVictim, Me, InUserCode
<1>2. UNCHANGED <<locks, sems, children, state, current, next_pid>> /\ victims' \subseteq Pids
  BY DEF NextVictim, FramesTrue, LockTypeOK
<1>3. ctx' \in [Contexts -> Frames] /\ Framed' /\ IrqFramed'
  <2>1. CASE Killable(p)
    <3> DEFINE g == Starts("kill", p, "kill" # "return")
    <3>1. g \in Frames /\ Fitting(g) /\ g.call = "kill" /\ g # InUserCode
      BY StartsFits
    <3>2. ctx' = [ctx EXCEPT ![Irq] = g]
      BY <1>1, <2>1 DEF NextVictim, Goes
    <3> HIDE DEF g
    <3>3. ctx' \in [Contexts -> Frames] /\ ctx'[Irq] = g /\ \A c \in Contexts : c # Irq => ctx'[c] = ctx[c]
      BY <1>1, <3>1, <3>2, WhoRuns DEF FramesTrue, LockTypeOK
    <3>4. Running' = Irq
      BY <3>1, <3>3 DEF Running
    <3>5. \A c \in Contexts : c # Irq => ~ctx'[c].masked /\ Fitting(ctx'[c])
      BY <1>1, <3>3, NobodyMasked DEF FramesTrue, Framed
    <3>6. \A c \in Contexts : Fitting(ctx'[c]) /\ (ctx'[c].masked => c = Running')
      BY <3>1, <3>3, <3>4, <3>5
    <3>7. Framed'
      BY <3>6 DEF Framed, Fitting
    <3> QED BY <3>1, <3>3, <3>7 DEF IrqFramed
  <2>2. CASE ~Killable(p)
    BY <1>1, <2>2, FramesStay DEF NextVictim
  <2> QED BY <2>1, <2>2
<1> QED BY <1>2, <1>3 DEF FramesTrue, LockTypeOK

-----------------------------------------------------------------------------
(* The references to a semaphore.                                          *)

BetweenStops == {"post", "posting", "posted", "waking", "wait", "halt", "close", "closing"}
Opened(f, i) == Between(f, i) /\ f.call # "waited"
WaitsOn(f, i) == Between(f, i) /\ f.call \in {"wait", "waited"}

LEMMA ReferencesAre ==
  ASSUME NEW i \in SemIds
  PROVE  /\ \A c \in Contexts : <<c, "opened">> \in References(i) <=> Opened(ctx[c], i)
         /\ \A c \in Contexts : <<c, "waits">> \in References(i) <=> WaitsOn(ctx[c], i)
         /\ \A c \in Contexts : <<c, "parent">> \in References(i) <=> sems[i].pid \in children[c]
         /\ References(i) \subseteq Contexts \X {"opened", "waits", "parent"}
PROOF BY DEF References, Opened, WaitsOn

LEMMA ReferencesFinite ==
  ASSUME NEW i \in SemIds
  PROVE  IsFiniteSet(References(i))
PROOF
<1>1. IsFiniteSet(Contexts)
  <2>1. IsFiniteSet(Pids)
    BY FS_Interval, SemLockAssumption DEF Pids
  <2>2. IsFiniteSet({Irq})
    BY FS_Singleton
  <2> QED BY <2>1, <2>2, FS_Union DEF Contexts
<1>2. IsFiniteSet({"opened", "waits", "parent"})
  <2>1. IsFiniteSet({"opened"}) /\ IsFiniteSet({"waits"}) /\ IsFiniteSet({"parent"})
    BY FS_Singleton
  <2>2. IsFiniteSet({"opened"} \cup {"waits"})
    BY <2>1, FS_Union
  <2>3. IsFiniteSet(({"opened"} \cup {"waits"}) \cup {"parent"})
    BY <2>1, <2>2, FS_Union
  <2>4. {"opened", "waits", "parent"} = ({"opened"} \cup {"waits"}) \cup {"parent"}
    OBVIOUS
  <2> QED BY <2>3, <2>4
<1>3. IsFiniteSet(Contexts \X {"opened", "waits", "parent"})
  BY <1>1, <1>2, FS_Product
<1> QED BY <1>3, FS_Subset, ReferencesAre

\* An entry has no users if nobody refers to it, and a single user is a single
\* reference.
LEMMA FewUsers ==
  ASSUME UsersCounted, NEW i \in SemIds
  PROVE  /\ sems[i].users = 0 <=> References(i) = {}
         /\ \A r \in References(i) : sems[i].users = 1 => References(i) = {r}
PROOF
<1>1. sems[i].users = Cardinality(References(i)) /\ IsFiniteSet(References(i))
  BY ReferencesFinite DEF UsersCounted
<1>2. sems[i].users = 0 <=> References(i) = {}
  BY <1>1, FS_EmptySet
<1>3. ASSUME NEW r \in References(i), sems[i].users = 1 PROVE References(i) = {r}
  <2>1. PICK x : References(i) = {x}
    BY <1>1, <1>3, FS_Singleton
  <2> QED BY <2>1
<1> QED BY <1>2, <1>3

\* A frame that is as much between sem_open and sem_close as another, on the same
\* semaphore and in the same call.
SameHold(f, g) ==
  /\ f.at \in BetweenStops <=> g.at \in BetweenStops
  /\ f.at \in BetweenStops => f.sem = g.sem /\ f.call = g.call

LEMMA CountsKept ==
  ASSUME UsersCounted, children' = children,
         \A i \in SemIds : sems'[i].pid = sems[i].pid /\ sems'[i].users = sems[i].users,
         \A c \in Contexts : SameHold(ctx[c], ctx'[c])
  PROVE  UsersCounted'
PROOF
<1> SUFFICES ASSUME NEW i \in SemIds PROVE sems'[i].users = Cardinality(References(i)')
  BY DEF UsersCounted
<1>1. \A c \in Contexts : Between(ctx'[c], i) <=> Between(ctx[c], i)
  BY DEF SameHold, Between, BetweenStops
<1>2. \A c \in Contexts : Between(ctx[c], i) => ctx'[c].call = ctx[c].call
  BY DEF SameHold, Between, BetweenStops
<1>3. References(i)' = References(i)
  BY <1>1, <1>2 DEF References
<1> QED BY <1>3 DEF UsersCounted

LEMMA NamesKept ==
  ASSUME NamesTrue, FramesTrue, next_pid' \in Nat, next_pid' >= next_pid,
         \A i \in SemIds : sems'[i].pid = sems[i].pid /\ sems'[i].users = sems[i].users
  PROVE  NamesTrue' /\ \A p : Named(p)' = Named(p)
PROOF
<1>1. \A i \in SemIds : sems[i].pid \in Nat
  BY EntryType, SemLockAssumption DEF FramesTrue, Pids
<1>2. next_pid \in Nat
  BY TypesKept, SemLockAssumption
<1>3. \A i \in SemIds : sems'[i].pid < next_pid'
  BY <1>1, <1>2 DEF NamesTrue
<1> QED BY <1>3 DEF NamesTrue, Named

\* Nobody has a child that has no semaphore.
LEMMA NotAChild ==
  ASSUME ChildrenTrue, NEW p, Named(p) = {}
  PROVE  \A c \in Contexts : p \notin children[c]
PROOF BY DEF ChildrenTrue

-----------------------------------------------------------------------------
(* The locks a frame is behind.                                            *)

Inside(f, l) == (l = Registry /\ f.at \in {"opening", "closing"}) \/ (l = f.sem /\ f.at = "posted")

LEMMA HoldsInside ==
  \A c, l : (Holds(c, l) <=> Inside(ctx[c], l)) /\ (Holds(c, l)' <=> Inside(ctx'[c], l))
PROOF BY DEF Holds, Inside

\* The context that has the CPU takes the locks its new frame is behind and gives
\* back those only its old one was.
LEMMA LocksKept ==
  ASSUME FramesTrue, OneInside, NEW g,
         ctx'[Running] = g, \A c \in Contexts : c # Running => ctx'[c] = ctx[c],
         \A l \in Locks : Inside(g, l) => Running' = Running,
         \A l \in Locks : Inside(g, l) => l \in locks' /\ (l \notin locks \/ Inside(Me, l)),
         \A l \in Locks : ~Inside(g, l) => (l \in locks' <=> l \in locks /\ ~Inside(Me, l))
  PROVE  OneInside'
PROOF
<1>1. Running \in Contexts /\ Me = ctx[Running]
  BY WhoRuns DEF Me
<1> SUFFICES ASSUME NEW l \in Locks
             PROVE  /\ l \in locks' <=> \E c \in Contexts : Inside(ctx'[c], l)
                    /\ \A c, d \in Contexts : Inside(ctx'[c], l) /\ Inside(ctx'[d], l) => c = d
                    /\ \A c \in Contexts : Inside(ctx'[c], l) /\ c # Running' =>
                         ctx'[c].call \in {"return", "wait", "waited"} /\ ~ctx'[c].masked
  BY HoldsInside DEF OneInside
<1>2. /\ l \in locks <=> \E c \in Contexts : Inside(ctx[c], l)
      /\ \A c, d \in Contexts : Inside(ctx[c], l) /\ Inside(ctx[d], l) => c = d
      /\ \A c \in Contexts : Inside(ctx[c], l) /\ c # Running =>
           ctx[c].call \in {"return", "wait", "waited"} /\ ~ctx[c].masked
  BY HoldsInside DEF OneInside
<1>3. CASE Inside(g, l)
  <2>1. l \in locks' /\ Running' = Running /\ (l \notin locks \/ Inside(Me, l))
    BY <1>3
  <2>2. \A c \in Contexts : c # Running => ~Inside(ctx[c], l)
    BY <1>1, <1>2, <2>1
  <2> QED BY <1>1, <1>3, <2>1, <2>2
<1>4. CASE ~Inside(g, l)
  <2>1. l \in locks' <=> l \in locks /\ ~Inside(Me, l)
    BY <1>4
  <2>2. \A c \in Contexts : Inside(ctx'[c], l) <=> c # Running /\ Inside(ctx[c], l)
    BY <1>1, <1>4
  <2>3. \A c \in Contexts : c # Running => ctx'[c] = ctx[c]
    OBVIOUS
  <2>4. l \in locks' <=> \E c \in Contexts : Inside(ctx'[c], l)
    BY <1>1, <1>2, <2>1, <2>2
  <2> QED BY <1>2, <2>2, <2>3, <2>4
<1> QED BY <1>3, <1>4

\* Nobody but the one who creates a process, or begins to wait for one, is where
\* ChildrenTrue says something of what it has begun.
LEMMA ChildrenKept ==
  ASSUME ChildrenTrue, FramesTrue, children' = children, NEW g,
         \A i \in SemIds : sems'[i].pid = sems[i].pid,
         ctx'[Running] = g, \A c \in Contexts : c # Running => ctx'[c] = ctx[c],
         g.call = "create" => Named(g.pid) = {},
         g.call = "wait" /\ g.at \in {"open", "opening"} => g.pid \in children[Running]
  PROVE  ChildrenTrue'
PROOF
<1>1. \A c \in Contexts : \A p \in children'[c] : Named(p)' # {}
  BY DEF ChildrenTrue, Named
<1>2. \A c \in Contexts : ctx'[c].call = "create" => Named(ctx'[c].pid) = {}
  BY DEF ChildrenTrue
<1>3. \A c \in Contexts : Named(ctx[c].pid)' = Named(ctx'[c].pid)
  BY DEF Named
<1>4. \A c \in Contexts : ctx'[c].call = "wait" /\ ctx'[c].at \in {"open", "opening"} =>
        ctx'[c].pid \in children'[c]
  BY DEF ChildrenTrue
<1> QED BY <1>1, <1>2, <1>3, <1>4 DEF ChildrenTrue

\* Sleepers stay at their halt: the context that goes on is not one of them.
LEMMA HaltKept ==
  ASSUME SleepersHalt, FramesTrue, \A c \in Contexts : c # Running => ctx'[c] = ctx[c],
         \A p \in Pids : state'[p] = "BLOCKED" => state[p] = "BLOCKED",
         \A p \in Pids : p = Running /\ Me.at = "halt" => state[p] # "BLOCKED"
  PROVE  /\ SleepersHalt'
         /\ \A p \in Pids : state'[p] = "BLOCKED" => p \in Contexts /\ p # Running /\ ctx'[p] = ctx[p]
PROOF
<1>1. \A p \in Pids : state'[p] = "BLOCKED" => p \in Contexts /\ p # Running
  BY DEF SleepersHalt, Me, Contexts
<1> QED BY <1>1 DEF SleepersHalt

PidsGivenStill(g) ==
  /\ current' < next_pid'
  /\ \A p \in Pids : state'[p] # "none" => p < next_pid'
  /\ g.call # "none" => g.pid < next_pid'

LEMMA PidsKept ==
  ASSUME PidsGiven, FramesTrue, NEW g, PidsGivenStill(g), next_pid' \in Nat, next_pid' >= next_pid,
         ctx'[Running] = g, \A c \in Contexts : c # Running => ctx'[c] = ctx[c]
  PROVE  PidsGiven'
PROOF
<1>1. \A c \in Contexts : ctx[c].pid \in Nat
  BY SemLockAssumption DEF FramesTrue, LockTypeOK, Frames, Pids
<1>2. next_pid \in Nat
  BY TypesKept, SemLockAssumption
<1>3. \A c \in Contexts : ctx'[c].call # "none" => ctx'[c].pid < next_pid'
  BY <1>1, <1>2 DEF PidsGiven, PidsGivenStill
<1> QED BY <1>3 DEF PidsGiven, PidsGivenStill

\* A step outside the sections: no lock and no entry changes.
QuietStops == Stops \ {"opening", "closing", "posted"}
LEMMA QuietStep ==
  ASSUME LockInv, FramesTrue', NEW g,
         ctx'[Running] = g, \A c \in Contexts : c # Running => ctx'[c] = ctx[c],
         UNCHANGED <<locks, sems, children>>, next_pid' \in Nat, next_pid' >= next_pid,
         Me.at \in QuietStops, g.at \in QuietStops, SameHold(Me, g), PidsGivenStill(g),
         g.call = "create" => Named(g.pid) = {},
         g.call = "wait" /\ g.at = "open" => g.pid \in children[Running],
         \A p \in Pids : state'[p] = "BLOCKED" => state[p] = "BLOCKED",
         \A p \in Pids : p = Running /\ Me.at = "halt" => state[p] # "BLOCKED",
         \A p \in Pids : Me.at = "waking" /\ Me.seen = p => state'[p] # "BLOCKED",
         \A p \in Pids : Me.at = "remove" /\ Me.pid = p => state'[p] # "BLOCKED"
  PROVE  LockInv'
PROOF
<1>1. Running \in Contexts /\ Me = ctx[Running] /\ FramesTrue
  BY WhoRuns DEF Me, LockInv
<1>2. NamesTrue' /\ \A p : Named(p)' = Named(p)
  BY <1>1, NamesKept DEF LockInv
<1>3. PidsGiven'
  BY <1>1, PidsKept DEF LockInv
<1>4. ChildrenTrue'
  BY <1>1, ChildrenKept DEF LockInv, QuietStops
<1>5. Loaded'
  <2> SUFFICES ASSUME NEW c \in Contexts
               PROVE  /\ ctx'[c].at = "opening" => OpenLoaded(ctx[c])' /\ ctx'[c] = ctx[c]
                      /\ ctx'[c].at = "closing" => CloseLoaded(ctx[c])' /\ ctx'[c] = ctx[c]
                      /\ ctx'[c].at = "posted"  => PostLoaded(ctx[c])' /\ ctx'[c] = ctx[c]
    BY DEF Loaded
  <2>1. CASE c = Running
    BY <2>1 DEF QuietStops
  <2>2. CASE c # Running
    <3>1. ctx'[c] = ctx[c]
      BY <2>2
    <3>2. ctx'[c].at = "opening" => OpenLoaded(ctx[c])'
      BY <3>1 DEF LockInv, Loaded, OpenLoaded, Named
    <3>3. ctx'[c].at = "closing" => CloseLoaded(ctx[c])'
      BY <3>1 DEF LockInv, Loaded, CloseLoaded
    <3>4. ctx'[c].at = "posted" => PostLoaded(ctx[c])'
      BY <3>1 DEF LockInv, Loaded, PostLoaded
    <3> QED BY <3>1, <3>2, <3>3, <3>4
  <2> QED BY <2>1, <2>2
<1>6. OneInside'
  <2>1. \A l : ~Inside(g, l) /\ ~Inside(Me, l)
    BY DEF Inside, QuietStops
  <2> QED BY <1>1, <2>1, LocksKept DEF LockInv
<1>7. UsersCounted'
  <2>1. \A c \in Contexts : SameHold(ctx[c], ctx'[c])
    <3>1. \A c \in Contexts : c # Running => SameHold(ctx[c], ctx'[c])
      BY DEF SameHold
    <3> QED BY <1>1, <3>1
  <2> QED BY <2>1, CountsKept DEF LockInv
<1>8. SleepersHalt' /\ \A p \in Pids : state'[p] = "BLOCKED" => p \in Contexts /\ p # Running /\ ctx'[p] = ctx[p]
  BY <1>1, HaltKept DEF LockInv
<1>9. SleepersQueued'
  <2> SUFFICES ASSUME NEW p \in Pids, state'[p] = "BLOCKED"
               PROVE  \/ p \in Queued(ctx[p].sem)' /\ sems'[ctx'[p].sem].value = 0 /\ ctx'[p] = ctx[p]
                      \/ \E c \in Contexts : ctx'[c].at \in {"posted", "waking"} /\ ctx'[c].seen = p
    BY DEF SleepersQueued
  <2>1. state[p] = "BLOCKED" /\ ctx'[p] = ctx[p]
    BY <1>8
  <2>2. CASE p \in Queued(ctx[p].sem) /\ sems[ctx[p].sem].value = 0
    <3>1. Queued(ctx[p].sem)' = Queued(ctx'[p].sem)
      BY DEF Queued
    <3> QED BY <2>1, <2>2, <3>1
  <2>3. ASSUME NEW c \in Contexts, ctx[c].at \in {"posted", "waking"}, ctx[c].seen = p
        PROVE  ctx'[c].at \in {"posted", "waking"} /\ ctx'[c].seen = p
    <3>1. c # Running
      BY <1>1, <2>3 DEF QuietStops
    <3> QED BY <2>3, <3>1
  <2>4. ~(Runs("remove") /\ Me.pid = p)
    BY DEF Runs
  <2>5. \/ p \in Queued(ctx[p].sem) /\ sems[ctx[p].sem].value = 0
        \/ \E c \in Contexts : ctx[c].at \in {"posted", "waking"} /\ ctx[c].seen = p
    BY <2>1, <2>4 DEF LockInv, SleepersQueued
  <2> QED BY <2>2, <2>3, <2>5
<1> QED BY <1>2, <1>3, <1>4, <1>5, <1>6, <1>7, <1>8, <1>9 DEF LockInv

LEMMA PidsStill ==
  ASSUME LockInv, UNCHANGED <<current, next_pid>>, NEW g,
         g.call # "none" => Me.call # "none" /\ g.pid = Me.pid,
         \A p \in Pids : state'[p] # "none" => state[p] # "none" \/ p < next_pid
  PROVE  PidsGivenStill(g) /\ next_pid' \in Nat /\ next_pid' >= next_pid
PROOF
<1>1. next_pid \in Nat
  BY TypesKept, SemLockAssumption DEF LockInv
<1>2. Me.call # "none" => Me.pid < next_pid
  BY WhoRuns DEF LockInv, PidsGiven, Me
<1> QED BY <1>1, <1>2 DEF LockInv, PidsGiven, PidsGivenStill

LEMMA RunningFrame ==
  ASSUME LockInv
  PROVE  /\ Running \in Contexts /\ Me = ctx[Running] /\ Me \in Frames /\ Fitting(Me) /\ FramesTrue
         /\ Me.at # "halt" => \A p \in Pids : p = Running => state[p] # "BLOCKED"
PROOF
<1>1. Running \in Contexts /\ Me = ctx[Running] /\ Me \in Frames /\ Fitting(Me) /\ FramesTrue
  BY WhoRuns DEF LockInv, Me
<1> QED BY <1>1 DEF LockInv, SleepersHalt

LEMMA PostLooksKeeps ==
  ASSUME LockInv, PostLooks
  PROVE  LockInv'
PROOF
<1> DEFINE g == [Me EXCEPT !.at = IF Me.sem \in Active THEN "posting" ELSE "close"]
<1>1. /\ Goes(g) /\ Me.at = "post"
      /\ UNCHANGED <<locks, sems, state, children, current, victims, next_pid>>
  BY DEF PostLooks, Runs
<1>2. FramesTrue'
  BY PostLooksFrames DEF LockInv
<1>3. ctx'[Running] = g /\ \A c \in Contexts : c # Running => ctx'[c] = ctx[c]
  BY <1>1, GoesResult DEF LockInv
<1>4. g.at \in QuietStops /\ Me.at \in QuietStops /\ SameHold(Me, g) /\ g.at # "open"
  BY <1>1, RunningFrame DEF QuietStops, Stops, SameHold, BetweenStops, Frames
<1>5. Me.call \notin {"none", "create"} /\ g.call = Me.call /\ g.pid = Me.pid
  BY <1>1, RunningFrame DEF Fitting, Places, AwayFrom, Frames
<1> HIDE DEF g
<1>6. PidsGivenStill(g) /\ next_pid' \in Nat /\ next_pid' >= next_pid
  BY <1>1, <1>5, PidsStill
<1> QED BY <1>1, <1>2, <1>3, <1>4, <1>5, <1>6, QuietStep

LEMMA PostWakesKeeps ==
  ASSUME LockInv, PostWakes
  PROVE  LockInv'
PROOF
<1> DEFINE g == [Me EXCEPT !.at = "close"]
<1>1. /\ Goes(g) /\ Me.at = "waking" /\ state' = Awakened({Me.seen})
      /\ UNCHANGED <<locks, sems, children, current, victims, next_pid>>
  BY DEF PostWakes, Runs
<1>2. FramesTrue'
  BY PostWakesFrames DEF LockInv
<1>3. ctx'[Running] = g /\ \A c \in Contexts : c # Running => ctx'[c] = ctx[c]
  BY <1>1, GoesResult DEF LockInv
<1>4. g.at \in QuietStops /\ Me.at \in QuietStops /\ SameHold(Me, g) /\ g.at # "open"
  BY <1>1, RunningFrame DEF QuietStops, Stops, SameHold, BetweenStops, Frames
<1>5. Me.call \notin {"none", "create"} /\ g.call = Me.call /\ g.pid = Me.pid
  BY <1>1, RunningFrame DEF Fitting, Places, AwayFrom, Frames
<1> HIDE DEF g
<1>6. /\ \A p \in Pids : state'[p] = "BLOCKED" => state[p] = "BLOCKED" /\ p # Me.seen
      /\ \A p \in Pids : state[p] = "none" => state'[p] = "none"
  BY <1>1, AwakenedType DEF LockInv, Awakened
<1>7. PidsGivenStill(g) /\ next_pid' \in Nat /\ next_pid' >= next_pid
  BY <1>1, <1>5, <1>6, PidsStill
<1> QED BY <1>1, <1>2, <1>3, <1>4, <1>5, <1>6, <1>7, QuietStep

LEMMA HaltEndsKeeps ==
  ASSUME LockInv, HaltEnds
  PROVE  LockInv'
PROOF
<1> DEFINE g == [Me EXCEPT !.at = "close"]
<1>1. /\ Goes(g) /\ Me.at = "halt" /\ state[current] # "BLOCKED"
      /\ UNCHANGED <<locks, sems, state, children, current, victims, next_pid>>
  BY DEF HaltEnds, Runs
<1>2. FramesTrue'
  BY HaltEndsFrames DEF LockInv
<1>3. ctx'[Running] = g /\ \A c \in Contexts : c # Running => ctx'[c] = ctx[c]
  BY <1>1, GoesResult DEF LockInv
<1>4. g.at \in QuietStops /\ Me.at \in QuietStops /\ SameHold(Me, g) /\ g.at # "open"
  BY <1>1, RunningFrame DEF QuietStops, Stops, SameHold, BetweenStops, Frames
<1>5. Me.call \notin {"none", "create"} /\ g.call = Me.call /\ g.pid = Me.pid
  BY <1>1, RunningFrame DEF Fitting, Places, AwayFrom, Frames
<1> HIDE DEF g
<1>6. PidsGivenStill(g) /\ next_pid' \in Nat /\ next_pid' >= next_pid
  BY <1>1, <1>5, PidsStill
<1>7. \A p \in Pids : p = Running => state[p] # "BLOCKED"
  BY <1>1, WhoRuns DEF LockInv
<1> QED BY <1>1, <1>2, <1>3, <1>4, <1>5, <1>6, <1>7, QuietStep

LEMMA BuriesKeeps ==
  ASSUME LockInv, Buries
  PROVE  LockInv'
PROOF
<1>1. /\ Goes(InUserCode) /\ Me.at = "remove" /\ state' = [state EXCEPT ![Me.pid] = "KILLED"]
      /\ UNCHANGED <<locks, sems, children, current, victims, next_pid>>
  BY DEF Buries, Runs
<1>2. FramesTrue'
  BY BuriesFrames DEF LockInv
<1>3. ctx'[Running] = InUserCode /\ \A c \in Contexts : c # Running => ctx'[c] = ctx[c]
  BY <1>1, GoesResult DEF LockInv
<1>4. Me.at \in QuietStops /\ SameHold(Me, InUserCode)
  BY <1>1 DEF QuietStops, Stops, SameHold, BetweenStops, InUserCode
<1>5. InUserCode.call = "none" /\ InUserCode.at \in QuietStops
  BY DEF InUserCode, QuietStops, Stops
<1>6. Me.pid \in Pids /\ Me.pid < next_pid
  <2>1. Me.call # "none"
    BY <1>1, RunningFrame DEF Fitting, Places, AwayFrom, Frames
  <2> QED BY <2>1, RunningFrame DEF Fitting, LockInv, PidsGiven
<1>7. \A p \in Pids : state'[p] = IF p = Me.pid THEN "KILLED" ELSE state[p]
  BY <1>1, TypesKept DEF LockInv
<1>8. PidsGivenStill(InUserCode) /\ next_pid' \in Nat /\ next_pid' >= next_pid
  BY <1>1, <1>5, <1>6, <1>7, PidsStill
<1> QED BY <1>1, <1>2, <1>3, <1>4, <1>5, <1>7, <1>8, QuietStep

LEMMA DiesKeeps ==
  ASSUME LockInv, Dies
  PROVE  LockInv'
PROOF
<1> DEFINE g == [InUserCode EXCEPT !.at = IF Me.call = "exit" THEN "exited" ELSE "halted"]
<1>1. /\ Goes(g) /\ Me.at = "die" /\ state' = [state EXCEPT ![current] = "KILLED"]
      /\ UNCHANGED <<locks, sems, children, current, victims, next_pid>>
  BY DEF Dies, Runs
<1>2. FramesTrue'
  BY DiesFrames DEF LockInv
<1>3. ctx'[Running] = g /\ \A c \in Contexts : c # Running => ctx'[c] = ctx[c]
  BY <1>1, GoesResult DEF LockInv
<1>4. g.call = "none" /\ g.at \in {"exited", "halted"}
  BY DEF InUserCode
<1> HIDE DEF g
<1>5. Me.at \in QuietStops /\ SameHold(Me, g) /\ g.at \in QuietStops
  BY <1>1, <1>4 DEF QuietStops, Stops, SameHold, BetweenStops
<1>6. \A p \in Pids : state'[p] = IF p = current THEN "KILLED" ELSE state[p]
  BY <1>1, TypesKept DEF LockInv
<1>7. PidsGivenStill(g) /\ next_pid' \in Nat /\ next_pid' >= next_pid
  BY <1>1, <1>4, <1>6, PidsStill DEF LockInv, PidsGiven
<1> QED BY <1>1, <1>2, <1>3, <1>4, <1>5, <1>6, <1>7, RunningFrame, QuietStep

\* A system call begins.
LEMMA CallsKeeps ==
  ASSUME LockInv, NEW call \in {"create", "wait", "kill", "exit"}, NEW p \in Pids, Calls(call, p),
         FramesTrue', next_pid' \in Nat, next_pid' >= next_pid, p < next_pid',
         \A q \in Pids : state'[q] # "none" => state[q] # "none" \/ q < next_pid',
         \A q \in Pids : state'[q] = "BLOCKED" => state[q] = "BLOCKED",
         call = "create" => Named(p) = {}, call = "wait" => p \in children[current]
  PROVE  LockInv'
PROOF
<1> DEFINE g == Starts(call, p, call # "return")
<1>1. /\ Goes(g) /\ Running = current /\ Me.at = "user"
      /\ UNCHANGED <<locks, sems, children, current, victims>>
  BY DEF Calls, InUserCode
<1>2. g.call = call /\ g.at = "open" /\ g.pid = p
  BY StartsFits
<1> HIDE DEF g
<1>3. ctx'[Running] = g /\ \A c \in Contexts : c # Running => ctx'[c] = ctx[c]
  BY <1>1, GoesResult DEF LockInv
<1>4. Me.at \in QuietStops /\ SameHold(Me, g) /\ g.at \in QuietStops
  BY <1>1, <1>2 DEF QuietStops, Stops, SameHold, BetweenStops
<1>5. PidsGivenStill(g)
  <2>1. current \in Nat /\ next_pid \in Nat /\ \A q \in Pids : q \in Nat
    BY TypesKept, SemLockAssumption DEF LockInv, Pids
  <2>2. current < next_pid /\ \A q \in Pids : state[q] # "none" => q < next_pid
    BY DEF LockInv, PidsGiven
  <2> QED BY <1>1, <1>2, <2>1, <2>2 DEF PidsGivenStill
<1> QED BY <1>1, <1>2, <1>3, <1>4, <1>5, RunningFrame, QuietStep

LEMMA CreateKeeps ==
  ASSUME LockInv, Create
  PROVE  LockInv'
PROOF
<1>1. FramesTrue' /\ next_pid \in Pids
  BY CreateFrames DEF LockInv
<1>2. Calls("create", next_pid) /\ next_pid' = next_pid + 1 /\ state' = [state EXCEPT ![next_pid] = "READY"]
  BY DEF Create
<1>3. next_pid \in Nat /\ next_pid' \in Nat /\ next_pid' >= next_pid /\ next_pid < next_pid'
  BY <1>2, TypesKept, SemLockAssumption DEF LockInv
<1>4. \A q \in Pids : state'[q] = IF q = next_pid THEN "READY" ELSE state[q]
  BY <1>2, TypesKept DEF LockInv
<1>5. Named(next_pid) = {}
  BY <1>3 DEF LockInv, NamesTrue, Named
<1> QED BY <1>1, <1>2, <1>3, <1>4, <1>5, CallsKeeps

LEMMA UserCallsKeep ==
  ASSUME LockInv, NEW p \in Pids, Waitpid(p) \/ Kill(p) \/ Exit
  PROVE  LockInv'
PROOF
<1>1. UNCHANGED <<state, next_pid>> /\ next_pid \in Nat /\ next_pid >= next_pid
      /\ next_pid \in 3..(MaxPid + 1) /\ state \in [Pids -> States]
  BY TypesKept, SemLockAssumption DEF LockInv, Waitpid, Kill, Exit
<1>2. CASE Waitpid(p)
  <2>1. Calls("wait", p) /\ p \in children[current] /\ current \in Contexts
    BY <1>2, TypesKept DEF Waitpid, LockInv, Contexts
  <2>2. p < next_pid
    BY <2>1 DEF LockInv, ChildrenTrue, NamesTrue, Named
  <2>3. FramesTrue'
    BY <1>1, <2>1, CallsFrames DEF LockInv
  <2> QED BY <1>1, <2>1, <2>2, <2>3, CallsKeeps
<1>3. CASE Kill(p)
  <2>1. Calls("kill", p) /\ p < next_pid
    BY <1>3 DEF Kill, Killable
  <2>2. FramesTrue'
    BY <1>1, <2>1, CallsFrames DEF LockInv
  <2> QED BY <1>1, <2>1, <2>2, CallsKeeps
<1>4. CASE Exit
  <2>1. Calls("exit", current) /\ current \in Pids /\ current < next_pid
    BY <1>4, TypesKept DEF Exit, LockInv, PidsGiven
  <2>2. FramesTrue'
    BY <1>1, <2>1, CallsFrames DEF LockInv
  <2> QED BY <1>1, <2>1, <2>2, CallsKeeps
<1> QED BY <1>2, <1>3, <1>4

LEMMA ReturnsKeeps ==
  ASSUME LockInv, Returns
  PROVE  LockInv'
PROOF
<1> DEFINE g == Starts("return", current, "return" # "return")
<1>0. Me.at \in {"user", "exited"}
  <2>1. InUserCode.at = "user" /\ [InUserCode EXCEPT !.at = "exited"].at = "exited"
    BY DEF InUserCode
  <2> QED BY <2>1 DEF Returns
<1>1. /\ Goes(g) /\ Running = current /\ Me.at \in {"user", "exited"}
      /\ UNCHANGED <<locks, sems, state, children, current, victims, next_pid>>
  BY <1>0 DEF Returns
<1>2. g.call = "return" /\ g.at = "open" /\ g.pid = current
  BY StartsFits, TypesKept DEF LockInv
<1> HIDE DEF g
<1>3. FramesTrue'
  BY ReturnsFrames DEF LockInv
<1>4. ctx'[Running] = g /\ \A c \in Contexts : c # Running => ctx'[c] = ctx[c]
  BY <1>1, GoesResult DEF LockInv
<1>5. Me.at \in QuietStops /\ SameHold(Me, g) /\ g.at \in QuietStops
  BY <1>1, <1>2 DEF QuietStops, Stops, SameHold, BetweenStops
<1>6. PidsGivenStill(g)
  BY <1>1, <1>2 DEF LockInv, PidsGiven, PidsGivenStill
<1>7. next_pid' \in Nat /\ next_pid' >= next_pid
  BY <1>1, TypesKept, SemLockAssumption DEF LockInv
<1> QED BY <1>1, <1>2, <1>3, <1>4, <1>5, <1>6, <1>7, RunningFrame, QuietStep

LEMMA NextVictimKeeps ==
  ASSUME LockInv, NEW p \in Pids, NextVictim(p)
  PROVE  LockInv'
PROOF
<1> DEFINE g == Starts("kill", p, "kill" # "return")
<1>1. /\ Running = Irq /\ Me = InUserCode /\ Me.at = "user"
      /\ UNCHANGED <<locks, sems, state, children, current, next_pid>>
      /\ (Killable(p) /\ Goes(g)) \/ ctx' = ctx
  BY DEF NextVictim, InUserCode
<1>2. FramesTrue'
  BY NextVictimFrames DEF LockInv
<1>3. next_pid' \in Nat /\ next_pid' >= next_pid
  BY <1>1, TypesKept, SemLockAssumption DEF LockInv
<1>4. CASE Killable(p) /\ Goes(g)
  <2>1. g.call = "kill" /\ g.at = "open" /\ g.pid = p
    BY StartsFits
  <2> HIDE DEF g
  <2>2. ctx'[Running] = g /\ \A c \in Contexts : c # Running => ctx'[c] = ctx[c]
    BY <1>4, GoesResult DEF LockInv
  <2>3. Me.at \in QuietStops /\ SameHold(Me, g) /\ g.at \in QuietStops
    BY <1>1, <2>1 DEF QuietStops, Stops, SameHold, BetweenStops
  <2>4. PidsGivenStill(g)
    BY <1>1, <1>4, <2>1 DEF LockInv, PidsGiven, PidsGivenStill, Killable
  <2> QED BY <1>1, <1>2, <1>3, <2>1, <2>2, <2>3, <2>4, RunningFrame, QuietStep
<1>5. CASE ctx' = ctx
  <2>1. ctx'[Running] = InUserCode /\ \A c \in Contexts : c # Running => ctx'[c] = ctx[c]
    BY <1>1, <1>5 DEF Me
  <2>2. InUserCode.call = "none" /\ InUserCode.at = "user"
    BY DEF InUserCode
  <2>3. Me.at \in QuietStops /\ SameHold(Me, InUserCode) /\ InUserCode.at \in QuietStops
    BY <1>1, <2>2 DEF QuietStops, Stops, SameHold, BetweenStops
  <2>4. PidsGivenStill(InUserCode)
    BY <1>1, <2>2 DEF LockInv, PidsGiven, PidsGivenStill
  <2> QED BY <1>1, <1>2, <1>3, <2>1, <2>2, <2>3, <2>4, RunningFrame, QuietStep
<1> QED BY <1>1, <1>4, <1>5

\* A tick or Ctrl+C takes the CPU from a context that can be interrupted, wherever
\* it is.
LEMMA InterruptStep ==
  ASSUME LockInv, FramesTrue', ~Me.masked, UNCHANGED <<locks, sems, children, ctx, next_pid>>,
         current' < next_pid', \A p \in Pids : state'[p] # "none" => state[p] # "none",
         \A p \in Pids : state'[p] = "BLOCKED" => state[p] = "BLOCKED"
  PROVE  LockInv'
PROOF
<1>1. Running \in Contexts /\ Me = ctx[Running] /\ Me \in Frames /\ Fitting(Me)
  BY RunningFrame
<1>2. NamesTrue' /\ ChildrenTrue' /\ Loaded' /\ UsersCounted'
  <2>1. NamesTrue' /\ ChildrenTrue'
    BY DEF LockInv, NamesTrue, ChildrenTrue, Named
  <2>2. Loaded'
    BY DEF LockInv, Loaded, OpenLoaded, CloseLoaded, PostLoaded, Named
  <2>3. UsersCounted'
    BY DEF LockInv, UsersCounted, References, Between
  <2> QED BY <2>1, <2>2, <2>3
<1>3. PidsGiven'
  BY DEF LockInv, PidsGiven
<1>4. OneInside'
  <2>1. \A l : Inside(Me, l) => Me.call \in {"return", "wait", "waited"}
    BY <1>1 DEF Inside, Fitting, Places, AwayFrom, Frames
  <2> SUFFICES ASSUME NEW l \in Locks
               PROVE  /\ l \in locks <=> \E c \in Contexts : Inside(ctx[c], l)
                      /\ \A c, d \in Contexts : Inside(ctx[c], l) /\ Inside(ctx[d], l) => c = d
                      /\ \A c \in Contexts : Inside(ctx[c], l) =>
                           ctx[c].call \in {"return", "wait", "waited"} /\ ~ctx[c].masked
    BY HoldsInside DEF OneInside
  <2>2. /\ l \in locks <=> \E c \in Contexts : Inside(ctx[c], l)
        /\ \A c, d \in Contexts : Inside(ctx[c], l) /\ Inside(ctx[d], l) => c = d
        /\ \A c \in Contexts : Inside(ctx[c], l) /\ c # Running =>
             ctx[c].call \in {"return", "wait", "waited"} /\ ~ctx[c].masked
    BY HoldsInside DEF OneInside, LockInv
  <2> QED BY <1>1, <2>1, <2>2
<1>5. SleepersHalt'
  BY DEF LockInv, SleepersHalt
<1>6. SleepersQueued'
  <2> SUFFICES ASSUME NEW p \in Pids, state'[p] = "BLOCKED"
               PROVE  \/ p \in Queued(ctx[p].sem)' /\ sems'[ctx'[p].sem].value = 0
                      \/ \E c \in Contexts : ctx'[c].at \in {"posted", "waking"} /\ ctx'[c].seen = p
    BY DEF SleepersQueued
  <2>1. ~Runs("remove")
    BY <1>1 DEF Runs, Fitting, Places, AwayFrom, Posting, Frames
  <2>2. state[p] = "BLOCKED"
    OBVIOUS
  <2>3. \/ p \in Queued(ctx[p].sem) /\ sems[ctx[p].sem].value = 0
        \/ \E c \in Contexts : ctx[c].at \in {"posted", "waking"} /\ ctx[c].seen = p
    BY <2>1, <2>2 DEF LockInv, SleepersQueued
  <2> QED BY <2>3 DEF Queued
<1> QED BY <1>2, <1>3, <1>4, <1>5, <1>6 DEF LockInv

LEMMA TickKeeps ==
  ASSUME LockInv, NEW p \in Pids, Tick(p)
  PROVE  LockInv'
PROOF
<1>1. FramesTrue' /\ ~Me.masked /\ UNCHANGED <<locks, sems, children, ctx, next_pid>>
  BY TickFrames DEF LockInv, Tick
<1>2. state[p] # "none" /\ current' = p
  BY DEF Tick
<1>3. current' < next_pid'
  BY <1>1, <1>2 DEF LockInv, PidsGiven
<1>4. /\ \A q \in Pids : state'[q] # "none" => state[q] # "none"
      /\ \A q \in Pids : state'[q] = "BLOCKED" => state[q] = "BLOCKED"
  BY <1>2 DEF Tick
<1> QED BY <1>1, <1>3, <1>4, InterruptStep

LEMMA CtrlCKeeps ==
  ASSUME LockInv, CtrlC
  PROVE  LockInv'
PROOF
<1>1. FramesTrue' /\ ~Me.masked /\ UNCHANGED <<locks, sems, children, ctx, state, current, next_pid>>
  BY CtrlCFrames DEF LockInv, CtrlC
<1>2. current' < next_pid'
  BY <1>1 DEF LockInv, PidsGiven
<1> QED BY <1>1, <1>2, InterruptStep

-----------------------------------------------------------------------------
(* Entering a section: a lock is taken and something is loaded.            *)

LEMMA TakesStep ==
  ASSUME LockInv, FramesTrue', NEW g \in Frames, NEW l \in Locks, Goes(g), Takes(l),
         UNCHANGED <<sems, state, children, current, victims, next_pid>>,
         \A k \in Locks : Inside(g, k) <=> k = l, Me.at \in {"open", "close", "posting"},
         SameHold(Me, g), g # InUserCode, g.call = Me.call, g.pid = Me.pid,
         Me.at = "open" <=> g.at = "opening",
         g.at \in {"opening", "closing", "posted"},
         g.at = "opening" => OpenLoaded(g),
         g.at = "closing" => CloseLoaded(g),
         g.at = "posted"  => PostLoaded(g)
  PROVE  LockInv'
PROOF
<1>1. /\ Running \in Contexts /\ Me = ctx[Running] /\ FramesTrue /\ Me.at # "halt"
      /\ Fitting(Me)
  BY RunningFrame DEF LockInv
<1>2. ctx'[Running] = g /\ \A c \in Contexts : c # Running => ctx'[c] = ctx[c]
  BY <1>1, GoesResult
<1>3. Me.call # "none" /\ (Me.call = "wait" => g.at = "opening" \/ g.at \notin {"open", "opening"})
  BY <1>1 DEF Fitting, Places, AwayFrom
<1>4. PidsGivenStill(g) /\ next_pid' \in Nat /\ next_pid' >= next_pid
  BY <1>3, PidsStill
<1>5. NamesTrue' /\ PidsGiven'
  BY <1>1, <1>2, <1>4, NamesKept, PidsKept DEF LockInv
<1>6. ChildrenTrue'
  <2>1. g.call = "create" => Named(g.pid) = {}
    BY <1>1 DEF LockInv, ChildrenTrue
  <2>2. g.call = "wait" /\ g.at \in {"open", "opening"} => g.pid \in children[Running]
    BY <1>1 DEF LockInv, ChildrenTrue
  <2> QED BY <1>1, <1>2, <2>1, <2>2, ChildrenKept DEF LockInv
<1>7. Loaded'
  <2> SUFFICES ASSUME NEW c \in Contexts
               PROVE  /\ ctx'[c].at = "opening" => OpenLoaded(ctx[c])'
                      /\ ctx'[c].at = "closing" => CloseLoaded(ctx[c])'
                      /\ ctx'[c].at = "posted"  => PostLoaded(ctx[c])'
    BY DEF Loaded
  <2> DEFINE f == IF c = Running THEN g ELSE ctx[c]
  <2>1. ctx'[c] = f
    BY <1>2
  <2>2. /\ f.at = "opening" => OpenLoaded(f)
        /\ f.at = "closing" => CloseLoaded(f)
        /\ f.at = "posted"  => PostLoaded(f)
    BY DEF LockInv, Loaded
  <2> HIDE DEF f
  <2>3. ctx'[c].at = "opening" => OpenLoaded(ctx[c])'
    BY <2>1, <2>2 DEF OpenLoaded, Named
  <2>4. ctx'[c].at = "closing" => CloseLoaded(ctx[c])'
    BY <2>1, <2>2 DEF CloseLoaded
  <2>5. ctx'[c].at = "posted" => PostLoaded(ctx[c])'
    BY <2>1, <2>2 DEF PostLoaded
  <2> QED BY <2>3, <2>4, <2>5
<1>8. OneInside'
  <2>1. \A k : ~Inside(Me, k)
    BY DEF Inside
  <2>2. Running' = Running
    BY <1>1, GoesOn
  <2> QED BY <1>1, <1>2, <2>1, <2>2, LocksKept DEF LockInv, Takes
<1>9. UsersCounted'
  <2>1. \A c \in Contexts : SameHold(ctx[c], ctx'[c])
    <3>1. \A c \in Contexts : c # Running => SameHold(ctx[c], ctx'[c])
      BY <1>2 DEF SameHold
    <3> QED BY <1>1, <1>2, <3>1
  <2> QED BY <2>1, CountsKept DEF LockInv
<1>10. SleepersHalt' /\ \A p \in Pids : state'[p] = "BLOCKED" => p \in Contexts /\ p # Running /\ ctx'[p] = ctx[p]
  BY <1>1, <1>2, HaltKept DEF LockInv
<1>11. SleepersQueued'
  <2> SUFFICES ASSUME NEW p \in Pids, state'[p] = "BLOCKED"
               PROVE  \/ p \in Queued(ctx[p].sem)' /\ sems'[ctx'[p].sem].value = 0
                      \/ \E c \in Contexts : ctx'[c].at \in {"posted", "waking"} /\ ctx'[c].seen = p
    BY DEF SleepersQueued
  <2>1. state[p] = "BLOCKED" /\ ctx'[p] = ctx[p]
    BY <1>10
  <2>2. CASE p \in Queued(ctx[p].sem) /\ sems[ctx[p].sem].value = 0
    <3>1. Queued(ctx[p].sem)' = Queued(ctx[p].sem)
      BY <2>1 DEF Queued
    <3> QED BY <2>1, <2>2, <3>1
  <2>3. ASSUME NEW c \in Contexts, ctx[c].at \in {"posted", "waking"}, ctx[c].seen = p
        PROVE  ctx'[c].at \in {"posted", "waking"} /\ ctx'[c].seen = p
    <3>1. c # Running
      BY <1>1, <2>3
    <3> QED BY <1>2, <2>3, <3>1
  <2>4. ~(Runs("remove") /\ Me.pid = p)
    BY DEF Runs
  <2>5. \/ p \in Queued(ctx[p].sem) /\ sems[ctx[p].sem].value = 0
        \/ \E c \in Contexts : ctx[c].at \in {"posted", "waking"} /\ ctx[c].seen = p
    BY <2>1, <2>4 DEF LockInv, SleepersQueued
  <2> QED BY <2>2, <2>3, <2>5
<1> QED BY <1>5, <1>6, <1>7, <1>8, <1>9, <1>10, <1>11 DEF LockInv

LEMMA OpenLoadsKeeps ==
  ASSUME LockInv, OpenLoads
  PROVE  LockInv'
PROOF
<1> DEFINE i == OpenId(Me.pid)
           g == [Me EXCEPT !.at = "opening", !.sem = i, !.seen = sems[i].users]
<1>1. Me.at = "open" /\ Me \in Frames /\ Fitting(Me)
  BY RunningFrame DEF OpenLoads, Runs
<1>2. Me.pid \in Pids
  BY <1>1 DEF Fitting, Places, AwayFrom, Frames
<1>3. /\ i \in SemIds /\ sems[i].users \in Nat
      /\ Named(Me.pid) # {} => sems[i].pid = Me.pid
      /\ Named(Me.pid) = {} => sems[i].pid = 0
  BY <1>2, OpenIdResult, EntryType DEF LockInv, FramesTrue, OpenLoads
<1>4. /\ Goes(g) /\ Takes(Registry)
      /\ UNCHANGED <<sems, state, children, current, victims, next_pid>>
  BY DEF OpenLoads
<1> HIDE DEF i
<1>5. /\ g \in Frames /\ g.at = "opening" /\ g.sem = i /\ g.seen = sems[i].users
      /\ g.call = Me.call /\ g.pid = Me.pid
  BY <1>1, <1>3 DEF Frames, Stops
<1> HIDE DEF g
<1>6. OpenLoaded(g)
  <2>1. sems[i].users = 0 <=> sems[i].pid = 0
    BY <1>3 DEF LockInv, NamesTrue
  <2>2. 0 \notin Pids
    BY SemLockAssumption DEF Pids
  <2> QED BY <1>2, <1>3, <1>5, <2>1, <2>2 DEF OpenLoaded
<1>7. /\ \A k \in Locks : Inside(g, k) <=> k = Registry
      /\ SameHold(Me, g) /\ g # InUserCode /\ Registry \in Locks
  <2>1. InUserCode.at = "user"
    BY DEF InUserCode
  <2> QED BY <1>1, <1>5, <2>1 DEF Inside, SameHold, BetweenStops, Locks
<1>8. FramesTrue'
  BY OpenLoadsFrames DEF LockInv
<1> QED BY <1>1, <1>4, <1>5, <1>6, <1>7, <1>8, TakesStep

LEMMA CloseLoadsKeeps ==
  ASSUME LockInv, CloseLoads
  PROVE  LockInv'
PROOF
<1> DEFINE g == [Me EXCEPT !.at = "closing", !.seen = sems[Me.sem].users]
<1>1. Me.at = "close" /\ Me \in Frames
  BY RunningFrame DEF CloseLoads, Runs
<1>2. Me.sem \in SemIds /\ sems[Me.sem].users \in Nat
  BY <1>1, OnSemaphore DEF AwayFrom, Entries, LockInv
<1>3. /\ Goes(g) /\ Takes(Registry)
      /\ UNCHANGED <<sems, state, children, current, victims, next_pid>>
  BY DEF CloseLoads
<1>4. /\ g \in Frames /\ g.at = "closing" /\ g.sem = Me.sem /\ g.seen = sems[Me.sem].users
      /\ g.call = Me.call /\ g.pid = Me.pid
  BY <1>1, <1>2 DEF Frames, Stops
<1> HIDE DEF g
<1>5. CloseLoaded(g)
  BY <1>4 DEF CloseLoaded
<1>6. /\ \A k \in Locks : Inside(g, k) <=> k = Registry
      /\ SameHold(Me, g) /\ g # InUserCode /\ Registry \in Locks
  <2>1. InUserCode.at = "user"
    BY DEF InUserCode
  <2> QED BY <1>1, <1>4, <2>1 DEF Inside, SameHold, BetweenStops, Locks
<1>7. FramesTrue'
  BY CloseLoadsFrames DEF LockInv
<1> QED BY <1>1, <1>3, <1>4, <1>5, <1>6, <1>7, TakesStep

LEMMA PostLoadsKeeps ==
  ASSUME LockInv, PostLoads
  PROVE  LockInv'
PROOF
<1> DEFINE q == sems[Me.sem].blocked
           g == [Me EXCEPT !.at = "posted", !.seen = IF q = <<>> THEN 0 ELSE Head(q)]
<1>1. Me.at = "posting" /\ Me \in Frames
  BY RunningFrame DEF PostLoads, Runs
<1>2. Me.sem \in Locks /\ Me.sem # Registry /\ q \in Seq(Pids)
  BY <1>1, OnSemaphore DEF AwayFrom, Entries, LockInv
<1>3. /\ Goes(g) /\ Takes(Me.sem)
      /\ UNCHANGED <<sems, state, children, current, victims, next_pid>>
  BY DEF PostLoads
<1>4. q # <<>> => Head(q) \in Nat
  BY <1>2, HeadIsPid
<1>5. /\ g \in Frames /\ g.at = "posted" /\ g.sem = Me.sem
      /\ g.seen = IF q = <<>> THEN 0 ELSE Head(q)
      /\ g.call = Me.call /\ g.pid = Me.pid
  BY <1>1, <1>4 DEF Frames, Stops
<1> HIDE DEF g
<1>6. PostLoaded(g)
  BY <1>5 DEF PostLoaded
<1>7. /\ \A k \in Locks : Inside(g, k) <=> k = Me.sem
      /\ SameHold(Me, g) /\ g # InUserCode
  <2>1. InUserCode.at = "user"
    BY DEF InUserCode
  <2> QED BY <1>1, <1>5, <2>1 DEF Inside, SameHold, BetweenStops
<1>8. FramesTrue'
  BY PostLoadsFrames DEF LockInv
<1> QED BY <1>1, <1>2, <1>3, <1>5, <1>6, <1>7, <1>8, TakesStep

-----------------------------------------------------------------------------
(* A queue or the tokens of an entry change.                               *)

LEMMA EntryStep ==
  ASSUME LockInv, FramesTrue', NEW g, NEW i \in SemIds, NEW e \in Entries,
         sems' = [sems EXCEPT ![i] = e], e.pid = sems[i].pid, e.users = sems[i].users,
         ctx'[Running] = g, \A c \in Contexts : c # Running => ctx'[c] = ctx[c],
         children' = children, next_pid' \in Nat, next_pid' >= next_pid, PidsGivenStill(g),
         SameHold(Me, g), g.at \in QuietStops \ {"open"}, g.call # "create",
         \A c \in Contexts : c # Running => ~Inside(ctx[c], i),
         \A l \in Locks : l \in locks' <=> l \in locks /\ ~Inside(Me, l)
  PROVE  NamesTrue' /\ PidsGiven' /\ ChildrenTrue' /\ Loaded' /\ OneInside' /\ UsersCounted'
PROOF
<1>1. /\ Running \in Contexts /\ Me = ctx[Running] /\ FramesTrue
      /\ sems \in [SemIds -> Entries]
  BY RunningFrame, TypesKept DEF LockInv
<1>2. /\ sems'[i] = e /\ \A j \in SemIds : j # i => sems'[j] = sems[j]
      /\ \A j \in SemIds : sems'[j].pid = sems[j].pid /\ sems'[j].users = sems[j].users
  BY <1>1
<1>3. NamesTrue' /\ PidsGiven'
  BY <1>1, <1>2, NamesKept, PidsKept DEF LockInv
<1>4. ChildrenTrue'
  BY <1>1, <1>2, ChildrenKept DEF LockInv, QuietStops
<1>5. Loaded'
  <2> SUFFICES ASSUME NEW c \in Contexts
               PROVE  /\ ctx'[c].at = "opening" => OpenLoaded(ctx[c])'
                      /\ ctx'[c].at = "closing" => CloseLoaded(ctx[c])'
                      /\ ctx'[c].at = "posted"  => PostLoaded(ctx[c])'
    BY DEF Loaded
  <2>1. CASE c = Running
    BY <2>1 DEF QuietStops
  <2>2. CASE c # Running
    <3>1. ctx'[c] = ctx[c] /\ Fitting(ctx[c]) /\ ctx[c] \in Frames
      BY <1>1, <2>2 DEF FramesTrue, Framed, LockTypeOK
    <3>2. ctx[c].at \in {"opening", "closing", "posted"} => ctx[c].sem \in SemIds
      BY <3>1 DEF Fitting, AwayFrom
    <3>3. ctx'[c].at = "opening" => OpenLoaded(ctx[c])'
      BY <1>2, <3>1, <3>2 DEF LockInv, Loaded, OpenLoaded, Named
    <3>4. ctx'[c].at = "closing" => CloseLoaded(ctx[c])'
      BY <1>2, <3>1, <3>2 DEF LockInv, Loaded, CloseLoaded
    <3>5. ctx[c].at = "posted" => ctx[c].sem # i
      BY <2>2 DEF Inside
    <3>6. ctx'[c].at = "posted" => PostLoaded(ctx[c])'
      BY <1>2, <3>1, <3>2, <3>5 DEF LockInv, Loaded, PostLoaded
    <3> QED BY <3>3, <3>4, <3>6
  <2> QED BY <2>1, <2>2
<1>6. OneInside'
  <2>1. \A l : ~Inside(g, l)
    BY DEF Inside, QuietStops
  <2> QED BY <1>1, <2>1, LocksKept DEF LockInv
<1>7. UsersCounted'
  <2>1. \A c \in Contexts : SameHold(ctx[c], ctx'[c])
    <3>1. \A c \in Contexts : c # Running => SameHold(ctx[c], ctx'[c])
      BY DEF SameHold
    <3> QED BY <1>1, <3>1
  <2> QED BY <1>2, <2>1, CountsKept DEF LockInv
<1> QED BY <1>3, <1>4, <1>5, <1>6, <1>7

\* While a lock is free nobody is behind it, and while one is behind it nobody
\* else is.
LEMMA NobodyElse ==
  ASSUME LockInv, NEW l \in Locks, l \notin locks \/ Inside(Me, l)
  PROVE  \A c \in Contexts : c # Running => ~Inside(ctx[c], l)
PROOF
<1>1. Running \in Contexts /\ Me = ctx[Running]
  BY RunningFrame
<1>2. /\ l \in locks <=> \E c \in Contexts : Inside(ctx[c], l)
      /\ \A c, d \in Contexts : Inside(ctx[c], l) /\ Inside(ctx[d], l) => c = d
  BY HoldsInside DEF LockInv, OneInside
<1> QED BY <1>1, <1>2

LEMMA PostStoresKeeps ==
  ASSUME LockInv, PostStores
  PROVE  LockInv'
PROOF
<1> DEFINE i == Me.sem
           e == Posted(sems[i], Me.seen)
           g == [Me EXCEPT !.at = IF Me.seen = 0 THEN "close" ELSE "waking"]
<1>1. /\ Running \in Contexts /\ Me = ctx[Running] /\ Me \in Frames /\ Fitting(Me)
      /\ Me.at = "posted" /\ Runs("posted") /\ FramesTrue /\ sems \in [SemIds -> Entries]
  BY RunningFrame, TypesKept DEF PostStores, Runs
<1>2. i \in SemIds /\ i \in Locks /\ i # Registry
  BY <1>1, OnSemaphore DEF AwayFrom
<1>3. PostLoaded(Me)
  BY <1>1 DEF LockInv, Loaded
<1>4. /\ e \in Entries /\ e.pid = sems[i].pid /\ e.users = sems[i].users
      /\ Me.seen # 0 => /\ e.blocked = Tail(sems[i].blocked) /\ e.value = sems[i].value
                        /\ sems[i].blocked # <<>> /\ Me.seen = Head(sems[i].blocked)
      /\ Me.seen = 0 => sems[i].blocked = <<>>
  BY <1>1, <1>3, PostedEntry
<1>5. /\ Goes(g) /\ UNCHANGED <<state, children, current, victims, next_pid>>
      /\ locks' = locks \ {i}
  BY DEF PostStores
<1>6. sems' = [sems EXCEPT ![i] = e]
  BY <1>1, <1>2 DEF PostStores, Posted
<1>7. /\ g.at = (IF Me.seen = 0 THEN "close" ELSE "waking") /\ g.seen = Me.seen /\ g.sem = i
      /\ g.call = Me.call /\ g.pid = Me.pid
  BY <1>1 DEF Frames
<1> HIDE DEF e, g
<1>8. ctx'[Running] = g /\ \A c \in Contexts : c # Running => ctx'[c] = ctx[c]
  BY <1>1, <1>5, GoesResult
<1>9. Me.call \notin {"none", "create"}
  BY <1>1 DEF Fitting, Places, AwayFrom, Frames
<1>10. PidsGivenStill(g) /\ next_pid' \in Nat /\ next_pid' >= next_pid
  BY <1>5, <1>7, <1>9, PidsStill
<1>11. FramesTrue'
  BY <1>1, <1>3, PostStoresFrames
<1>12. /\ SameHold(Me, g) /\ g.at \in QuietStops \ {"open"}
       /\ \A l \in Locks : Inside(Me, l) <=> l = i
  BY <1>1, <1>2, <1>7 DEF SameHold, BetweenStops, QuietStops, Stops, Inside
<1>13. /\ \A c \in Contexts : c # Running => ~Inside(ctx[c], i)
       /\ \A l \in Locks : l \in locks' <=> l \in locks /\ ~Inside(Me, l)
  BY <1>2, <1>5, <1>12, NobodyElse
<1>14. NamesTrue' /\ PidsGiven' /\ ChildrenTrue' /\ Loaded' /\ OneInside' /\ UsersCounted'
  BY <1>2, <1>4, <1>5, <1>6, <1>7, <1>8, <1>9, <1>10, <1>11, <1>12, <1>13, EntryStep
<1>15. SleepersHalt' /\ \A p \in Pids : state'[p] = "BLOCKED" => p \in Contexts /\ p # Running /\ ctx'[p] = ctx[p]
  BY <1>1, <1>5, <1>8, HaltKept DEF LockInv
<1>16. SleepersQueued'
  <2> SUFFICES ASSUME NEW p \in Pids, state'[p] = "BLOCKED"
               PROVE  \/ p \in Queued(ctx[p].sem)' /\ sems'[ctx'[p].sem].value = 0
                      \/ \E c \in Contexts : ctx'[c].at \in {"posted", "waking"} /\ ctx'[c].seen = p
    BY DEF SleepersQueued
  <2>1. state[p] = "BLOCKED" /\ ctx'[p] = ctx[p] /\ p \in Contexts /\ p # 0
    BY <1>5, <1>15, SemLockAssumption DEF Pids
  <2>2. ~(Runs("remove") /\ Me.pid = p)
    BY <1>1 DEF Runs
  <2>3. \/ p \in Queued(ctx[p].sem) /\ sems[ctx[p].sem].value = 0
        \/ \E c \in Contexts : ctx[c].at \in {"posted", "waking"} /\ ctx[c].seen = p
    BY <2>1, <2>2 DEF LockInv, SleepersQueued
  <2>4. ASSUME NEW c \in Contexts, ctx[c].at \in {"posted", "waking"}, ctx[c].seen = p
        PROVE  ctx'[c].at \in {"posted", "waking"} /\ ctx'[c].seen = p
    BY <1>7, <1>8, <1>1, <2>1, <2>4
  <2>5. CASE p \in Queued(ctx[p].sem) /\ sems[ctx[p].sem].value = 0
    <3> DEFINE j == ctx[p].sem
    <3>1. j \in SemIds
      BY <1>1, <2>1 DEF LockInv, SleepersHalt, FramesTrue, Framed, Fitting, AwayFrom
    <3>2. CASE j # i
      <4>1. sems'[j] = sems[j]
        BY <1>1, <1>6, <3>1, <3>2
      <4>2. Queued(ctx[p].sem)' = Queued(j) /\ sems'[ctx'[p].sem] = sems[j]
        BY <2>1, <4>1 DEF Queued
      <4> QED BY <2>5, <4>2
    <3>3. CASE j = i
      <4>1. sems'[ctx'[p].sem] = e /\ p \in Range(sems[i].blocked) /\ sems[i].blocked \in Seq(Pids)
        BY <1>1, <1>2, <1>6, <2>1, <2>5, <3>3, EntryType DEF LockInv, FramesTrue
      <4>2. Me.seen # 0
        <5>1. SUFFICES ASSUME sems[i].blocked = <<>> PROVE FALSE
          BY <1>4
        <5> QED BY <4>1, <5>1 DEF Range
      <4>3. CASE p = Me.seen
        BY <1>1, <1>7, <1>8, <4>2, <4>3
      <4>4. CASE p # Me.seen
        <5>1. p \in Range(e.blocked)
          BY <1>4, <4>1, <4>2, <4>4, HeadIsPid
        <5>2. Queued(ctx[p].sem)' = Range(e.blocked)
          <6>1. Queued(ctx[p].sem)' = {e.blocked[k] : k \in 1..Len(e.blocked)}
            BY <4>1 DEF Queued
          <6>2. e.blocked \in Seq(Pids)
            BY <1>4 DEF Entries
          <6> QED BY <6>1, <6>2 DEF Range
        <5> QED BY <1>4, <2>5, <3>3, <4>1, <4>2, <5>1, <5>2
      <4> QED BY <4>3, <4>4
    <3> QED BY <3>2, <3>3
  <2> QED BY <2>3, <2>4, <2>5
<1> QED BY <1>11, <1>14, <1>15, <1>16 DEF LockInv

LEMMA QueuedAfter ==
  ASSUME NEW p, NEW e \in Entries, sems'[ctx'[p].sem] = e
  PROVE  Queued(ctx[p].sem)' = Range(e.blocked)
PROOF
<1>1. e.blocked \in Seq(Pids)
  BY DEF Entries
<1> QED BY <1>1 DEF Queued, Range

\* Somebody behind his halt, or on his way to it, has his own semaphore.
LEMMA SleeperOnSemaphore ==
  ASSUME LockInv, NEW p \in Pids, state[p] = "BLOCKED"
  PROVE  p \in Contexts /\ ctx[p].sem \in SemIds /\ p # 0
PROOF
<1>1. p \in Contexts /\ p # 0
  BY SemLockAssumption DEF Pids, Contexts
<1> QED BY <1>1 DEF LockInv, SleepersHalt, FramesTrue, Framed, Fitting, AwayFrom

LEMMA WaitsKeeps ==
  ASSUME LockInv, Waits
  PROVE  LockInv'
PROOF
<1> DEFINE i == Me.sem
           e == Waited(sems[i])
           blocks == sems[i].value = 0 /\ state[current] = "RUNNING"
           g == IF blocks THEN [Me EXCEPT !.at = "halt", !.masked = FALSE] ELSE [Me EXCEPT !.at = "close"]
<1>1. /\ Running \in Contexts /\ Me = ctx[Running] /\ Me \in Frames /\ Fitting(Me)
      /\ Me.at = "wait" /\ FramesTrue /\ sems \in [SemIds -> Entries]
      /\ state \in [Pids -> States] /\ current \in Pids
  BY RunningFrame, TypesKept DEF Waits, Runs
<1>2. i \in SemIds /\ i \in Locks /\ i # Registry /\ sems[i] \in Entries
  BY <1>1, OnSemaphore DEF AwayFrom
<1>3. Me.call = "wait"
  BY <1>1 DEF Fitting, Places, AwayFrom, Posting, Frames
<1>4. Running = current
  BY <1>1, <1>3, WhoRuns
<1>5. /\ e \in Entries /\ e.pid = sems[i].pid /\ e.users = sems[i].users
      /\ sems[i].value = 0 => e.blocked = Append(sems[i].blocked, current) /\ e.value = 0
      /\ sems[i].value # 0 => e.blocked = sems[i].blocked
  BY <1>1, <1>2, WaitedEntry
<1>6. /\ Goes(g) /\ UNCHANGED <<locks, children, current, victims, next_pid>>
      /\ i \notin locks /\ sems' = [sems EXCEPT ![i] = e]
      /\ state' = IF blocks THEN [state EXCEPT ![current] = "BLOCKED"] ELSE state
  BY DEF Waits
<1>7. /\ g.at = (IF blocks THEN "halt" ELSE "close") /\ g.sem = i
      /\ g.call = Me.call /\ g.pid = Me.pid
  BY <1>1 DEF Frames
<1> HIDE DEF e, g
<1>8. ctx'[Running] = g /\ \A c \in Contexts : c # Running => ctx'[c] = ctx[c]
  BY <1>1, <1>6, GoesResult
<1>9. \A p \in Pids : state'[p] = IF blocks /\ p = current THEN "BLOCKED" ELSE state[p]
  BY <1>1, <1>6
<1>10. PidsGivenStill(g) /\ next_pid' \in Nat /\ next_pid' >= next_pid
  BY <1>3, <1>6, <1>7, <1>9, PidsStill
<1>11. FramesTrue'
  BY <1>1, WaitsFrames
<1>12. /\ SameHold(Me, g) /\ g.at \in QuietStops \ {"open"}
       /\ \A l \in Locks : ~Inside(Me, l)
  BY <1>1, <1>2, <1>7 DEF SameHold, BetweenStops, QuietStops, Stops, Inside
<1>13. /\ \A c \in Contexts : c # Running => ~Inside(ctx[c], i)
       /\ \A l \in Locks : l \in locks' <=> l \in locks /\ ~Inside(Me, l)
  BY <1>2, <1>6, <1>12, NobodyElse
<1>14. NamesTrue' /\ PidsGiven' /\ ChildrenTrue' /\ Loaded' /\ OneInside' /\ UsersCounted'
  BY <1>2, <1>3, <1>5, <1>6, <1>7, <1>8, <1>10, <1>11, <1>12, <1>13, EntryStep
<1>15. ASSUME NEW p \in Pids, state'[p] = "BLOCKED", p # Running
       PROVE  p \in Contexts /\ state[p] = "BLOCKED" /\ ctx'[p] = ctx[p]
  <2>1. p \in Contexts
    BY DEF Contexts
  <2> QED BY <1>4, <1>8, <1>9, <1>15, <2>1
<1>16. ASSUME NEW p \in Pids, state'[p] = "BLOCKED", p = Running
       PROVE  blocks /\ ctx'[p] = g
  <2>1. state[p] # "BLOCKED"
    BY <1>1, <1>16, RunningFrame
  <2> QED BY <1>8, <1>9, <1>16, <2>1
<1>17. SleepersHalt'
  <2> SUFFICES ASSUME NEW p \in Pids, state'[p] = "BLOCKED"
               PROVE  ctx'[p].call = "wait" /\ ctx'[p].at = "halt"
    BY DEF SleepersHalt
  <2>1. CASE p = Running
    BY <1>3, <1>7, <1>16, <2>1
  <2>2. CASE p # Running
    BY <1>15, <2>2 DEF LockInv, SleepersHalt
  <2> QED BY <2>1, <2>2
<1>18. SleepersQueued'
  <2> SUFFICES ASSUME NEW p \in Pids, state'[p] = "BLOCKED"
               PROVE  \/ p \in Queued(ctx[p].sem)' /\ sems'[ctx'[p].sem].value = 0
                      \/ \E c \in Contexts : ctx'[c].at \in {"posted", "waking"} /\ ctx'[c].seen = p
    BY DEF SleepersQueued
  <2>1. sems'[i] = e /\ \A j \in SemIds : j # i => sems'[j] = sems[j]
    BY <1>1, <1>2, <1>6
  <2>2. sems[i].blocked \in Seq(Pids) /\ Queued(i) = Range(sems[i].blocked)
    BY <1>1, <1>2, EntryType DEF FramesTrue
  <2>3. sems[i].value = 0 => Range(e.blocked) = Range(sems[i].blocked) \cup {current}
    BY <1>1, <1>5, <2>2, AppendRange
  <2>4. CASE p = Running
    <3>1. blocks /\ sems'[ctx'[p].sem] = e /\ p = current
      BY <1>4, <1>7, <1>16, <2>1, <2>4
    <3> QED BY <1>5, <2>3, <3>1, QueuedAfter
  <2>5. CASE p # Running
    <3>1. p \in Contexts /\ state[p] = "BLOCKED" /\ ctx'[p] = ctx[p] /\ ctx[p].sem \in SemIds
      BY <1>15, <2>5, SleeperOnSemaphore
    <3>2. ~(Runs("remove") /\ Me.pid = p)
      BY <1>1 DEF Runs
    <3>3. \/ p \in Queued(ctx[p].sem) /\ sems[ctx[p].sem].value = 0
          \/ \E c \in Contexts : ctx[c].at \in {"posted", "waking"} /\ ctx[c].seen = p
      BY <3>1, <3>2 DEF LockInv, SleepersQueued
    <3>4. ASSUME NEW c \in Contexts, ctx[c].at \in {"posted", "waking"}, ctx[c].seen = p
          PROVE  ctx'[c].at \in {"posted", "waking"} /\ ctx'[c].seen = p
      BY <1>1, <1>8, <3>4
    <3>5. CASE p \in Queued(ctx[p].sem) /\ sems[ctx[p].sem].value = 0
      <4>1. CASE ctx[p].sem # i
        <5>1. sems'[ctx'[p].sem] = sems[ctx[p].sem]
          BY <2>1, <3>1, <4>1
        <5>2. Queued(ctx[p].sem)' = Queued(ctx[p].sem)
          BY <3>1, <5>1 DEF Queued
        <5> QED BY <3>5, <5>1, <5>2
      <4>2. CASE ctx[p].sem = i
        <5>1. sems'[ctx'[p].sem] = e /\ e.value = 0 /\ p \in Range(e.blocked)
          BY <1>5, <2>1, <2>2, <2>3, <3>1, <3>5, <4>2
        <5> QED BY <1>5, <5>1, QueuedAfter
      <4> QED BY <4>1, <4>2
    <3> QED BY <3>3, <3>4, <3>5
  <2> QED BY <2>4, <2>5
<1> QED BY <1>11, <1>14, <1>17, <1>18 DEF LockInv

LEMMA RemoveKeeps ==
  ASSUME LockInv, NEW i \in SemIds, RemoveFrom(i)
  PROVE  LockInv'
PROOF
<1> DEFINE e == Cleaned(sems[i], Me.pid)
           g == [Me EXCEPT !.seen = i]
<1>1. /\ Running \in Contexts /\ Me = ctx[Running] /\ Me \in Frames /\ Fitting(Me)
      /\ Me.at = "remove" /\ FramesTrue /\ sems \in [SemIds -> Entries]
  BY RunningFrame, TypesKept DEF RemoveFrom, Runs
<1>2. i \in Locks /\ i # Registry
  BY SemLockAssumption DEF Locks, SemIds, Registry
<1>3. Me.call \notin {"none", "create"}
  BY <1>1 DEF Fitting, Places, AwayFrom, Posting, Frames
<1>4. /\ e \in Entries /\ e.pid = sems[i].pid /\ e.users = sems[i].users
      /\ e.value = sems[i].value /\ Range(e.blocked) = Range(sems[i].blocked) \ {Me.pid}
  BY <1>1, CleanedEntry
<1>5. /\ Goes(g) /\ UNCHANGED <<locks, state, children, current, victims, next_pid>>
      /\ i \notin locks /\ sems' = [sems EXCEPT ![i] = e]
  BY DEF RemoveFrom, Cleaned
<1>6. g.at = "remove" /\ g.sem = Me.sem /\ g.call = Me.call /\ g.pid = Me.pid
  BY <1>1 DEF Frames
<1> HIDE DEF e, g
<1>7. ctx'[Running] = g /\ \A c \in Contexts : c # Running => ctx'[c] = ctx[c]
  BY <1>1, <1>5, GoesResult
<1>8. PidsGivenStill(g) /\ next_pid' \in Nat /\ next_pid' >= next_pid
  BY <1>3, <1>5, <1>6, PidsStill
<1>9. FramesTrue'
  BY <1>1, RemoveFrames
<1>10. /\ SameHold(Me, g) /\ g.at \in QuietStops \ {"open"}
       /\ \A l \in Locks : ~Inside(Me, l)
  BY <1>1, <1>2, <1>6 DEF SameHold, BetweenStops, QuietStops, Stops, Inside
<1>11. /\ \A c \in Contexts : c # Running => ~Inside(ctx[c], i)
       /\ \A l \in Locks : l \in locks' <=> l \in locks /\ ~Inside(Me, l)
  BY <1>2, <1>5, <1>10, NobodyElse
<1>12. NamesTrue' /\ PidsGiven' /\ ChildrenTrue' /\ Loaded' /\ OneInside' /\ UsersCounted'
  BY <1>3, <1>4, <1>5, <1>6, <1>7, <1>8, <1>9, <1>10, <1>11, EntryStep
<1>13. SleepersHalt' /\ \A p \in Pids : state'[p] = "BLOCKED" => p \in Contexts /\ p # Running /\ ctx'[p] = ctx[p]
  BY <1>1, <1>5, <1>7, HaltKept DEF LockInv
<1>14. Running' = Running
  <2>1. InUserCode.at = "user"
    BY DEF InUserCode
  <2> QED BY <1>1, <1>5, <1>6, <2>1, GoesOn
<1>15. SleepersQueued'
  <2> SUFFICES ASSUME NEW p \in Pids, state'[p] = "BLOCKED"
               PROVE  \/ p \in Queued(ctx[p].sem)' /\ sems'[ctx'[p].sem].value = 0
                      \/ \E c \in Contexts : ctx'[c].at \in {"posted", "waking"} /\ ctx'[c].seen = p
                      \/ Runs("remove")' /\ Me.pid' = p
    BY DEF SleepersQueued
  <2>1. state[p] = "BLOCKED" /\ ctx'[p] = ctx[p] /\ ctx[p].sem \in SemIds
    BY <1>5, <1>13, SleeperOnSemaphore
  <2>2. CASE p = Me.pid
    BY <1>6, <1>7, <1>14, <2>2 DEF Runs, Me
  <2>3. CASE p # Me.pid
    <3>1. \/ p \in Queued(ctx[p].sem) /\ sems[ctx[p].sem].value = 0
          \/ \E c \in Contexts : ctx[c].at \in {"posted", "waking"} /\ ctx[c].seen = p
      BY <2>1, <2>3 DEF LockInv, SleepersQueued
    <3>2. ASSUME NEW c \in Contexts, ctx[c].at \in {"posted", "waking"}, ctx[c].seen = p
          PROVE  ctx'[c].at \in {"posted", "waking"} /\ ctx'[c].seen = p
      BY <1>1, <1>7, <3>2
    <3>3. CASE p \in Queued(ctx[p].sem) /\ sems[ctx[p].sem].value = 0
      <4>1. CASE ctx[p].sem # i
        <5>1. sems'[ctx'[p].sem] = sems[ctx[p].sem]
          BY <1>1, <1>5, <2>1, <4>1
        <5>2. Queued(ctx[p].sem)' = Queued(ctx[p].sem)
          BY <2>1, <5>1 DEF Queued
        <5> QED BY <3>3, <5>1, <5>2
      <4>2. CASE ctx[p].sem = i
        <5>1. sems'[ctx'[p].sem] = e /\ Queued(i) = Range(sems[i].blocked)
          BY <1>1, <1>5, <2>1, <4>2, EntryType DEF FramesTrue
        <5>2. p \in Range(e.blocked) /\ e.value = 0
          BY <1>4, <2>3, <3>3, <4>2, <5>1
        <5> QED BY <1>4, <5>1, <5>2, QueuedAfter
      <4> QED BY <4>1, <4>2
    <3> QED BY <3>1, <3>2, <3>3
  <2> QED BY <2>2, <2>3
<1> QED BY <1>9, <1>12, <1>13, <1>15 DEF LockInv

-----------------------------------------------------------------------------
(* The users of an entry change, and with them that there is one.          *)

\* Who does not have the CPU has interrupts on, so it is not beginning anything.
LEMMA OthersUnmasked ==
  ASSUME FramesTrue, NEW c \in Contexts, c # Running
  PROVE  /\ ctx[c].call \notin {"create", "kill", "exit"}
         /\ ctx[c].call = "wait" => ctx[c].at \notin {"open", "opening"}
PROOF BY DEF FramesTrue, Framed, Fitting

LEMMA StoreStep ==
  ASSUME LockInv, NEW g, NEW i \in SemIds, NEW e, sems' = [sems EXCEPT ![i] = e],
         ctx'[Running] = g, \A c \in Contexts : c # Running => ctx'[c] = ctx[c],
         Me.at \in {"opening", "closing"}, g.at \in QuietStops \ {"open"}, g.call # "create",
         locks' = locks \ {Registry},
         \A c \in Contexts : c # Running /\ Between(ctx[c], i) =>
           e.blocked = sems[i].blocked /\ e.value = sems[i].value,
         \A p \in Pids : state'[p] = "BLOCKED" => state[p] = "BLOCKED"
  PROVE  /\ Loaded' /\ OneInside' /\ SleepersHalt' /\ SleepersQueued'
         /\ \A c \in Contexts : /\ ctx'[c].call # "create"
                                /\ ctx'[c].call = "wait" => ctx'[c].at \notin {"open", "opening"}
PROOF
<1>1. /\ Running \in Contexts /\ Me = ctx[Running] /\ FramesTrue
      /\ sems \in [SemIds -> Entries] /\ Me.sem # Registry /\ Registry \in Locks
  BY RunningFrame, TypesKept, OnSemaphore DEF LockInv, AwayFrom, Locks
<1>2. sems'[i] = e /\ \A j \in SemIds : j # i => sems'[j] = sems[j]
  BY <1>1
<1>3. \A l \in Locks : (Inside(Me, l) <=> l = Registry) /\ ~Inside(g, l)
  BY <1>1 DEF Inside, QuietStops
<1>4. \A c \in Contexts : c # Running => ctx[c].at \notin {"opening", "closing"}
  BY <1>1, <1>3, NobodyElse DEF Inside
<1>5. Loaded'
  <2> SUFFICES ASSUME NEW c \in Contexts
               PROVE  /\ ctx'[c].at \notin {"opening", "closing"}
                      /\ ctx'[c].at = "posted"  => PostLoaded(ctx[c])'
    BY DEF Loaded
  <2>1. CASE c = Running
    BY <2>1 DEF QuietStops
  <2>2. CASE c # Running
    <3>1. ctx'[c] = ctx[c] /\ (ctx[c].at = "posted" => ctx[c].sem \in SemIds)
      BY <1>1, <2>2 DEF FramesTrue, Framed, Fitting, AwayFrom
    <3>2. ctx[c].at = "posted" => sems'[ctx[c].sem].blocked = sems[ctx[c].sem].blocked
      BY <1>2, <2>2, <3>1 DEF Between
    <3>3. ctx'[c].at = "posted" => PostLoaded(ctx[c])'
      BY <3>1, <3>2 DEF LockInv, Loaded, PostLoaded
    <3> QED BY <1>4, <2>2, <3>1, <3>3
  <2> QED BY <2>1, <2>2
<1>6. OneInside'
  BY <1>1, <1>3, LocksKept DEF LockInv
<1>7. SleepersHalt' /\ \A p \in Pids : state'[p] = "BLOCKED" => p \in Contexts /\ p # Running /\ ctx'[p] = ctx[p]
  BY <1>1, HaltKept DEF LockInv
<1>8. SleepersQueued'
  <2> SUFFICES ASSUME NEW p \in Pids, state'[p] = "BLOCKED"
               PROVE  \/ p \in Queued(ctx[p].sem)' /\ sems'[ctx'[p].sem].value = 0
                      \/ \E c \in Contexts : ctx'[c].at \in {"posted", "waking"} /\ ctx'[c].seen = p
    BY DEF SleepersQueued
  <2>1. state[p] = "BLOCKED" /\ ctx'[p] = ctx[p] /\ p # Running /\ p \in Contexts /\ ctx[p].sem \in SemIds
    BY <1>7, SleeperOnSemaphore
  <2>2. \/ p \in Queued(ctx[p].sem) /\ sems[ctx[p].sem].value = 0
        \/ \E c \in Contexts : ctx[c].at \in {"posted", "waking"} /\ ctx[c].seen = p
    <3>1. ~(Runs("remove") /\ Me.pid = p)
      BY DEF Runs
    <3> QED BY <2>1, <3>1 DEF LockInv, SleepersQueued
  <2>3. ASSUME NEW c \in Contexts, ctx[c].at \in {"posted", "waking"}, ctx[c].seen = p
        PROVE  ctx'[c].at \in {"posted", "waking"} /\ ctx'[c].seen = p
    BY <1>1, <2>3
  <2>4. CASE p \in Queued(ctx[p].sem) /\ sems[ctx[p].sem].value = 0
    <3>1. Between(ctx[p], ctx[p].sem)
      BY <2>1 DEF LockInv, SleepersHalt, Between
    <3>2. /\ sems'[ctx'[p].sem].blocked = sems[ctx[p].sem].blocked
          /\ sems'[ctx'[p].sem].value = sems[ctx[p].sem].value
      BY <1>2, <2>1, <3>1
    <3>3. Queued(ctx[p].sem)' = Queued(ctx[p].sem)
      BY <3>2 DEF Queued
    <3> QED BY <2>4, <3>2, <3>3
  <2> QED BY <2>2, <2>3, <2>4
<1>9. \A c \in Contexts : /\ ctx'[c].call # "create"
                          /\ ctx'[c].call = "wait" => ctx'[c].at \notin {"open", "opening"}
  BY <1>1, OthersUnmasked DEF QuietStops
<1> QED BY <1>5, <1>6, <1>7, <1>8, <1>9

Kinds == {"opened", "waits", "parent"}
LEMMA PairsEqual ==
  ASSUME NEW S \in SUBSET (Contexts \X Kinds), NEW T \in SUBSET (Contexts \X Kinds),
         \A c \in Contexts : \A k \in Kinds : <<c, k>> \in S <=> <<c, k>> \in T
  PROVE  S = T
PROOF OBVIOUS

\* How the users of an entry are counted after its references have changed.
LEMMA CountsStored ==
  ASSUME UsersCounted, NEW i \in SemIds, NEW e, sems' = [sems EXCEPT ![i] = e],
         sems \in [SemIds -> Entries], e.users = Cardinality(References(i)'),
         \A j \in SemIds : j # i => References(j)' = References(j)
  PROVE  UsersCounted'
PROOF
<1>1. sems'[i] = e /\ \A j \in SemIds : j # i => sems'[j] = sems[j]
  OBVIOUS
<1> SUFFICES ASSUME NEW j \in SemIds PROVE sems'[j].users = Cardinality(References(j)')
  BY DEF UsersCounted
<1>2. CASE j = i
  BY <1>1, <1>2
<1>3. CASE j # i
  BY <1>1, <1>3 DEF UsersCounted
<1> QED BY <1>2, <1>3

LEMMA ReferencesAfter ==
  ASSUME NEW i \in SemIds
  PROVE  /\ \A c \in Contexts : <<c, "opened">> \in References(i)' <=> Opened(ctx'[c], i)
         /\ \A c \in Contexts : <<c, "waits">> \in References(i)' <=> WaitsOn(ctx'[c], i)
         /\ \A c \in Contexts : <<c, "parent">> \in References(i)' <=> sems'[i].pid \in children'[c]
         /\ References(i)' \subseteq Contexts \X {"opened", "waits", "parent"}
PROOF BY DEF References, Opened, WaitsOn, Between

\* The references to an entry that the step is not about.
LEMMA OtherReferences ==
  ASSUME NEW j \in SemIds, sems'[j].pid = sems[j].pid, Running \in Contexts,
         \A c \in Contexts : c # Running => ctx'[c] = ctx[c],
         ~Between(ctx[Running], j), ~Between(ctx'[Running], j),
         \A c \in Contexts : sems[j].pid \in children'[c] <=> sems[j].pid \in children[c]
  PROVE  References(j)' = References(j)
PROOF
<1>1. \A c \in Contexts : /\ Opened(ctx'[c], j) <=> Opened(ctx[c], j)
                          /\ WaitsOn(ctx'[c], j) <=> WaitsOn(ctx[c], j)
  BY DEF Opened, WaitsOn
<1>2. \A c \in Contexts : \A k \in Kinds : <<c, k>> \in References(j)' <=> <<c, k>> \in References(j)
  BY <1>1, ReferencesAre, ReferencesAfter DEF Kinds
<1>3. References(j) \in SUBSET (Contexts \X Kinds) /\ References(j)' \in SUBSET (Contexts \X Kinds)
  BY ReferencesAre, ReferencesAfter DEF Kinds
<1> QED BY <1>2, <1>3, PairsEqual

LEMMA OneMore ==
  ASSUME NEW S, NEW x, IsFiniteSet(S), x \notin S
  PROVE  IsFiniteSet(S \cup {x}) /\ Cardinality(S \cup {x}) = Cardinality(S) + 1
PROOF BY FS_AddElement

LEMMA OneLess ==
  ASSUME NEW S, NEW x \in S, IsFiniteSet(S)
  PROVE  IsFiniteSet(S \ {x}) /\ Cardinality(S \ {x}) = Cardinality(S) - 1
PROOF BY FS_RemoveElement

LEMMA OpenStoresAt ==
  ASSUME LockInv, OpenStores, NEW i, i = Me.sem
  PROVE  LockInv'
PROOF
<1> DEFINE p == Me.pid
           new == Me.seen = 0
           e == IF new THEN Fresh(p) ELSE [sems[i] EXCEPT !.users = Me.seen + 1]
           g == IF Me.call = "create" THEN InUserCode
                ELSE [Me EXCEPT !.at = IF Me.call = "wait" THEN "wait" ELSE "post"]
           R == References(i)
<1>1. /\ Running \in Contexts /\ Me = ctx[Running] /\ Me \in Frames /\ Fitting(Me) /\ FramesTrue
      /\ Me.at = "opening" /\ sems \in [SemIds -> Entries] /\ children \in [Contexts -> SUBSET Pids]
  BY RunningFrame, TypesKept DEF OpenStores, Runs
<1>2. /\ i \in SemIds /\ i \in Locks /\ i # Registry /\ sems[i] \in Entries /\ p \in Pids
      /\ Me.seen \in Nat /\ 0 \notin Pids
  BY <1>1, OnSemaphore, FrameType, SemLockAssumption DEF AwayFrom, Pids
<1>3. Me.call \in {"create", "wait", "kill", "exit", "return"}
  BY <1>1 DEF Fitting, Places, AwayFrom, Frames
<1>4. OpenLoaded(Me)
  BY <1>1 DEF LockInv, Loaded
<1>5. /\ e.pid = p /\ e.users = sems[i].users + 1
      /\ ~new => e.blocked = sems[i].blocked /\ e.value = sems[i].value
  <2>1. CASE new
    BY <1>2, <1>4, <2>1, FreshTrue DEF OpenLoaded
  <2>2. CASE ~new
    BY <1>2, <1>4, <2>2 DEF OpenLoaded, Entries
  <2> QED BY <2>1, <2>2
<1>6. /\ Goes(g) /\ UNCHANGED <<state, current, victims, next_pid>>
      /\ locks' = locks \ (IF new THEN {Registry, i} ELSE {Registry})
      /\ sems' = [sems EXCEPT ![i] = e]
      /\ children' = [children EXCEPT ![Running] = IF Me.call = "create" THEN children[Running] \cup {p}
                        ELSE IF Me.call = "wait" THEN children[Running] \ {p} ELSE children[Running]]
  BY <1>1 DEF OpenStores
<1>7. /\ Me.call = "create" => g = InUserCode /\ g.at = "user" /\ g.call = "none"
      /\ Me.call # "create" => /\ g.at = (IF Me.call = "wait" THEN "wait" ELSE "post")
                               /\ g.call = Me.call /\ g.sem = i /\ g.pid = p
  <2>1. InUserCode.at = "user" /\ InUserCode.call = "none"
    BY DEF InUserCode
  <2> QED BY <1>1, <2>1 DEF Frames
<1> HIDE DEF e, g
<1>8. ctx'[Running] = g /\ \A c \in Contexts : c # Running => ctx'[c] = ctx[c]
  BY <1>1, <1>6, GoesResult
<1>9. sems'[i] = e /\ \A j \in SemIds : j # i => sems'[j] = sems[j]
  BY <1>1, <1>2, <1>6
<1>10. /\ sems[i].pid = IF new THEN 0 ELSE p
       /\ new <=> Named(p) = {}
       /\ new <=> R = {}
       /\ \A j \in SemIds : j # i => sems[j].pid # p
  <2>1. sems[i].pid = IF new THEN 0 ELSE p
    BY <1>4 DEF OpenLoaded
  <2>2. new <=> Named(p) = {}
    BY <1>2, <1>4 DEF OpenLoaded, Named
  <2>3. new <=> R = {}
    BY <1>2, <1>4, FewUsers DEF OpenLoaded, LockInv
  <2>4. \A j \in SemIds : j # i => sems[j].pid # p
    BY <1>2, <2>1, <2>2 DEF Named, LockInv, NamesTrue
  <2> QED BY <2>1, <2>2, <2>3, <2>4
<1>11. FramesTrue'
  BY <1>1, OpenStoresFrames
<1>12. ~Between(Me, i) /\ (\A j \in SemIds : ~Between(Me, j))
  BY <1>1, <1>2 DEF Between
<1>13. /\ Loaded' /\ OneInside' /\ SleepersHalt' /\ SleepersQueued'
       /\ \A c \in Contexts : /\ ctx'[c].call # "create"
                              /\ ctx'[c].call = "wait" => ctx'[c].at \notin {"open", "opening"}
  <2>1. \A c \in Contexts : new => ~Between(ctx[c], i)
    BY <1>2, <1>10, ReferencesAre DEF Opened, WaitsOn
  <2>2. locks' = locks \ {Registry}
    <3>1. new => i \notin locks
      <4>1. \A c \in Contexts : new => ~Inside(ctx[c], i)
        BY <1>2, <2>1 DEF Inside, Between
      <4> QED BY <1>2, <4>1, HoldsInside DEF LockInv, OneInside
    <3> QED BY <1>6, <3>1
  <2>3. g.at \in QuietStops \ {"open"} /\ g.call # "create"
    BY <1>3, <1>7 DEF QuietStops, Stops
  <2>4. \A c \in Contexts : c # Running /\ Between(ctx[c], i) =>
          e.blocked = sems[i].blocked /\ e.value = sems[i].value
    BY <1>5, <2>1
  <2> QED BY <1>1, <1>2, <1>6, <1>8, <2>2, <2>3, <2>4, StoreStep
<1>14. NamesTrue'
  <2>1. p < next_pid
    BY <1>1, <1>3 DEF LockInv, PidsGiven
  <2>2. \A j \in SemIds : sems'[j].pid = (IF j = i THEN p ELSE sems[j].pid)
    BY <1>5, <1>9
  <2>3. \A j, k \in SemIds : sems'[j].pid = sems'[k].pid /\ sems'[j].pid # 0 => j = k
    BY <1>10, <2>2 DEF LockInv, NamesTrue
  <2>4. e.users # 0 /\ p # 0
    BY <1>2, <1>5 DEF Entries
  <2>5. \A j \in SemIds : (sems'[j].pid = 0 <=> sems'[j].users = 0) /\ sems'[j].pid < next_pid'
    BY <1>5, <1>6, <1>9, <2>1, <2>4 DEF LockInv, NamesTrue
  <2> QED BY <2>3, <2>5 DEF NamesTrue
<1>15. PidsGiven'
  <2>1. g.call # "none" => g.pid = Me.pid /\ Me.call # "none"
    BY <1>3, <1>7
  <2>2. PidsGivenStill(g) /\ next_pid' \in Nat /\ next_pid' >= next_pid
    BY <1>6, <2>1, PidsStill
  <2> QED BY <1>1, <1>8, <2>2, PidsKept DEF LockInv
<1>16. ChildrenTrue'
  <2>1. ASSUME NEW c \in Contexts, NEW q \in children'[c] PROVE Named(q)' # {}
    <3>1. q = p \/ q \in children[c]
      BY <1>1, <1>6
    <3>2. CASE q = p
      <4>1. sems'[i].pid = q
        BY <1>5, <1>9, <3>2
      <4> QED BY <1>2, <4>1 DEF Named
    <3>3. CASE q # p /\ q \in children[c]
      <4>1. q \in Pids /\ Named(q) # {}
        BY <1>1, <3>3 DEF LockInv, ChildrenTrue
      <4>2. PICK j \in SemIds : sems[j].pid = q
        BY <4>1 DEF Named
      <4>3. j # i /\ sems'[j].pid = q
        BY <1>2, <1>9, <1>10, <3>3, <4>1, <4>2
      <4> QED BY <4>3 DEF Named
    <3> QED BY <3>1, <3>2, <3>3
  <2> QED BY <1>13, <2>1 DEF ChildrenTrue
<1>17. UsersCounted'
  <2>1. \A j \in SemIds : j # i => References(j)' = References(j)
    <3> SUFFICES ASSUME NEW j \in SemIds, j # i PROVE References(j)' = References(j)
      OBVIOUS
    <3>1. sems'[j].pid = sems[j].pid /\ sems[j].pid # p
      BY <1>9, <1>10
    <3>2. \A c \in Contexts : sems[j].pid \in children'[c] <=> sems[j].pid \in children[c]
      BY <1>1, <1>6, <3>1
    <3>3. ~Between(ctx'[Running], j)
      BY <1>7, <1>8 DEF Between
    <3> QED BY <1>1, <1>8, <1>12, <3>1, <3>2, <3>3, OtherReferences
  <2>2. /\ \A c \in Contexts : c # Running => /\ Opened(ctx'[c], i) <=> Opened(ctx[c], i)
                                              /\ WaitsOn(ctx'[c], i) <=> WaitsOn(ctx[c], i)
        /\ ~Opened(ctx[Running], i) /\ ~WaitsOn(ctx[Running], i)
        /\ sems'[i].pid = p
    BY <1>1, <1>5, <1>8, <1>9, <1>12 DEF Opened, WaitsOn
  <2>3. /\ IsFiniteSet(R) /\ Cardinality(R) = sems[i].users /\ Cardinality(R) \in Nat
        /\ R \in SUBSET (Contexts \X Kinds) /\ R' \in SUBSET (Contexts \X Kinds)
    BY <1>2, ReferencesFinite, ReferencesAre, ReferencesAfter, FS_CardinalityType
    DEF LockInv, UsersCounted, Kinds
  <2>4. /\ \A c \in Contexts : new => p \notin children[c]
        /\ ~new => \A c \in Contexts : <<c, "parent">> \in R <=> p \in children[c]
    <3>1. \A c \in Contexts : new => p \notin children[c]
      BY <1>10, NotAChild DEF LockInv
    <3>2. ~new => \A c \in Contexts : <<c, "parent">> \in R <=> p \in children[c]
      BY <1>2, <1>10, ReferencesAre
    <3> QED BY <3>1, <3>2
  <2>5. \A c \in Contexts : <<c, "parent">> \in R <=> p \in children[c]
    BY <1>10, <2>4
  <2>6. Cardinality(R') = Cardinality(R) + 1
    <3>1. CASE Me.call = "create"
      <4>1. new /\ R = {}
        BY <1>1, <1>10, <3>1 DEF LockInv, ChildrenTrue
      <4>2. \A c \in Contexts : p \in children'[c] <=> c = Running
        BY <1>1, <1>6, <2>4, <3>1, <4>1
      <4>3. ~Opened(ctx'[Running], i) /\ ~WaitsOn(ctx'[Running], i)
        BY <1>7, <1>8, <3>1 DEF Opened, WaitsOn, Between
      <4>4. \A c \in Contexts : ~Opened(ctx'[c], i) /\ ~WaitsOn(ctx'[c], i)
        BY <1>2, <2>2, <4>1, <4>3, ReferencesAre
      <4>5. \A c \in Contexts : \A k \in Kinds :
              <<c, k>> \in R' <=> <<c, k>> \in R \cup {<<Running, "parent">>}
        BY <1>2, <2>2, <4>1, <4>2, <4>4, ReferencesAfter DEF Kinds
      <4>6. R \cup {<<Running, "parent">>} \in SUBSET (Contexts \X Kinds)
        BY <1>1, <2>3 DEF Kinds
      <4>7. R' = R \cup {<<Running, "parent">>}
        BY <2>3, <4>5, <4>6, PairsEqual
      <4>8. <<Running, "parent">> \notin R
        BY <4>1
      <4>9. Cardinality(R \cup {<<Running, "parent">>}) = Cardinality(R) + 1
        BY <2>3, <4>8, OneMore
      <4> QED BY <4>7, <4>9
    <3>2. CASE Me.call = "wait"
      <4>1. p \in children[Running]
        BY <1>1, <3>2 DEF LockInv, ChildrenTrue
      <4> DEFINE a == <<Running, "parent">>
                 b == <<Running, "opened">>
                 d == <<Running, "waits">>
                 T == ((R \ {a}) \cup {b}) \cup {d}
      <4>2. a \in R /\ b \notin R /\ d \notin R
        BY <1>1, <1>2, <2>2, <2>5, <4>1, ReferencesAre
      <4>3. \A c \in Contexts : p \in children'[c] <=> p \in children[c] /\ c # Running
        BY <1>1, <1>6, <3>2
      <4>4. Opened(ctx'[Running], i) /\ WaitsOn(ctx'[Running], i)
        BY <1>7, <1>8, <3>2 DEF Opened, WaitsOn, Between
      <4>5. \A c \in Contexts : \A k \in Kinds : <<c, k>> \in R' <=> <<c, k>> \in T
        <5> SUFFICES ASSUME NEW c \in Contexts
                     PROVE  /\ <<c, "opened">> \in R' <=> <<c, "opened">> \in T
                            /\ <<c, "waits">> \in R' <=> <<c, "waits">> \in T
                            /\ <<c, "parent">> \in R' <=> <<c, "parent">> \in T
          BY DEF Kinds
        <5>1. /\ <<c, "opened">> \in R' <=> Opened(ctx'[c], i)
              /\ <<c, "waits">> \in R' <=> WaitsOn(ctx'[c], i)
              /\ <<c, "parent">> \in R' <=> p \in children'[c]
              /\ <<c, "opened">> \in R <=> Opened(ctx[c], i)
              /\ <<c, "waits">> \in R <=> WaitsOn(ctx[c], i)
              /\ <<c, "parent">> \in R <=> p \in children[c]
          BY <1>2, <2>2, <2>5, ReferencesAre, ReferencesAfter
        <5> QED BY <2>2, <4>3, <4>4, <5>1
      <4>6. T \in SUBSET (Contexts \X Kinds)
        BY <1>1, <2>3 DEF Kinds
      <4>7. R' = T
        BY <2>3, <4>5, <4>6, PairsEqual
      <4>8. IsFiniteSet(R \ {a}) /\ Cardinality(R \ {a}) = Cardinality(R) - 1
        BY <2>3, <4>2, OneLess
      <4>9. IsFiniteSet((R \ {a}) \cup {b}) /\ Cardinality((R \ {a}) \cup {b}) = Cardinality(R)
        <5>1. b \notin R \ {a}
          BY <4>2
        <5>2. Cardinality(R) - 1 + 1 = Cardinality(R)
          BY <2>3
        <5> HIDE DEF b
        <5> QED BY <4>8, <5>1, <5>2, OneMore
      <4>10. Cardinality(T) = Cardinality(R) + 1
        <5>1. d \notin (R \ {a}) \cup {b}
          BY <4>2
        <5> HIDE DEF b, d
        <5> QED BY <4>9, <5>1, OneMore
      <4> QED BY <4>7, <4>10
    <3>3. CASE Me.call \in {"kill", "exit", "return"}
      <4> DEFINE b == <<Running, "opened">>
      <4>1. b \notin R
        BY <1>1, <1>2, <2>2, ReferencesAre
      <4>2. \A c \in Contexts : p \in children'[c] <=> p \in children[c]
        BY <1>1, <1>6, <3>3
      <4>3. Opened(ctx'[Running], i) /\ ~WaitsOn(ctx'[Running], i)
        BY <1>7, <1>8, <3>3 DEF Opened, WaitsOn, Between
      <4>4. \A c \in Contexts : \A k \in Kinds : <<c, k>> \in R' <=> <<c, k>> \in R \cup {b}
        <5> SUFFICES ASSUME NEW c \in Contexts
                     PROVE  /\ <<c, "opened">> \in R' <=> <<c, "opened">> \in R \cup {b}
                            /\ <<c, "waits">> \in R' <=> <<c, "waits">> \in R \cup {b}
                            /\ <<c, "parent">> \in R' <=> <<c, "parent">> \in R \cup {b}
          BY DEF Kinds
        <5>1. /\ <<c, "opened">> \in R' <=> Opened(ctx'[c], i)
              /\ <<c, "waits">> \in R' <=> WaitsOn(ctx'[c], i)
              /\ <<c, "parent">> \in R' <=> p \in children'[c]
              /\ <<c, "opened">> \in R <=> Opened(ctx[c], i)
              /\ <<c, "waits">> \in R <=> WaitsOn(ctx[c], i)
              /\ <<c, "parent">> \in R <=> p \in children[c]
          BY <1>2, <2>2, <2>5, ReferencesAre, ReferencesAfter
        <5> QED BY <2>2, <4>2, <4>3, <5>1
      <4>5. R \cup {b} \in SUBSET (Contexts \X Kinds)
        BY <1>1, <2>3 DEF Kinds
      <4>6. R' = R \cup {b}
        BY <2>3, <4>4, <4>5, PairsEqual
      <4> QED BY <2>3, <4>1, <4>6, OneMore
    <3> QED BY <1>3, <3>1, <3>2, <3>3
  <2>7. e.users = Cardinality(References(i)')
    BY <1>5, <2>3, <2>6
  <2> QED BY <1>1, <1>2, <1>6, <2>1, <2>7, CountsStored DEF LockInv
<1> QED BY <1>11, <1>13, <1>14, <1>15, <1>16, <1>17 DEF LockInv

LEMMA OpenStoresKeeps ==
  ASSUME LockInv, OpenStores
  PROVE  LockInv'
PROOF
<1>1. PICK i : i = Me.sem
  OBVIOUS
<1> QED BY <1>1, OpenStoresAt

LEMMA CloseStoresAt ==
  ASSUME LockInv, CloseStores, NEW i, i = Me.sem
  PROVE  LockInv'
PROOF
<1> DEFINE last == Me.seen = 1
           e == IF last THEN NoEntry ELSE [sems[i] EXCEPT !.users = Me.seen - 1]
           g == AfterClose
           R == References(i)
           x == IF Me.call = "waited" THEN <<Running, "waits">> ELSE <<Running, "opened">>
<1>1. /\ Running \in Contexts /\ Me = ctx[Running] /\ Me \in Frames /\ Fitting(Me) /\ FramesTrue
      /\ Me.at = "closing" /\ sems \in [SemIds -> Entries] /\ children \in [Contexts -> SUBSET Pids]
  BY RunningFrame, TypesKept DEF CloseStores, Runs
<1>2. /\ i \in SemIds /\ sems[i] \in Entries /\ Me.seen \in Nat /\ 0 \notin Pids
  BY <1>1, OnSemaphore, FrameType, SemLockAssumption DEF AwayFrom, Pids
<1>3. Me.call \in {"wait", "waited", "kill", "exit", "return"}
  BY <1>1 DEF Fitting, Places, AwayFrom, Frames
<1>4. Me.seen = sems[i].users
  BY <1>1 DEF LockInv, Loaded, CloseLoaded
<1>5. Between(ctx[Running], i)
  BY <1>1 DEF Between
<1>6. /\ R \in SUBSET (Contexts \X Kinds) /\ x \in R /\ IsFiniteSet(R)
      /\ Me.call = "wait" => <<Running, "waits">> \in R
      /\ Me.seen # 0 /\ Cardinality(R) = sems[i].users /\ (last => R = {x})
  <2>1. R \in SUBSET (Contexts \X Kinds) /\ x \in R /\ IsFiniteSet(R)
        /\ (Me.call = "wait" => <<Running, "waits">> \in R)
    BY <1>1, <1>2, <1>5, ReferencesAre, ReferencesFinite DEF Opened, WaitsOn, Kinds
  <2>2. Me.seen # 0 /\ (last => R = {x})
    BY <1>2, <1>4, <2>1, FewUsers DEF LockInv
  <2> QED BY <1>2, <2>1, <2>2 DEF LockInv, UsersCounted
<1>7. e.users = sems[i].users - 1 /\ e.pid = (IF last THEN 0 ELSE sems[i].pid)
      /\ (~last => e.blocked = sems[i].blocked /\ e.value = sems[i].value)
  <2>1. CASE last
    BY <1>4, <2>1, NoEntryTrue
  <2>2. CASE ~last
    BY <1>2, <1>4, <2>2 DEF Entries
  <2> QED BY <2>1, <2>2
<1>8. /\ Goes(g) /\ UNCHANGED <<children, current, victims, next_pid>>
      /\ locks' = locks \ {Registry}
      /\ sems' = [sems EXCEPT ![i] = e]
      /\ state' = IF last THEN Awakened(Queued(i)) ELSE state
  BY <1>2, <1>6 DEF CloseStores
<1>9. /\ Me.call = "wait" => g.call = "waited" /\ g.at = "close" /\ g.sem = i /\ g.pid = Me.pid
      /\ Me.call = "waited" => g.call = "none" /\ g.at = "user"
      /\ Me.call \in {"kill", "exit", "return"} =>
           g.call = Me.call /\ g.at \in {"remove", "die"} /\ g.pid = Me.pid
  <2>1. InUserCode.at = "user" /\ InUserCode.call = "none"
    BY DEF InUserCode
  <2> QED BY <1>1, <2>1 DEF AfterClose, Frames
<1> HIDE DEF e, g
<1>10. ctx'[Running] = g /\ \A c \in Contexts : c # Running => ctx'[c] = ctx[c]
  BY <1>1, <1>8, GoesResult
<1>11. sems'[i] = e /\ \A j \in SemIds : j # i => sems'[j] = sems[j]
  BY <1>1, <1>2, <1>8
<1>12. FramesTrue'
  BY <1>1, CloseStoresFrames
<1>13. /\ \A p \in Pids : state'[p] = "BLOCKED" => state[p] = "BLOCKED"
       /\ \A p \in Pids : state'[p] # "none" => state[p] # "none"
  BY <1>1, <1>8 DEF Awakened
<1>14. last => /\ \A c \in Contexts : c # Running => ~Between(ctx[c], i)
               /\ \A c \in Contexts : sems[i].pid \notin children[c]
  <2>1. ASSUME last, NEW c \in Contexts, c # Running, Between(ctx[c], i) PROVE FALSE
    <3>1. <<c, "opened">> \in R \/ <<c, "waits">> \in R
      BY <1>2, <2>1, ReferencesAre DEF Opened, WaitsOn
    <3> QED BY <1>6, <2>1, <3>1
  <2>2. ASSUME last, NEW c \in Contexts, sems[i].pid \in children[c] PROVE FALSE
    <3>1. <<c, "parent">> \in R
      BY <1>2, <2>2, ReferencesAre
    <3> QED BY <1>6, <2>2, <3>1
  <2> QED BY <2>1, <2>2
<1>15. /\ Loaded' /\ OneInside' /\ SleepersHalt' /\ SleepersQueued'
       /\ \A c \in Contexts : /\ ctx'[c].call # "create"
                              /\ ctx'[c].call = "wait" => ctx'[c].at \notin {"open", "opening"}
  <2>1. g.at \in QuietStops \ {"open"} /\ g.call # "create"
    BY <1>3, <1>9 DEF QuietStops, Stops
  <2>2. \A c \in Contexts : c # Running /\ Between(ctx[c], i) =>
          e.blocked = sems[i].blocked /\ e.value = sems[i].value
    BY <1>7, <1>14
  <2> QED BY <1>1, <1>2, <1>8, <1>10, <1>13, <2>1, <2>2, StoreStep
<1>16. NamesTrue'
  <2>1. \A j \in SemIds : sems'[j].pid = (IF j = i /\ last THEN 0 ELSE sems[j].pid)
    BY <1>7, <1>11
  <2>2. \A j, k \in SemIds : sems'[j].pid = sems'[k].pid /\ sems'[j].pid # 0 => j = k
    BY <2>1 DEF LockInv, NamesTrue
  <2>3. (e.pid = 0 <=> e.users = 0) /\ e.pid < next_pid
    <3>1. sems[i].users # 0 /\ sems[i].pid # 0 /\ sems[i].pid < next_pid /\ sems[i].users \in Nat
      BY <1>2, <1>4, <1>6 DEF LockInv, NamesTrue
    <3>2. next_pid \in Nat /\ 0 < next_pid
      BY <1>1, TypesKept, SemLockAssumption
    <3> QED BY <1>4, <1>7, <3>1, <3>2
  <2>4. \A j \in SemIds : (sems'[j].pid = 0 <=> sems'[j].users = 0) /\ sems'[j].pid < next_pid'
    BY <1>8, <1>11, <2>3 DEF LockInv, NamesTrue
  <2> QED BY <2>2, <2>4 DEF NamesTrue
<1>17. PidsGiven'
  <2>1. g.call # "none" => g.pid = Me.pid /\ Me.call # "none"
    BY <1>3, <1>9
  <2>2. PidsGivenStill(g) /\ next_pid' \in Nat /\ next_pid' >= next_pid
    BY <1>8, <1>13, <2>1, PidsStill
  <2> QED BY <1>1, <1>10, <2>2, PidsKept DEF LockInv
<1>18. ChildrenTrue'
  <2>1. ASSUME NEW c \in Contexts, NEW q \in children'[c] PROVE Named(q)' # {}
    <3>1. q \in children[c]
      BY <1>8
    <3>2. PICK j \in SemIds : sems[j].pid = q
      BY <3>1 DEF LockInv, ChildrenTrue, Named
    <3>3. sems'[j].pid = q
      BY <1>7, <1>11, <1>14, <3>1, <3>2
    <3> QED BY <3>3 DEF Named
  <2> QED BY <1>15, <2>1 DEF ChildrenTrue
<1>19. UsersCounted'
  <2>1. \A j \in SemIds : j # i => References(j)' = References(j)
    <3> SUFFICES ASSUME NEW j \in SemIds, j # i PROVE References(j)' = References(j)
      OBVIOUS
    <3>1. sems'[j].pid = sems[j].pid
      BY <1>11
    <3>2. ~Between(ctx[Running], j)
      BY <1>1 DEF Between
    <3>3. ~Between(ctx'[Running], j)
      BY <1>3, <1>9, <1>10 DEF Between
    <3> QED BY <1>1, <1>8, <1>10, <3>1, <3>2, <3>3, OtherReferences
  <2>2. R' \in SUBSET (Contexts \X Kinds)
    BY <1>2, ReferencesAfter DEF Kinds
  <2>3. ASSUME NEW c \in Contexts
        PROVE  /\ <<c, "opened">> \in R' <=> <<c, "opened">> \in R \ {x}
               /\ <<c, "waits">> \in R' <=> <<c, "waits">> \in R \ {x}
               /\ <<c, "parent">> \in R' <=> <<c, "parent">> \in R \ {x}
    <3>1. /\ <<c, "opened">> \in R' <=> Opened(ctx'[c], i)
          /\ <<c, "waits">> \in R' <=> WaitsOn(ctx'[c], i)
          /\ <<c, "parent">> \in R' <=> e.pid \in children[c]
          /\ <<c, "opened">> \in R <=> Opened(ctx[c], i)
          /\ <<c, "waits">> \in R <=> WaitsOn(ctx[c], i)
          /\ <<c, "parent">> \in R <=> sems[i].pid \in children[c]
      BY <1>2, <1>8, <1>11, ReferencesAre, ReferencesAfter
    <3>2. e.pid \in children[c] <=> sems[i].pid \in children[c]
      BY <1>1, <1>2, <1>7, <1>14
    <3>3. CASE c # Running
      BY <1>10, <3>1, <3>2, <3>3 DEF Opened, WaitsOn
    <3>4. CASE c = Running
      <4>1. CASE Me.call = "wait"
        <5>1. /\ ~Opened(ctx'[c], i) /\ WaitsOn(ctx'[c], i)
              /\ Opened(ctx[c], i) /\ WaitsOn(ctx[c], i)
          BY <1>1, <1>5, <1>9, <1>10, <3>4, <4>1 DEF Opened, WaitsOn, Between
        <5>2. x = <<c, "opened">>
          BY <3>4, <4>1
        <5> HIDE DEF x
        <5> QED BY <3>1, <3>2, <5>1, <5>2
      <4>2. CASE Me.call = "waited"
        <5>1. /\ ~Opened(ctx'[c], i) /\ ~WaitsOn(ctx'[c], i)
              /\ ~Opened(ctx[c], i) /\ WaitsOn(ctx[c], i)
          BY <1>1, <1>5, <1>9, <1>10, <3>4, <4>2 DEF Opened, WaitsOn, Between
        <5>2. x = <<c, "waits">>
          BY <3>4, <4>2
        <5> HIDE DEF x
        <5> QED BY <3>1, <3>2, <5>1, <5>2
      <4>3. CASE Me.call \in {"kill", "exit", "return"}
        <5>1. /\ ~Opened(ctx'[c], i) /\ ~WaitsOn(ctx'[c], i)
              /\ Opened(ctx[c], i) /\ ~WaitsOn(ctx[c], i)
          BY <1>1, <1>5, <1>9, <1>10, <3>4, <4>3 DEF Opened, WaitsOn, Between
        <5>2. x = <<c, "opened">>
          BY <3>4, <4>3
        <5> HIDE DEF x
        <5> QED BY <3>1, <3>2, <5>1, <5>2
      <4> QED BY <1>3, <4>1, <4>2, <4>3
    <3> QED BY <3>3, <3>4
  <2>4. R' = R \ {x}
    <3> HIDE DEF x
    <3>1. \A c \in Contexts : \A k \in Kinds : <<c, k>> \in R' <=> <<c, k>> \in R \ {x}
      BY <2>3 DEF Kinds
    <3>2. R \ {x} \in SUBSET (Contexts \X Kinds)
      BY <1>6
    <3> QED BY <2>2, <3>1, <3>2, PairsEqual
  <2>5. e.users = Cardinality(References(i)')
    <3> HIDE DEF x
    <3>1. Cardinality(R \ {x}) = Cardinality(R) - 1
      BY <1>6, OneLess
    <3> QED BY <1>6, <1>7, <2>4, <3>1
  <2> QED BY <1>1, <1>2, <1>8, <2>1, <2>5, CountsStored DEF LockInv
<1> QED BY <1>12, <1>15, <1>16, <1>17, <1>18, <1>19 DEF LockInv

LEMMA CloseStoresKeeps ==
  ASSUME LockInv, CloseStores
  PROVE  LockInv'
PROOF
<1>1. PICK i : i = Me.sem
  OBVIOUS
<1> QED BY <1>1, CloseStoresAt

-----------------------------------------------------------------------------
(* The invariant holds initially and is kept.                              *)

LEMMA LockInvInit ==
  ASSUME LockInit
  PROVE  LockInv
PROOF
<1>1. /\ Idle \in Pids /\ Shell \in Pids /\ Irq \in Contexts /\ Idle \in SemIds /\ Shell \in SemIds
      /\ Irq \notin Pids /\ Shell # Idle /\ Registry \notin SemIds /\ \A p \in Pids : p \in Nat /\ p # 0
  BY SemLockAssumption DEF Idle, Shell, Irq, Pids, Contexts, SemIds, Registry
<1>2. ctx = [c \in Contexts |-> InUserCode] /\ InUserCode \in Frames /\ Fitting(InUserCode)
      /\ InUserCode.at = "user" /\ InUserCode.call = "none" /\ InUserCode.masked = FALSE
  <2>1. InUserCode.at = "user" /\ InUserCode.call = "none" /\ InUserCode.masked = FALSE
    BY DEF InUserCode
  <2> QED BY <2>1, InUserCodeFits DEF LockInit
<1>3. \A i \in SemIds : sems[i] = IF i \in {Idle, Shell} THEN Fresh(i) ELSE NoEntry
  BY DEF LockInit
<1>4. /\ \A i \in SemIds : sems[i] \in Entries
      /\ \A i \in SemIds : sems[i].pid = IF i \in {Idle, Shell} THEN i ELSE 0
      /\ \A i \in SemIds : sems[i].users = IF i \in {Idle, Shell} THEN 1 ELSE 0
  BY <1>1, <1>3, FreshTrue, NoEntryTrue
<1>5. LockTypeOK
  <2>1. sems \in [SemIds -> Entries]
    <3>1. sems = [i \in SemIds |-> IF i \in {Idle, Shell} THEN Fresh(i) ELSE NoEntry]
      BY DEF LockInit
    <3> QED BY <1>3, <1>4, <3>1
  <2>2. next_pid \in 3..(MaxPid + 1)
    BY SemLockAssumption DEF LockInit
  <2>3. children \in [Contexts -> SUBSET Pids]
    BY <1>1 DEF LockInit
  <2>4. state \in [Pids -> {"none", "READY", "RUNNING", "BLOCKED", "KILLED"}]
    BY DEF LockInit
  <2> QED BY <1>1, <1>2, <2>1, <2>2, <2>3, <2>4 DEF LockTypeOK, LockInit
<1>6. FramesTrue
  BY <1>1, <1>2, <1>5 DEF FramesTrue, Framed, IrqFramed
<1>7. NamesTrue
  <2>1. next_pid = 3 /\ Idle = 1 /\ Shell = 2
    BY DEF LockInit, Idle, Shell
  <2>2. \A i, j \in SemIds : sems[i].pid = sems[j].pid /\ sems[i].pid # 0 => i = j
    BY <1>4
  <2>3. \A i \in SemIds : (sems[i].pid = 0 <=> sems[i].users = 0) /\ sems[i].pid < next_pid
    BY <1>4, <2>1
  <2> QED BY <2>2, <2>3 DEF NamesTrue
<1>8. PidsGiven
  BY <1>1, <1>2 DEF PidsGiven, LockInit, Idle, Shell
<1>9. ChildrenTrue
  <2>1. \A c \in Contexts : \A p \in children[c] : p \in {Idle, Shell}
    BY DEF LockInit
  <2>2. \A p \in {Idle, Shell} : p \in SemIds /\ sems[p].pid = p
    BY <1>1, <1>4
  <2> QED BY <1>2, <2>1, <2>2 DEF ChildrenTrue, Named
<1>10. Loaded
  BY <1>2 DEF Loaded
<1>11. OneInside
  BY <1>2 DEF OneInside, Holds, LockInit
<1>12. UsersCounted
  <2> SUFFICES ASSUME NEW i \in SemIds PROVE sems[i].users = Cardinality(References(i))
    BY DEF UsersCounted
  <2>1. \A c \in Contexts : ~Opened(ctx[c], i) /\ ~WaitsOn(ctx[c], i)
    BY <1>2 DEF Opened, WaitsOn, Between
  <2>2. \A c \in Contexts : sems[i].pid \in children[c] <=> c = Irq /\ i \in {Idle, Shell}
    BY <1>1, <1>4 DEF LockInit
  <2> DEFINE born == IF i \in {Idle, Shell} THEN {<<Irq, "parent">>} ELSE {}
  <2>3. \A c \in Contexts : \A k \in Kinds : <<c, k>> \in References(i) <=> <<c, k>> \in born
    BY <2>1, <2>2, ReferencesAre DEF Kinds
  <2>4. born \in SUBSET (Contexts \X Kinds) /\ References(i) \in SUBSET (Contexts \X Kinds)
    BY <1>1, ReferencesAre DEF Kinds
  <2>5. References(i) = born
    <3> HIDE DEF born
    <3> QED BY <2>3, <2>4, PairsEqual
  <2> QED BY <1>4, <2>5, FS_Singleton, FS_EmptySet
<1>13. \A p \in Pids : state[p] # "BLOCKED"
  BY DEF LockInit
<1> QED BY <1>6, <1>7, <1>8, <1>9, <1>10, <1>11, <1>12, <1>13 DEF LockInv, SleepersHalt, SleepersQueued

LEMMA LockInvNext ==
  ASSUME LockInv, LockNext
  PROVE  LockInv'
PROOF
<1>1. CASE OpenLoads
  BY <1>1, OpenLoadsKeeps
<1>2. CASE OpenStores
  BY <1>2, OpenStoresKeeps
<1>3. CASE CloseLoads
  BY <1>3, CloseLoadsKeeps
<1>4. CASE CloseStores
  BY <1>4, CloseStoresKeeps
<1>5. CASE PostLooks
  BY <1>5, PostLooksKeeps
<1>6. CASE PostLoads
  BY <1>6, PostLoadsKeeps
<1>7. CASE PostStores
  BY <1>7, PostStoresKeeps
<1>8. CASE PostWakes
  BY <1>8, PostWakesKeeps
<1>9. CASE Waits
  BY <1>9, WaitsKeeps
<1>10. CASE HaltEnds
  BY <1>10, HaltEndsKeeps
<1>11. CASE Buries
  BY <1>11, BuriesKeeps
<1>12. CASE Dies
  BY <1>12, DiesKeeps
<1>13. CASE Create
  BY <1>13, CreateKeeps
<1>14. CASE Exit
  <2>1. current \in Pids
    BY TypesKept DEF LockInv
  <2> QED BY <1>14, <2>1, UserCallsKeep
<1>15. CASE Returns
  BY <1>15, ReturnsKeeps
<1>16. CASE CtrlC
  BY <1>16, CtrlCKeeps
<1>17. ASSUME NEW i \in SemIds, RemoveFrom(i) PROVE LockInv'
  BY <1>17, RemoveKeeps
<1>18. ASSUME NEW p \in Pids, Waitpid(p) \/ Kill(p) PROVE LockInv'
  BY <1>18, UserCallsKeep
<1>19. ASSUME NEW p \in Pids, Tick(p) PROVE LockInv'
  BY <1>19, TickKeeps
<1>20. ASSUME NEW p \in Pids, NextVictim(p) PROVE LockInv'
  BY <1>20, NextVictimKeeps
<1> QED
  BY <1>1, <1>2, <1>3, <1>4, <1>5, <1>6, <1>7, <1>8, <1>9, <1>10, <1>11, <1>12, <1>13, <1>14,
     <1>15, <1>16, <1>17, <1>18, <1>19, <1>20 DEF LockNext

\* The inductive invariant of the locks of sem.c: what each context has loaded is
\* still so when it stores, whoever is interrupted behind a lock has interrupts on,
\* and every use of an entry is between an open and a close that its users count.
THEOREM LockInvariant == LockSpec => []LockInv
PROOF
<1>1. LockInit => LockInv
  BY LockInvInit
<1>2. LockInv /\ [LockNext]_lockvars => LockInv'
  <2> SUFFICES ASSUME LockInv, [LockNext]_lockvars PROVE LockInv'
    OBVIOUS
  <2>1. CASE LockNext
    BY <2>1, LockInvNext
  <2>2. CASE UNCHANGED lockvars
    <3>1. UNCHANGED <<locks, sems, state, children, ctx, current, victims, next_pid>>
      BY <2>2 DEF lockvars
    <3>2. FramesTrue'
      BY <3>1 DEF LockInv, FramesTrue, LockTypeOK, Framed, IrqFramed, Running
    <3>3. NamesTrue' /\ PidsGiven' /\ ChildrenTrue' /\ Loaded'
      BY <3>1 DEF LockInv, NamesTrue, PidsGiven, ChildrenTrue, Named, Loaded, OpenLoaded, CloseLoaded,
                  PostLoaded
    <3>4. OneInside'
      BY <3>1 DEF LockInv, OneInside, Holds, Running
    <3>5. UsersCounted'
      BY <3>1 DEF LockInv, UsersCounted, References, Between
    <3>6. SleepersHalt' /\ SleepersQueued'
      BY <3>1 DEF LockInv, SleepersHalt, SleepersQueued, Queued, Runs, Me, Running
    <3> QED BY <3>2, <3>3, <3>4, <3>5, <3>6 DEF LockInv
  <2> QED BY <2>1, <2>2
<1> QED BY <1>1, <1>2, PTL DEF LockSpec

\* The types of the locks, the table and the contexts.
THEOREM LockTypesHold == LockSpec => []LockTypeOK
PROOF
<1>1. LockInv => LockTypeOK
  BY DEF LockInv, FramesTrue
<1> QED BY <1>1, LockInvariant, PTL

\* For any number of processes and entries: no two contexts are ever in sections of
\* one lock, though entries go and come back with their locks, and only who has
\* returned from its entry point or is in waitpid is ever interrupted in one.
THEOREM NeverTwoInside == LockSpec => []OneInside
PROOF
<1>1. LockInv => OneInside
  BY DEF LockInv
<1> QED BY <1>1, LockInvariant, PTL

\* users is exactly the number of references, though a tick may come between its
\* load and its store and processes die between sem_open and sem_close.
THEOREM UsersAlwaysCounted == LockSpec => []UsersCounted
PROOF
<1>1. LockInv => UsersCounted
  BY DEF LockInv
<1> QED BY <1>1, LockInvariant, PTL

\* sem_post loses no wake-up although it wakes whom it has taken off the queue only
\* after it has released the lock.
THEOREM SleepersAlwaysQueued == LockSpec => []SleepersQueued
PROOF
<1>1. LockInv => SleepersQueued
  BY DEF LockInv
<1> QED BY <1>1, LockInvariant, PTL

=============================================================================
