------------------------------ MODULE PmmProof ------------------------------
(***************************************************************************)
(* Proofs about Pmm for every word size, page size, number of regions and  *)
(* set of requests.                                                        *)
(***************************************************************************)
EXTENDS Pmm, FiniteSetTheorems, TLAPS

-----------------------------------------------------------------------------
(***************************************************************************)
(* Machine words and the alignment macros of types/number.h.               *)
(***************************************************************************)

\* Word arithmetic yields words.
LEMMA WAddRange ==
  ASSUME NEW x \in Int, NEW y \in Int
  PROVE  WAdd(x, y) \in Nat /\ WAdd(x, y) < Word
  BY WordAssumption DEF WAdd

\* A subtraction of words is a word.
LEMMA WSubRange ==
  ASSUME NEW x \in Int, NEW y \in Int
  PROVE  WSub(x, y) \in Nat /\ WSub(x, y) < Word
  BY WordAssumption DEF WSub

\* Where the exact result is a word, word arithmetic is exact.
LEMMA WAddExact ==
  ASSUME NEW x \in Nat, NEW y \in Nat, x + y < Word
  PROVE  WAdd(x, y) = x + y
  BY WordAssumption DEF WAdd

\* A subtraction that does not wrap is exact.
LEMMA WSubExact ==
  ASSUME NEW x \in Nat, NEW y \in Nat, y <= x, x < Word
  PROVE  WSub(x, y) = x - y
  BY WordAssumption DEF WSub

\* ALIGN_DOWN goes down by less than the alignment.
LEMMA AlignDown ==
  ASSUME NEW v \in Nat, NEW a \in Nat \ {0}
  PROVE  /\ ALIGN_DOWN(v, a) \in Nat
         /\ ALIGN_DOWN(v, a) <= v
         /\ v < ALIGN_DOWN(v, a) + a
  BY DEF ALIGN_DOWN

\* What % and \div mean together.
LEMMA ModMultiple ==
  ASSUME NEW a \in Nat \ {0}, NEW q \in Nat, NEW r \in Nat, r < a
  PROVE  (a * q + r) % a = r
  OBVIOUS

\* ALIGN_DOWN yields a multiple of the alignment.
LEMMA AlignDownMultiple ==
  ASSUME NEW v \in Nat, NEW a \in Nat \ {0}
  PROVE  ALIGN_DOWN(v, a) % a = 0
<1> DEFINE q == v \div a
<1>1. q \in Nat /\ v = a * q + (v % a)
  OBVIOUS
<1>2. ALIGN_DOWN(v, a) = a * q + 0
  BY <1>1 DEF ALIGN_DOWN
<1> HIDE DEF q
<1>4. (a * q + 0) % a = 0
  BY <1>1, ModMultiple
<1> QED
  BY <1>2, <1>4

\* ALIGN_UP yields a natural number, whatever wraps.
LEMMA AlignUpNat ==
  ASSUME NEW v \in Nat, NEW a \in Nat \ {0}
  PROVE  ALIGN_UP(v, a) \in Nat
<1>1. WAdd(v, a - 1) \in Nat
  BY WAddRange
<1> QED
  BY <1>1, AlignDown DEF ALIGN_UP

\* Below the top of the address space ALIGN_UP goes up by less than the
\* alignment, to a multiple of it.
LEMMA AlignUp ==
  ASSUME NEW v \in Nat, NEW a \in Nat \ {0}, v + a <= Word
  PROVE  /\ ALIGN_UP(v, a) \in Nat
         /\ v <= ALIGN_UP(v, a)
         /\ ALIGN_UP(v, a) < v + a
         /\ ALIGN_UP(v, a) % a = 0
<1> DEFINE w == v + (a - 1)
<1>1. w \in Nat /\ a - 1 \in Nat /\ w < Word
  BY WordAssumption
<1>2. WAdd(v, a - 1) = w
  BY <1>1, WAddExact
<1>3. ALIGN_UP(v, a) = ALIGN_DOWN(w, a)
  BY <1>2 DEF ALIGN_UP
<1>4. w = v + a - 1
  OBVIOUS
<1> HIDE DEF w
<1>5. ALIGN_DOWN(w, a) \in Nat /\ ALIGN_DOWN(w, a) <= w /\ w < ALIGN_DOWN(w, a) + a
  BY <1>1, AlignDown
<1>6. ALIGN_DOWN(w, a) % a = 0
  BY <1>1, AlignDownMultiple
<1> QED
  BY <1>3, <1>4, <1>5, <1>6

-----------------------------------------------------------------------------
(***************************************************************************)
(* Type correctness, from the assumptions on the constants alone.          *)
(***************************************************************************)

\* What pmm_add_region stores are natural numbers.
LEMMA AlignedNat ==
  ASSUME NEW base \in Nat, NEW size \in Nat
  PROVE  /\ AlignedBase(base) \in Nat
         /\ AlignedSize(base, size) \in Nat
<1>1. AlignedBase(base) \in Nat
  BY AlignUpNat, PmmAssumption DEF AlignedBase
<1> DEFINE skip == WSub(AlignedBase(base), base)
<1>2. skip \in Nat
  BY <1>1, WSubRange
<1> HIDE DEF skip
<1>3. WSub(size, skip) \in Nat
  BY <1>2, WSubRange
<1>4. ALIGN_DOWN(WSub(size, skip), PageSize) \in Nat
  BY <1>3, AlignDown, PmmAssumption
<1> QED
  BY <1>1, <1>4 DEF AlignedSize, skip

\* A call that returns early changes nothing but its result.
LEMMA FailTypeOK ==
  ASSUME TypeOK, NEW err \in ErrorCode, Fail(err)
  PROVE  TypeOK'
  BY DEF TypeOK, Fail, Return

\* A panic leaves the types alone.
LEMMA HaltTypeOK ==
  ASSUME TypeOK, Halt
  PROVE  TypeOK'
  BY DEF TypeOK, Halt

\* pmm_add_region keeps the types.
LEMMA AddRegionTypeOK ==
  ASSUME TypeOK, NEW base \in Nat, NEW size \in Nat, arena_free > 0,
         AddRegion(base, size)
  PROVE  TypeOK'
<1>1. regions' \in Seq(Region)
  BY DEF TypeOK, AddRegion, Region, Block
<1>2. total_bytes' \in Nat /\ free_bytes' \in Nat
  BY WAddRange DEF TypeOK, AddRegion
<1>3. arena_free' \in Nat
  BY DEF TypeOK, AddRegion
<1>4. ret' \in [err : ErrorCode, region : Nat]
  BY DEF AddRegion, Return, ErrorCode
<1> QED
  BY <1>1, <1>2, <1>3, <1>4 DEF TypeOK, AddRegion

\* The bytes left below an allocation are a natural number.
LEMMA BelowNat ==
  ASSUME NEW curr \in Block, NEW base \in Nat
  PROVE  WSub(base, curr.block_base) \in Nat
<1>1. curr.block_base \in Int
  BY DEF Block
<1>2. base \in Int
  OBVIOUS
<1> QED
  BY <1>1, <1>2, WSubRange, Zenon

\* The block left above an allocation is a block.
LEMMA RestBlock ==
  ASSUME NEW curr \in Block, NEW base \in Nat, NEW size \in Nat
  PROVE  Rest(curr, base, size) \in Block
<1>1. BlockEnd(curr) \in Nat /\ WAdd(base, size) \in Nat
  <2>1. curr.block_base \in Int /\ curr.block_size \in Int
    BY DEF Block
  <2>2. WAdd(curr.block_base, curr.block_size) \in Nat
    BY <2>1, WAddRange
  <2>3. WAdd(base, size) \in Nat
    BY WAddRange
  <2> QED
    BY <2>2, <2>3 DEF BlockEnd
<1>2. WSub(BlockEnd(curr), WAdd(base, size)) \in Nat
  BY <1>1, WSubRange
<1> QED
  BY <1>1, <1>2 DEF Rest, Block

\* The types of a region's fields and of the blocks on its list.
LEMMA RegionFields ==
  ASSUME TypeOK, NEW i \in 1..Len(regions)
  PROVE  /\ regions[i] \in Region
         /\ regions[i].region_base \in Nat
         /\ regions[i].region_size \in Nat
         /\ regions[i].free_bytes \in Nat
         /\ regions[i].free_blocks \in Seq(Block)
         /\ \A j \in 1..Len(regions[i].free_blocks) :
              /\ regions[i].free_blocks[j] \in Block
              /\ regions[i].free_blocks[j].block_base \in Nat
              /\ regions[i].free_blocks[j].block_size \in Nat
<1>1. regions[i] \in Region
  BY DEF TypeOK
<1>2. regions[i].free_blocks \in Seq(Block)
  BY <1>1 DEF Region
<1>3. \A j \in 1..Len(regions[i].free_blocks) : regions[i].free_blocks[j] \in Block
  BY <1>2
<1>4. \A b \in Block : b.block_base \in Nat /\ b.block_size \in Nat
  BY DEF Block
<1> QED
  BY <1>1, <1>2, <1>3, <1>4 DEF Region

\* Taking bytes a region has keeps the array well typed.
LEMMA TakeTypeOK ==
  ASSUME TypeOK, NEW i \in 1..Len(regions), NEW blocks \in Seq(Block),
         NEW size \in Nat, regions[i].free_bytes >= size, Take(i, blocks, size)
  PROVE  regions' \in Seq(Region)
<1>1. regions[i] \in Region
  BY RegionFields
<1> DEFINE region == [regions[i] EXCEPT !.free_blocks = blocks,
                                        !.free_bytes = @ - size]
<1>0. regions[i].free_bytes - size \in Nat
  BY <1>1 DEF Region
<1>2. region \in Region
  BY <1>0, <1>1 DEF Region
<1>3. regions' = [regions EXCEPT ![i] = region]
  BY DEF Take
<1> HIDE DEF region
<1> QED
  BY <1>2, <1>3 DEF TypeOK

\* Carving an allocation that fits out of a block keeps lists and arena well
\* typed, whichever of the four cases applies.
LEMMA CarveTypeOK ==
  ASSUME TypeOK, NEW i \in 1..Len(regions),
         NEW j \in 1..Len(regions[i].free_blocks),
         NEW base \in Nat, NEW size \in Nat,
         regions[i].free_bytes >= size, arena_free > 0, Carve(i, j, base, size)
  PROVE  regions' \in Seq(Region) /\ arena_free' \in Nat /\ lost' \subseteq Block
<1> DEFINE blocks == regions[i].free_blocks
           curr   == blocks[j]
           rest   == Rest(curr, base, size)
           left   == WSub(base, curr.block_base)
           shrunk == [blocks EXCEPT ![j].block_size = left]
           others == SubSeq(blocks, 1, j - 1) \o SubSeq(blocks, j + 1, Len(blocks))
<1>1. blocks \in Seq(Block) /\ curr \in Block
  BY RegionFields
<1>2. rest \in Block
  BY <1>1, RestBlock
<1>3. left \in Nat
  BY <1>1, BelowNat
<1>4. shrunk \in Seq(Block)
  <2>1. [curr EXCEPT !.block_size = left] \in Block
    BY <1>1, <1>3 DEF Block
  <2>2. shrunk = [blocks EXCEPT ![j] = [curr EXCEPT !.block_size = left]]
    OBVIOUS
  <2> HIDE DEF shrunk, left, curr, blocks
  <2> QED
    BY <1>1, <2>1, <2>2 DEF blocks
<1>5. others \in Seq(Block)
  BY <1>1
<1>6. [blocks EXCEPT ![j] = rest] \in Seq(Block)
  BY <1>1, <1>2
<1>7. \/ Take(i, shrunk, size) /\ arena_free' = arena_free - 1 /\ lost' = lost \union {rest}
      \/ Take(i, shrunk, size) /\ UNCHANGED <<arena_free, lost>>
      \/ Take(i, [blocks EXCEPT ![j] = rest], size) /\ UNCHANGED <<arena_free, lost>>
      \/ Take(i, others, size) /\ arena_free' = arena_free + 1 /\ UNCHANGED lost
  BY DEF Carve
<1> HIDE DEF shrunk, others, rest, blocks
<1>8. regions' \in Seq(Region)
  BY <1>4, <1>5, <1>6, <1>7, TakeTypeOK
<1> QED
  BY <1>2, <1>7, <1>8 DEF TypeOK

\* An allocation out of a block that fits is well typed.
LEMMA AllocateTypeOK ==
  ASSUME TypeOK, NEW i \in 1..Len(regions),
         NEW j \in 1..Len(regions[i].free_blocks),
         NEW size \in Nat, NEW alignment \in Nat \ {0},
         ALIGN_UP(size, PageSize) <= free_bytes,
         Fits(i, j, ALIGN_UP(size, PageSize), alignment),
         arena_free > 0, Allocate(i, j, size, alignment)
  PROVE  TypeOK'
<1> DEFINE pages == ALIGN_UP(size, PageSize)
           base  == ALIGN_UP(regions[i].free_blocks[j].block_base, alignment)
<1>1. pages \in Nat
  BY AlignUpNat, PmmAssumption
<1>2. base \in Nat
  <2>1. regions[i].free_blocks[j].block_base \in Nat
    BY RegionFields
  <2> QED
    BY <2>1, AlignUpNat
<1>3. regions[i].free_bytes >= pages
  BY DEF Fits
<1>4. /\ Carve(i, j, base, pages)
      /\ free_bytes' = free_bytes - pages
      /\ allocs' = Append(allocs, [base |-> base, size |-> pages,
                                   request |-> size, alignment |-> alignment])
      /\ zeroed' = zeroed \union Bytes(base, pages)
      /\ ret' = [err |-> "EC_SUCCESS", region |-> base]
      /\ UNCHANGED <<state, policy, total_bytes>>
  BY DEF Allocate, Return
<1> HIDE DEF pages, base
<1>5. regions' \in Seq(Region) /\ arena_free' \in Nat /\ lost' \subseteq Block
  BY <1>1, <1>2, <1>3, <1>4, CarveTypeOK
<1>6. free_bytes' \in Nat
  BY <1>1, <1>4 DEF TypeOK, pages
<1>7. allocs' \in Seq(Alloc)
  BY <1>1, <1>2, <1>4 DEF TypeOK, Alloc
<1>8. zeroed' \subseteq Nat
  BY <1>1, <1>2, <1>4 DEF TypeOK, Bytes
<1>9. ret' \in [err : ErrorCode, region : Nat]
  BY <1>2, <1>4 DEF ErrorCode
<1> QED
  BY <1>4, <1>5, <1>6, <1>7, <1>8, <1>9 DEF TypeOK

\* Every outcome of an allocating call, in the terms the proofs need: it fails,
\* it halts, or it serves the request from a block that fits.
LEMMA AllocOutcomes ==
  ASSUME NEW size, NEW alignment, NEW out,
         pmm_alloc_aligned(size, alignment, out)
  PROVE  \/ \E err \in ErrorCode : Fail(err)
         \/ Halt
         \/ /\ ~BadAlignment(alignment)
            /\ ~(free_bytes < ALIGN_UP(size, PageSize))
            /\ ~(arena_free < ArenaReserve)
            /\ \E i \in 1..Len(regions) :
               \E j \in 1..Len(regions[i].free_blocks) :
                 /\ Fits(i, j, ALIGN_UP(size, PageSize), alignment)
                 /\ Allocate(i, j, size, alignment)
  BY DEF pmm_alloc_aligned, FirstFit, ErrorCode

\* pmm_alloc_aligned keeps the types.
LEMMA AllocTypeOK ==
  ASSUME TypeOK, NEW size \in Nat, NEW alignment \in Nat, NEW out,
         pmm_alloc_aligned(size, alignment, out)
  PROVE  TypeOK'
<1>1. CASE \E err \in ErrorCode : Fail(err)
  BY <1>1, FailTypeOK
<1>2. CASE Halt
  BY <1>2, HaltTypeOK
<1>3. ASSUME ~BadAlignment(alignment),
             ~(free_bytes < ALIGN_UP(size, PageSize)),
             ~(arena_free < ArenaReserve),
             NEW i \in 1..Len(regions), NEW j \in 1..Len(regions[i].free_blocks),
             Fits(i, j, ALIGN_UP(size, PageSize), alignment),
             Allocate(i, j, size, alignment)
      PROVE  TypeOK'
  <2>1. alignment \in Nat \ {0}
    BY <1>3, PmmAssumption DEF BadAlignment
  <2>2. ALIGN_UP(size, PageSize) <= free_bytes
    <3>1. ALIGN_UP(size, PageSize) \in Nat
      BY AlignUpNat, PmmAssumption
    <3> QED
      BY <1>3, <3>1 DEF TypeOK
  <2>3. arena_free > 0
    BY <1>3, PmmAssumption DEF TypeOK
  <2> QED
    BY <1>3, <2>1, <2>2, <2>3, AllocateTypeOK
<1> QED
  BY <1>1, <1>2, <1>3, AllocOutcomes

\* Every outcome of pmm_add_region.
LEMMA AddRegionOutcomes ==
  ASSUME NEW base, NEW size, pmm_add_region(base, size)
  PROVE  \/ \E err \in ErrorCode : Fail(err)
         \/ Halt
         \/ /\ ~TooSmall(base, size)
            /\ ~AlreadyManaged(AlignedBase(base))
            /\ arena_free > 0
            /\ AddRegion(AlignedBase(base), AlignedSize(base, size))
  BY DEF pmm_add_region, ErrorCode

\* The steps of the specification, one disjunct per effect.
LEMMA NextOutcomes ==
  ASSUME Next
  PROVE  \/ \E pol \in Policies : pmm_initialize(pol)
         \/ \E r \in RegionInputs : pmm_add_region(r.base, r.size)
         \/ \E q \in AllocInputs : \E alignment \in {q.alignment, PageSize} :
            \E out \in BOOLEAN : pmm_alloc_aligned(q.size, alignment, out)
         \/ \E err \in ErrorCode : Fail(err)
         \/ \E a \in 1..Len(allocs) : Write(a)
<1>1. CASE \E q \in AllocInputs : Request(q.size, q.alignment)
  <2>1. PICK q \in AllocInputs : Request(q.size, q.alignment)
    BY <1>1
  <2>2. \/ \E out \in BOOLEAN : pmm_alloc_aligned(q.size, q.alignment, out)
        \/ \E out \in BOOLEAN : pmm_alloc_aligned(q.size, PageSize, out)
    BY <2>1 DEF Request, pmm_alloc_aligned_noerr, pmm_alloc, pmm_alloc_noerr
  <2> QED
    BY <2>2
<1>2. CASE \E a \in 1..Len(allocs) : pmm_free(allocs[a].base)
  BY <1>2 DEF pmm_free, ErrorCode
<1> QED
  BY <1>1, <1>2 DEF Next

\* Every step keeps the types.
LEMMA TypeStep ==
  ASSUME TypeOK, [Next]_vars
  PROVE  TypeOK'
<1>1. ASSUME NEW pol \in Policies, pmm_initialize(pol) PROVE TypeOK'
  BY <1>1, PmmAssumption DEF pmm_initialize, TypeOK
<1>2. ASSUME NEW r \in RegionInputs, pmm_add_region(r.base, r.size) PROVE TypeOK'
  <2>1. r.base \in Nat /\ r.size \in Nat
    BY PmmAssumption
  <2> QED
    BY <1>2, <2>1, AddRegionOutcomes, AlignedNat, FailTypeOK, HaltTypeOK, AddRegionTypeOK
<1>3. ASSUME NEW q \in AllocInputs, NEW alignment \in {q.alignment, PageSize},
             NEW out \in BOOLEAN, pmm_alloc_aligned(q.size, alignment, out)
      PROVE  TypeOK'
  <2>1. q.size \in Nat /\ alignment \in Nat
    BY PmmAssumption
  <2> QED
    BY <1>3, <2>1, AllocTypeOK
<1>4. ASSUME NEW a \in 1..Len(allocs), Write(a) PROVE TypeOK'
  BY <1>4 DEF Write, TypeOK
<1>5. CASE UNCHANGED vars
  BY <1>5 DEF vars, TypeOK
<1> QED
  BY <1>1, <1>2, <1>3, <1>4, <1>5, NextOutcomes, FailTypeOK

(***************************************************************************)
(* Every state of pmm.c is well typed: in particular no counter of bytes   *)
(* or of arena nodes is ever driven below zero, whatever the regions and   *)
(* the requests, even where addresses wrap.                                *)
(***************************************************************************)
THEOREM TypeCorrect == Spec => []TypeOK
<1>1. Init => TypeOK
  BY DEF Init, TypeOK, ErrorCode
<1>2. TypeOK /\ [Next]_vars => TypeOK'
  BY TypeStep
<1> QED
  BY <1>1, <1>2, PTL DEF Spec

-----------------------------------------------------------------------------
(***************************************************************************)
(* Proofs that Pmm never hands out a byte twice, when the memory map and   *)
(* the requests satisfy BootContract.                                      *)
(*                                                                         *)
(* NoOverlap is not inductive.  It needs to know that regions are disjoint *)
(* and where they come from (a region is rejected only if its first byte   *)
(* is managed, so disjointness rests on the memory map), that every block  *)
(* and every allocation lies in one region, that a list holds at most one  *)
(* block, and that a region never counts more free bytes than there are    *)
(* between the start of its block and its own end: the last is what keeps  *)
(* the additions of the first fit test from wrapping.                      *)
(***************************************************************************)

RegionEnd(i) == regions[i].region_base + regions[i].region_size

RegionsFromMap ==
  \A i \in 1..Len(regions) : \E r \in RegionInputs :
    /\ regions[i].region_base = AlignedBase(r.base)
    /\ r.base <= regions[i].region_base
    /\ RegionEnd(i) <= r.base + r.size
    /\ PageSize <= regions[i].region_size

BlocksInside ==
  \A i \in 1..Len(regions) :
    /\ Len(regions[i].free_blocks) <= 1
    /\ \A j \in 1..Len(regions[i].free_blocks) :
         LET block == regions[i].free_blocks[j]
         IN  /\ regions[i].region_base <= block.block_base
             /\ block.block_base + block.block_size <= RegionEnd(i)
             /\ block.block_base + regions[i].free_bytes <= RegionEnd(i)

SafetyInv ==
  /\ TypeOK
  /\ RegionsFromMap
  /\ RegionsDisjoint
  /\ BlocksInside
  /\ AllocationsServeRequests
  /\ NoOverlap

-----------------------------------------------------------------------------
(***************************************************************************)
(* pmm_add_region.                                                         *)
(***************************************************************************)

\* An accepted region lies inside the range it was made from, at least one
\* page long.
LEMMA AcceptedRegion ==
  ASSUME BootContract, NEW r \in RegionInputs, ~TooSmall(r.base, r.size)
  PROVE  /\ AlignedBase(r.base) \in Nat
         /\ AlignedSize(r.base, r.size) \in Nat
         /\ r.base <= AlignedBase(r.base)
         /\ AlignedBase(r.base) + AlignedSize(r.base, r.size) <= r.base + r.size
         /\ PageSize <= AlignedSize(r.base, r.size)
<1> DEFINE b == r.base
           n == r.size
           base == AlignedBase(b)
           skip == WSub(base, b)
           room == WSub(n, skip)
           size == AlignedSize(b, n)
<1>1. /\ b \in Nat /\ n \in Nat /\ PageSize \in Nat \ {0} /\ Word \in Nat
      /\ b + n + PageSize <= Word
      /\ base <= b + n
  BY PmmAssumption, WordAssumption DEF BootContract
<1>2. size = ALIGN_DOWN(room, PageSize)
  BY DEF AlignedSize
<1>3. base = ALIGN_UP(b, PageSize)
  BY DEF AlignedBase
<1>4. ~(size < PageSize)
  BY DEF TooSmall
<1> HIDE DEF b, n, base, size
<1>5. base \in Nat /\ b <= base
  <2>1. b + PageSize <= Word
    BY <1>1
  <2> QED
    BY <1>1, <1>3, <2>1, AlignUp
<1>6. skip = base - b
  <2>1. base < Word
    BY <1>1, <1>5
  <2> QED
    BY <1>1, <1>5, <2>1, WSubExact
<1> HIDE DEF skip
<1>7. room = n - skip
  <2>1. skip \in Nat /\ skip <= n /\ n < Word
    BY <1>1, <1>5, <1>6
  <2> QED
    BY <1>1, <2>1, WSubExact
<1> HIDE DEF room
<1>8. room \in Nat
  BY <1>1, <1>5, <1>6, <1>7
<1>9. size \in Nat /\ size <= room
  BY <1>1, <1>2, <1>8, AlignDown
<1>10. base + size <= b + n /\ PageSize <= size
  BY <1>1, <1>4, <1>5, <1>6, <1>7, <1>9
<1> QED
  BY <1>5, <1>9, <1>10 DEF b, n, base, size

\* Where a managed region may lie.
LEMMA RegionInMap ==
  ASSUME BootContract, SafetyInv, NEW i \in 1..Len(regions)
  PROVE  \E r \in RegionInputs :
           /\ regions[i].region_base = AlignedBase(r.base)
           /\ r.base \in Nat /\ r.size \in Nat
           /\ r.base <= regions[i].region_base
           /\ RegionEnd(i) <= r.base + r.size
           /\ PageSize <= regions[i].region_size
           /\ r.base + r.size + PageSize <= Word
           /\ \A q \in AllocInputs : r.base + r.size + q.alignment <= Word
<1>1. PICK r \in RegionInputs :
        /\ regions[i].region_base = AlignedBase(r.base)
        /\ r.base <= regions[i].region_base
        /\ RegionEnd(i) <= r.base + r.size
        /\ PageSize <= regions[i].region_size
  BY DEF SafetyInv, RegionsFromMap
<1>2. r.base \in Nat /\ r.size \in Nat
  BY PmmAssumption
<1>3. /\ r.base + r.size + PageSize <= Word
      /\ \A q \in AllocInputs : r.base + r.size + q.alignment <= Word
  BY DEF BootContract
<1> QED
  BY <1>1, <1>2, <1>3

\* Nonempty parts of disjoint ranges are apart.
LEMMA SubrangesApart ==
  ASSUME NEW b1 \in Nat, NEW s1 \in Nat, NEW b2 \in Nat, NEW s2 \in Nat,
         NEW c1 \in Nat, NEW t1 \in Nat, NEW c2 \in Nat, NEW t2 \in Nat,
         Disjoint(b1, s1, b2, s2),
         b1 <= c1, c1 + t1 <= b1 + s1, t1 > 0,
         b2 <= c2, c2 + t2 <= b2 + s2, t2 > 0
  PROVE  c1 + t1 <= c2 \/ c2 + t2 <= c1
  BY DEF Disjoint

\* A region that pmm_add_region accepts shares no byte with a managed one: the
\* ranges of the map are disjoint, and the same range is not accepted twice.
LEMMA AcceptedDisjoint ==
  ASSUME BootContract, SafetyInv, NEW r \in RegionInputs,
         ~TooSmall(r.base, r.size), ~AlreadyManaged(AlignedBase(r.base)),
         NEW i \in 1..Len(regions)
  PROVE  \/ AlignedBase(r.base) + AlignedSize(r.base, r.size) <= regions[i].region_base
         \/ RegionEnd(i) <= AlignedBase(r.base)
<1>0. TypeOK
  BY DEF SafetyInv
<1>1. PICK s \in RegionInputs :
        /\ regions[i].region_base = AlignedBase(s.base)
        /\ s.base \in Nat /\ s.size \in Nat
        /\ s.base <= regions[i].region_base
        /\ RegionEnd(i) <= s.base + s.size
        /\ PageSize <= regions[i].region_size
        /\ s.base + s.size + PageSize <= Word
  BY RegionInMap
<1>2. regions[i].region_base \in Nat /\ regions[i].region_size \in Nat
  BY <1>0, RegionFields
<1>3. r.base \in Nat /\ r.size \in Nat /\ PageSize \in Nat \ {0} /\ Word \in Nat
  BY PmmAssumption, WordAssumption
<1>4. CASE r = s
  <2>1. regions[i].region_base + regions[i].region_size < Word
    BY <1>1, <1>2, <1>3 DEF RegionEnd
  <2>2. WAdd(regions[i].region_base, regions[i].region_size)
          = regions[i].region_base + regions[i].region_size
    BY <1>2, <2>1, WAddExact
  <2>3. AlreadyManaged(AlignedBase(r.base))
    BY <1>1, <1>2, <1>4, <2>2 DEF AlreadyManaged
  <2> QED
    BY <2>3
<1>5. CASE r # s
  <2>1. Disjoint(r.base, r.size, s.base, s.size)
    BY <1>1, <1>5 DEF BootContract
  <2>2. /\ AlignedBase(r.base) \in Nat
        /\ AlignedSize(r.base, r.size) \in Nat
        /\ r.base <= AlignedBase(r.base)
        /\ AlignedBase(r.base) + AlignedSize(r.base, r.size) <= r.base + r.size
        /\ AlignedSize(r.base, r.size) > 0
    <3>1. PageSize <= AlignedSize(r.base, r.size) /\ AlignedSize(r.base, r.size) \in Nat
      BY AcceptedRegion
    <3> QED
      BY <1>3, <3>1, AcceptedRegion
  <2>3. regions[i].region_size > 0
    BY <1>1, <1>2, <1>3
  <2>4. regions[i].region_base + regions[i].region_size <= s.base + s.size
    BY <1>1 DEF RegionEnd
  <2>5. \/ AlignedBase(r.base) + AlignedSize(r.base, r.size) <= regions[i].region_base
        \/ regions[i].region_base + regions[i].region_size <= AlignedBase(r.base)
    BY <1>1, <1>2, <1>3, <2>1, <2>2, <2>3, <2>4, SubrangesApart
  <2> QED
    BY <2>5 DEF RegionEnd
<1> QED
  BY <1>4, <1>5

\* The fields of an allocation.
LEMMA AllocFields ==
  ASSUME TypeOK, NEW a \in 1..Len(allocs)
  PROVE  /\ allocs[a].base \in Nat
         /\ allocs[a].size \in Nat
<1>1. allocs[a] \in Alloc
  BY DEF TypeOK
<1> QED
  BY <1>1 DEF Alloc

\* What lies inside a range is apart from what lies outside it.
LEMMA DisjointFromOutside ==
  ASSUME NEW b1 \in Nat, NEW s1 \in Nat, NEW b2 \in Nat, NEW s2 \in Nat,
         NEW rb \in Nat, NEW rs \in Nat,
         rb <= b1, b1 + s1 <= rb + rs,
         b2 + s2 <= rb \/ rb + rs <= b2
  PROVE  Disjoint(b1, s1, b2, s2)
BY DEF Disjoint

\* pmm_add_region keeps the safety invariant.
LEMMA AddRegionSafe ==
  ASSUME BootContract, SafetyInv, TypeOK', NEW r \in RegionInputs,
         ~TooSmall(r.base, r.size), ~AlreadyManaged(AlignedBase(r.base)),
         AddRegion(AlignedBase(r.base), AlignedSize(r.base, r.size))
  PROVE  SafetyInv'
<1> DEFINE base == AlignedBase(r.base)
           size == AlignedSize(r.base, r.size)
           block == [block_base |-> base, block_size |-> size]
           new == [region_base |-> base, region_size |-> size,
                   free_bytes |-> size, free_blocks |-> <<block>>]
           n == Len(regions)
<1>1. TypeOK /\ regions \in Seq(Region) /\ n \in Nat
  BY DEF SafetyInv, TypeOK
<1>2. /\ base \in Nat /\ size \in Nat
      /\ r.base <= base
      /\ base + size <= r.base + r.size
      /\ PageSize <= size
  BY AcceptedRegion
<1>3. regions' = Append(regions, new) /\ allocs' = allocs
  BY DEF AddRegion
<1>4. \A i \in 1..n : base + size <= regions[i].region_base \/ RegionEnd(i) <= base
  BY AcceptedDisjoint
<1>5. /\ Len(regions') = n + 1
      /\ \A i \in 1..n : regions'[i] = regions[i]
      /\ regions'[n + 1] = new
  BY <1>1, <1>3
<1>6. /\ new.region_base = base /\ new.region_size = size
      /\ new.free_bytes = size
      /\ Len(new.free_blocks) = 1
      /\ new.free_blocks[1].block_base = base
      /\ new.free_blocks[1].block_size = size
  OBVIOUS
<1>7. \A i \in 1..(n + 1) : i \in 1..n \/ i = n + 1
  BY <1>1
<1>8. \A i \in 1..n : regions[i].region_base \in Nat /\ regions[i].region_size \in Nat
  BY <1>1, RegionFields
<1> HIDE DEF base, size, block, new, n
<1>9. RegionsFromMap'
  <2> SUFFICES ASSUME NEW i \in 1..(n + 1)
               PROVE  \E s \in RegionInputs :
                        /\ regions'[i].region_base = AlignedBase(s.base)
                        /\ s.base <= regions'[i].region_base
                        /\ regions'[i].region_base + regions'[i].region_size
                             <= s.base + s.size
                        /\ PageSize <= regions'[i].region_size
    BY <1>5 DEF RegionsFromMap, RegionEnd
  <2>1. CASE i \in 1..n
    BY <1>5, <2>1 DEF SafetyInv, RegionsFromMap, RegionEnd, n
  <2>2. CASE i = n + 1
    BY <1>2, <1>5, <1>6, <2>2 DEF base
  <2> QED
    BY <1>7, <2>1, <2>2
<1>10. RegionsDisjoint'
  <2> SUFFICES ASSUME NEW i \in 1..(n + 1), NEW k \in 1..(n + 1), i # k
               PROVE  Disjoint(regions'[i].region_base, regions'[i].region_size,
                               regions'[k].region_base, regions'[k].region_size)
    BY <1>5 DEF RegionsDisjoint
  <2>1. CASE i \in 1..n /\ k \in 1..n
    BY <1>5, <2>1 DEF SafetyInv, RegionsDisjoint, n
  <2>2. CASE i \in 1..n /\ k = n + 1
    BY <1>2, <1>4, <1>5, <1>6, <1>8, <2>2 DEF Disjoint, RegionEnd
  <2>3. CASE i = n + 1 /\ k \in 1..n
    BY <1>2, <1>4, <1>5, <1>6, <1>8, <2>3 DEF Disjoint, RegionEnd
  <2> QED
    BY <1>7, <2>1, <2>2, <2>3
<1>11. BlocksInside'
  <2> SUFFICES ASSUME NEW i \in 1..(n + 1)
               PROVE  /\ Len(regions'[i].free_blocks) <= 1
                      /\ \A j \in 1..Len(regions'[i].free_blocks) :
                           LET b == regions'[i].free_blocks[j]
                               end == regions'[i].region_base + regions'[i].region_size
                           IN  /\ regions'[i].region_base <= b.block_base
                               /\ b.block_base + b.block_size <= end
                               /\ b.block_base + regions'[i].free_bytes <= end
    BY <1>5 DEF BlocksInside, RegionEnd
  <2>1. CASE i \in 1..n
    BY <1>5, <2>1 DEF SafetyInv, BlocksInside, RegionEnd, n
  <2>2. CASE i = n + 1
    <3>1. regions'[i] = new
      BY <1>5, <2>2
    <3>2. Len(regions'[i].free_blocks) <= 1
      <4>1. Len(regions'[i].free_blocks) = 1
        BY <1>6, <3>1, Zenon
      <4> QED
        BY <4>1
    <3>3. ASSUME NEW j \in 1..Len(regions'[i].free_blocks)
          PROVE  /\ base <= regions'[i].free_blocks[j].block_base
                 /\ regions'[i].free_blocks[j].block_base
                      + regions'[i].free_blocks[j].block_size <= base + size
                 /\ regions'[i].free_blocks[j].block_base + size <= base + size
      <4>1. j \in 1..1
        BY <1>6, <3>1
      <4>2. j = 1
        BY <4>1
      <4>3. /\ regions'[i].free_blocks[j].block_base = base
            /\ regions'[i].free_blocks[j].block_size = size
        BY <1>6, <3>1, <4>2
      <4> QED
        BY <1>2, <4>3
    <3> QED
      BY <1>6, <3>1, <3>2, <3>3
  <2> QED
    BY <1>7, <2>1, <2>2
<1>12. AllocationsServeRequests'
  <2>1. \A i \in 1..n : i \in 1..Len(regions')
    BY <1>1, <1>5
  <2> QED
    BY <1>3, <1>5, <2>1 DEF SafetyInv, AllocationsServeRequests, n
<1>13. NoOverlap'
  <2> SUFFICES ASSUME NEW a \in 1..Len(allocs), NEW i \in 1..(n + 1),
                      NEW j \in 1..Len(regions'[i].free_blocks)
               PROVE  Disjoint(allocs[a].base, allocs[a].size,
                               regions'[i].free_blocks[j].block_base,
                               regions'[i].free_blocks[j].block_size)
    BY <1>3, <1>5 DEF SafetyInv, NoOverlap
  <2>1. CASE i \in 1..n
    BY <1>5, <2>1 DEF SafetyInv, NoOverlap, n
  <2>2. CASE i = n + 1
    <3>1. PICK k \in 1..n :
            /\ regions[k].region_base <= allocs[a].base
            /\ allocs[a].base + allocs[a].size <= RegionEnd(k)
      BY DEF SafetyInv, AllocationsServeRequests, RegionEnd, n
    <3>2. allocs[a].base \in Nat /\ allocs[a].size \in Nat
      BY <1>1, AllocFields
    <3>3. j = 1
      <4>1. j \in 1..1
        BY <1>5, <1>6, <2>2
      <4> QED
        BY <4>1
    <3>4. Disjoint(allocs[a].base, allocs[a].size, base, size)
      <4>1. regions[k].region_base \in Nat /\ regions[k].region_size \in Nat
        BY <1>8
      <4>2. \/ base + size <= regions[k].region_base
            \/ regions[k].region_base + regions[k].region_size <= base
        BY <1>4 DEF RegionEnd
      <4>3. allocs[a].base + allocs[a].size
              <= regions[k].region_base + regions[k].region_size
        BY <3>1 DEF RegionEnd
      <4> QED
        BY <1>2, <3>1, <3>2, <4>1, <4>2, <4>3, DisjointFromOutside, Zenon
    <3> QED
      BY <1>5, <1>6, <2>2, <3>3, <3>4
  <2> QED
    BY <1>7, <2>1, <2>2
<1> QED
  BY <1>9, <1>10, <1>11, <1>12, <1>13 DEF SafetyInv

-----------------------------------------------------------------------------
(***************************************************************************)
(* pmm_alloc_aligned.                                                      *)
(***************************************************************************)

\* No addition of the first fit test wraps, so a block that fits really holds
\* the pages at the alignment.
LEMMA FitsExact ==
  ASSUME BootContract, SafetyInv, NEW i \in 1..Len(regions),
         NEW j \in 1..Len(regions[i].free_blocks),
         NEW pages \in Nat, NEW q \in AllocInputs,
         NEW alignment \in {q.alignment, PageSize}, alignment \in Nat \ {0},
         Fits(i, j, pages, alignment)
  PROVE  LET curr == regions[i].free_blocks[j]
             base == ALIGN_UP(curr.block_base, alignment)
         IN  /\ base \in Nat /\ curr.block_base <= base
             /\ base % alignment = 0
             /\ base + pages <= curr.block_base + curr.block_size
             /\ curr.block_base + curr.block_size <= RegionEnd(i)
             /\ RegionEnd(i) < Word
<1> DEFINE bb == regions[i].free_blocks[j].block_base
           bs == regions[i].free_blocks[j].block_size
           free == regions[i].free_bytes
           end == RegionEnd(i)
           base == ALIGN_UP(bb, alignment)
<1>1. TypeOK
  BY DEF SafetyInv
<1>2. bb \in Nat /\ bs \in Nat /\ free \in Nat
  BY <1>1, RegionFields
<1>3. end \in Nat
  <2>1. regions[i].region_base \in Nat /\ regions[i].region_size \in Nat
    BY <1>1, RegionFields
  <2> QED
    BY <2>1 DEF RegionEnd
<1>4. bb + bs <= end /\ bb + free <= end
  BY DEF SafetyInv, BlocksInside
<1>5. end < Word /\ end + alignment <= Word
  <2>1. PICK r \in RegionInputs :
          /\ r.base \in Nat /\ r.size \in Nat
          /\ end <= r.base + r.size
          /\ r.base + r.size + PageSize <= Word
          /\ \A p \in AllocInputs : r.base + r.size + p.alignment <= Word
    BY RegionInMap
  <2>2. r.base + r.size + alignment <= Word
    BY <2>1
  <2> HIDE DEF end
  <2> QED
    BY <1>3, <2>1, <2>2, WordAssumption
<1>6. pages <= free /\ WAdd(bb, bs) >= WAdd(base, pages)
  <2>1. free >= pages /\ WAdd(bb, bs) >= WAdd(base, pages)
    BY DEF Fits
  <2> HIDE DEF free
  <2> QED
    BY <1>2, <2>1
<1> HIDE DEF bb, bs, free, end
<1>7. bb + alignment <= Word
  BY <1>2, <1>3, <1>4, <1>5, WordAssumption
<1>8. base \in Nat /\ bb <= base /\ base < bb + alignment /\ base % alignment = 0
  BY <1>2, <1>7, AlignUp
<1> HIDE DEF base
<1>9. bb + bs < Word /\ base + pages < Word
  BY <1>2, <1>3, <1>4, <1>5, <1>6, <1>8, WordAssumption
<1>10. WAdd(bb, bs) = bb + bs /\ WAdd(base, pages) = base + pages
  BY <1>2, <1>8, <1>9, WAddExact
<1>11. base + pages <= bb + bs
  BY <1>2, <1>6, <1>8, <1>10
<1> QED
  BY <1>4, <1>5, <1>8, <1>11 DEF base, bb, bs, end

\* A region with a block on its list has that one only.
LEMMA OnlyBlock ==
  ASSUME NEW blocks \in Seq(Block), Len(blocks) <= 1, NEW j \in 1..Len(blocks)
  PROVE  j = 1 /\ Len(blocks) = 1
<1> DEFINE n == Len(blocks)
<1>1. n \in Nat /\ n <= 1 /\ j \in 1..n
  OBVIOUS
<1> HIDE DEF n
<1>2. j = 1 /\ n = 1
  BY <1>1
<1> QED
  BY <1>2 DEF n

\* The lists Carve builds out of a list with one block.
LEMMA ShrunkList ==
  ASSUME NEW blocks \in Seq(Block), Len(blocks) <= 1, NEW j \in 1..Len(blocks),
         NEW size \in Nat
  PROVE  [blocks EXCEPT ![j].block_size = size]
           = <<[block_base |-> blocks[j].block_base, block_size |-> size]>>
<1>1. j = 1 /\ Len(blocks) = 1
  BY OnlyBlock
<1>2. blocks[1] \in Block
  BY <1>1
<1>3. [blocks[1] EXCEPT !.block_size = size]
        = [block_base |-> blocks[1].block_base, block_size |-> size]
  BY <1>2 DEF Block
<1> QED
  BY <1>1, <1>3

\* The list after its block was cut down.
LEMMA ReplacedList ==
  ASSUME NEW blocks \in Seq(Block), Len(blocks) <= 1, NEW j \in 1..Len(blocks),
         NEW block \in Block
  PROVE  [blocks EXCEPT ![j] = block] = <<block>>
<1>1. j = 1 /\ Len(blocks) = 1
  BY OnlyBlock
<1> QED
  BY <1>1

\* The list after its block was used up.
LEMMA RemovedList ==
  ASSUME NEW blocks \in Seq(Block), Len(blocks) <= 1, NEW j \in 1..Len(blocks)
  PROVE  SubSeq(blocks, 1, j - 1) \o SubSeq(blocks, j + 1, Len(blocks)) = << >>
<1>1. j = 1 /\ Len(blocks) = 1
  BY OnlyBlock
<1> QED
  BY <1>1

\* A part of the block [bb, bb + bs) that an allocation [base, base + size)
\* does not touch, and that starts where the block did or size bytes further up.
Untouched(block, bb, bs, base, size) ==
  /\ bb <= block.block_base
  /\ block.block_base + block.block_size <= bb + bs
  /\ block.block_base = bb \/ block.block_base = bb + size
  /\ \/ block.block_base + block.block_size <= base
     \/ base + size <= block.block_base

\* The bytes below an allocation are untouched, and those above one made at
\* the start of the block.
LEMMA UntouchedParts ==
  ASSUME NEW bb \in Nat, NEW bs \in Nat, NEW base \in Nat, NEW size \in Nat,
         bb <= base, base + size <= bb + bs
  PROVE  /\ Untouched([block_base |-> bb, block_size |-> base - bb],
                      bb, bs, base, size)
         /\ bb = base => Untouched([block_base |-> base + size,
                                   block_size |-> bb + bs - (base + size)],
                                  bb, bs, base, size)
  BY DEF Untouched

\* What carving leaves on the list: at most one block, and that untouched.
LEMMA CarveLeaves ==
  ASSUME TypeOK, NEW i \in 1..Len(regions), Len(regions[i].free_blocks) <= 1,
         NEW j \in 1..Len(regions[i].free_blocks),
         NEW base \in Nat, NEW size \in Nat,
         NEW bb \in Nat, NEW bs \in Nat,
         bb <= base, base + size <= bb + bs, bb + bs < Word,
         Carve(i, j, base, size)
  PROVE  /\ bb = regions[i].free_blocks[j].block_base
         /\ bs = regions[i].free_blocks[j].block_size
         => \E blocks \in Seq(Block) :
              /\ Take(i, blocks, size)
              /\ Len(blocks) <= 1
              /\ \A k \in 1..Len(blocks) : Untouched(blocks[k], bb, bs, base, size)
<1> DEFINE old    == regions[i].free_blocks
           curr   == old[j]
           below  == [block_base |-> bb, block_size |-> base - bb]
           above  == [block_base |-> base + size,
                      block_size |-> bb + bs - (base + size)]
           before == bb # base
           after  == bb + bs > base + size
<1>1. old \in Seq(Block) /\ curr \in Block
  BY RegionFields
<1>2. /\ base < Word /\ base + size < Word
      /\ base - bb \in Nat /\ bb + bs - (base + size) \in Nat
  BY WordAssumption
<1>3. WSub(base, bb) = base - bb
  BY <1>1, <1>2, WSubExact
<1> HAVE /\ bb = regions[i].free_blocks[j].block_base
         /\ bs = regions[i].free_blocks[j].block_size
<1>4. BlockEnd(curr) = bb + bs
  <2>1. WAdd(bb, bs) = bb + bs
    BY <1>1, WAddExact
  <2> QED
    BY <2>1 DEF BlockEnd
<1>5. WAdd(base, size) = base + size
  BY <1>2, WAddExact
<1>6. Rest(curr, base, size) = above
  <2> DEFINE e == bb + bs
             t == base + size
  <2>1. e \in Nat /\ t \in Nat /\ t <= e /\ e < Word
    BY <1>1
  <2> HIDE DEF e, t
  <2>2. WSub(e, t) = e - t
    BY <2>1, WSubExact
  <2>3. BlockEnd(curr) = e /\ WAdd(base, size) = t
    BY <1>4, <1>5 DEF e, t
  <2>4. Rest(curr, base, size) = [block_base |-> t, block_size |-> e - t]
    BY <2>2, <2>3 DEF Rest
  <2> QED
    BY <2>4 DEF e, t
<1>7. below \in Block /\ above \in Block
  BY <1>1, <1>2 DEF Block
<1>8. [old EXCEPT ![j].block_size = WSub(base, curr.block_base)] = <<below>>
  BY <1>1, <1>2, <1>3, ShrunkList
<1>9. [old EXCEPT ![j] = Rest(curr, base, size)] = <<above>>
  BY <1>1, <1>6, <1>7, ReplacedList, SMTT(20)
<1>10. SubSeq(old, 1, j - 1) \o SubSeq(old, j + 1, Len(old)) = << >>
  BY <1>1, RemovedList
<1>11. \/ before /\ Take(i, <<below>>, size)
       \/ ~before /\ after /\ Take(i, <<above>>, size)
       \/ Take(i, << >>, size)
  <2>1. \/ before /\ Take(i, [old EXCEPT ![j].block_size = WSub(base, curr.block_base)], size)
        \/ ~before /\ after /\ Take(i, [old EXCEPT ![j] = Rest(curr, base, size)], size)
        \/ Take(i, SubSeq(old, 1, j - 1) \o SubSeq(old, j + 1, Len(old)), size)
    BY <1>4, <1>5 DEF Carve
  <2> HIDE DEF old, curr, below, above, before, after
  <2> QED
    BY <1>8, <1>9, <1>10, <2>1
<1>12. ASSUME NEW b \in Block
       PROVE  <<b>> \in Seq(Block) /\ Len(<<b>>) <= 1 /\ \A k \in 1..Len(<<b>>) : <<b>>[k] = b
  OBVIOUS
<1>13. Untouched(below, bb, bs, base, size)
  BY UntouchedParts
<1>14. ~before => Untouched(above, bb, bs, base, size)
  BY UntouchedParts
<1>15. << >> \in Seq(Block) /\ Len(<< >>) <= 1 /\ 1..Len(<< >>) = {}
  OBVIOUS
<1> HIDE DEF below, above, before, after
<1>16. CASE before /\ Take(i, <<below>>, size)
  <2>1. \A k \in 1..Len(<<below>>) : Untouched(<<below>>[k], bb, bs, base, size)
    BY <1>7, <1>12, <1>13
  <2> QED
    BY <1>7, <1>12, <1>16, <2>1
<1>17. CASE ~before /\ after /\ Take(i, <<above>>, size)
  <2>1. \A k \in 1..Len(<<above>>) : Untouched(<<above>>[k], bb, bs, base, size)
    BY <1>7, <1>12, <1>14, <1>17
  <2> QED
    BY <1>7, <1>12, <1>17, <2>1
<1>18. CASE Take(i, << >>, size)
  BY <1>15, <1>18
<1> QED
  BY <1>11, <1>16, <1>17, <1>18

\* Inside a block, an allocation is apart from whatever the block is apart from.
LEMMA DisjointInBlock ==
  ASSUME NEW b \in Nat, NEW n \in Nat, NEW bb \in Nat, NEW bs \in Nat,
         NEW c \in Nat, NEW m \in Nat, bb <= c, c + m <= bb + bs,
         Disjoint(b, n, bb, bs)
  PROVE  Disjoint(b, n, c, m)
  BY DEF Disjoint

\* Sharing no byte goes both ways.
LEMMA DisjointSym ==
  ASSUME NEW b, NEW n, NEW c, NEW m, Disjoint(b, n, c, m)
  PROVE  Disjoint(c, m, b, n)
  BY DEF Disjoint

\* A successful allocation keeps the safety invariant.
LEMMA AllocateSafe ==
  ASSUME BootContract, SafetyInv, TypeOK', NEW q \in AllocInputs,
         NEW alignment \in {q.alignment, PageSize}, alignment \in Nat \ {0},
         NEW i \in 1..Len(regions), NEW j \in 1..Len(regions[i].free_blocks),
         Fits(i, j, ALIGN_UP(q.size, PageSize), alignment),
         Allocate(i, j, q.size, alignment)
  PROVE  SafetyInv'
<1> DEFINE pages == ALIGN_UP(q.size, PageSize)
           bb    == regions[i].free_blocks[j].block_base
           bs    == regions[i].free_blocks[j].block_size
           base  == ALIGN_UP(bb, alignment)
           new   == [base |-> base, size |-> pages,
                     request |-> q.size, alignment |-> alignment]
           n     == Len(regions)
           m     == Len(allocs)
<1>1. TypeOK /\ regions \in Seq(Region) /\ n \in Nat /\ allocs \in Seq(Alloc) /\ m \in Nat
  BY DEF SafetyInv, TypeOK
<1>2. bb \in Nat /\ bs \in Nat
  BY <1>1, RegionFields
<1>3. pages \in Nat /\ q.size <= pages
  <2>1. q.size \in Nat /\ PageSize \in Nat \ {0} /\ q.size + PageSize <= Word
    BY PmmAssumption DEF BootContract
  <2> QED
    BY <2>1, AlignUp
<1>4. /\ base \in Nat /\ bb <= base /\ base % alignment = 0
      /\ base + pages <= bb + bs /\ bb + bs <= RegionEnd(i) /\ RegionEnd(i) < Word
  BY <1>3, FitsExact
<1>5. /\ Carve(i, j, base, pages)
      /\ allocs' = Append(allocs, new)
  BY DEF Allocate
<1>6. \A k \in 1..n : /\ regions[k] \in Region
                      /\ regions[k].region_base \in Nat /\ regions[k].region_size \in Nat
                      /\ regions[k].free_bytes \in Nat
                      /\ RegionEnd(k) \in Nat
  BY <1>1, RegionFields DEF RegionEnd
<1>7. PICK blocks \in Seq(Block) :
        /\ Take(i, blocks, pages)
        /\ Len(blocks) <= 1
        /\ \A k \in 1..Len(blocks) : Untouched(blocks[k], bb, bs, base, pages)
  <2>1. Len(regions[i].free_blocks) <= 1
    BY DEF SafetyInv, BlocksInside
  <2>2. bb + bs < Word
    <3>1. \A x, y, z, w \in Nat : x + y <= z /\ z < w => x + y < w
      OBVIOUS
    <3>2. RegionEnd(i) \in Nat /\ Word \in Nat
      BY <1>6, WordAssumption
    <3> QED
      BY <1>2, <1>4, <3>1, <3>2, Zenon
  <2>3. bb = regions[i].free_blocks[j].block_base /\ bs = regions[i].free_blocks[j].block_size
    OBVIOUS
  <2> HIDE DEF pages, base, bb, bs, n, m, new
  <2>4. TypeOK /\ base \in Nat /\ pages \in Nat /\ Carve(i, j, base, pages)
    BY <1>1, <1>3, <1>4, <1>5
  <2>5. bb <= base /\ base + pages <= bb + bs
    BY <1>4
  <2>6. \E blocks \in Seq(Block) :
          /\ Take(i, blocks, pages)
          /\ Len(blocks) <= 1
          /\ \A k \in 1..Len(blocks) : Untouched(blocks[k], bb, bs, base, pages)
    BY <1>2, <2>1, <2>2, <2>3, <2>4, <2>5, CarveLeaves, Zenon
  <2> QED
    BY <2>6, Zenon
<1>8. /\ Len(regions') = n
      /\ \A k \in 1..n : k # i => regions'[k] = regions[k]
      /\ regions'[i] = [regions[i] EXCEPT !.free_blocks = blocks,
                                         !.free_bytes = @ - pages]
  <2> DEFINE region == [regions[i] EXCEPT !.free_blocks = blocks,
                                          !.free_bytes = @ - pages]
  <2>1. regions' = [regions EXCEPT ![i] = region]
    BY <1>7 DEF Take
  <2> HIDE DEF region
  <2>2. Len(regions') = n /\ regions'[i] = region
        /\ \A k \in 1..n : k # i => regions'[k] = regions[k]
    BY <1>1, <2>1
  <2> QED
    BY <2>2 DEF region
<1>9. /\ regions'[i].region_base = regions[i].region_base
      /\ regions'[i].region_size = regions[i].region_size
      /\ regions'[i].free_bytes = regions[i].free_bytes - pages
      /\ regions'[i].free_blocks = blocks
  <2> HIDE DEF pages
  <2> QED
    BY <1>6, <1>8 DEF Region
<1>10. \A k \in 1..n : /\ regions'[k].region_base = regions[k].region_base
                       /\ regions'[k].region_size = regions[k].region_size
  BY <1>8, <1>9
<1>11. /\ Len(allocs') = m + 1
       /\ \A a \in 1..m : allocs'[a] = allocs[a]
       /\ allocs'[m + 1] = new
       /\ \A a \in 1..(m + 1) : a \in 1..m \/ a = m + 1
  BY <1>1, <1>5
<1>12. new.base = base /\ new.size = pages /\ new.request = q.size /\ new.alignment = alignment
  OBVIOUS
<1>13. \A k \in 1..Len(blocks) :
         /\ blocks[k].block_base \in Nat /\ blocks[k].block_size \in Nat
  <2>1. \A k \in 1..Len(blocks) : blocks[k] \in Block
    OBVIOUS
  <2>2. \A b \in Block : b.block_base \in Nat /\ b.block_size \in Nat
    BY DEF Block
  <2> QED
    BY <2>1, <2>2
<1> HIDE DEF pages, bb, bs, base, new, n, m
<1>14. RegionsFromMap'
  BY <1>8, <1>10 DEF SafetyInv, RegionsFromMap, RegionEnd, n
<1>15. RegionsDisjoint'
  BY <1>8, <1>10 DEF SafetyInv, RegionsDisjoint, n
<1>16. BlocksInside'
  <2> SUFFICES ASSUME NEW k \in 1..n
               PROVE  /\ Len(regions'[k].free_blocks) <= 1
                      /\ \A h \in 1..Len(regions'[k].free_blocks) :
                           LET block == regions'[k].free_blocks[h]
                           IN  /\ regions[k].region_base <= block.block_base
                               /\ block.block_base + block.block_size <= RegionEnd(k)
                               /\ block.block_base + regions'[k].free_bytes <= RegionEnd(k)
    BY <1>8, <1>10 DEF BlocksInside, RegionEnd
  <2>1. CASE k # i
    BY <1>8, <2>1 DEF SafetyInv, BlocksInside, n
  <2>2. ASSUME k = i, NEW h \in 1..Len(blocks)
        PROVE  /\ regions[i].region_base <= blocks[h].block_base
               /\ blocks[h].block_base + blocks[h].block_size <= RegionEnd(i)
               /\ blocks[h].block_base + (regions[i].free_bytes - pages) <= RegionEnd(i)
    <3>1. Untouched(blocks[h], bb, bs, base, pages)
      BY <1>7
    <3>2. regions[i].region_base <= bb /\ bb + regions[i].free_bytes <= RegionEnd(i)
      BY DEF SafetyInv, BlocksInside, bb
    <3> DEFINE cb   == blocks[h].block_base
               cs   == blocks[h].block_size
               rb   == regions[i].region_base
               free == regions[i].free_bytes
               end  == RegionEnd(i)
    <3>3. /\ cb \in Nat /\ cs \in Nat /\ rb \in Nat /\ free \in Nat /\ end \in Nat
          /\ rb <= bb /\ bb + free <= end /\ bb + bs <= end
          /\ bb <= cb /\ cb + cs <= bb + bs
          /\ cb = bb \/ cb = bb + pages
      BY <1>4, <1>6, <1>13, <3>1, <3>2 DEF Untouched, n
    <3> HIDE DEF cb, cs, rb, free, end
    <3>4. rb <= cb /\ cb + cs <= end /\ cb + (free - pages) <= end
      BY <1>2, <1>3, <3>3
    <3> QED
      BY <3>4 DEF cb, cs, rb, free, end
  <2>3. CASE k = i
    BY <1>7, <1>9, <2>2, <2>3
  <2> QED
    BY <2>1, <2>3
<1>17. RegionEnd(i) = regions[i].region_base + regions[i].region_size
  BY DEF RegionEnd
<1>18. regions[i].region_base <= base /\ base + pages <= RegionEnd(i)
  <2>1. regions[i].region_base <= bb
    BY DEF SafetyInv, BlocksInside, bb
  <2>2. regions[i].region_base \in Nat /\ RegionEnd(i) \in Nat
    BY <1>6 DEF n
  <2> QED
    BY <1>2, <1>3, <1>4, <2>1, <2>2
<1>19. AllocationsServeRequests'
  <2> SUFFICES ASSUME NEW a \in 1..(m + 1)
               PROVE  /\ allocs'[a].base % allocs'[a].alignment = 0
                      /\ allocs'[a].request <= allocs'[a].size
                      /\ \E k \in 1..n :
                           /\ regions[k].region_base <= allocs'[a].base
                           /\ allocs'[a].base + allocs'[a].size
                                <= regions[k].region_base + regions[k].region_size
    BY <1>8, <1>10, <1>11 DEF AllocationsServeRequests
  <2>1. CASE a \in 1..m
    BY <1>11, <2>1 DEF SafetyInv, AllocationsServeRequests, m, n
  <2>2. CASE a = m + 1
    <3>1. i \in 1..n
      BY DEF n
    <3> QED
      BY <1>3, <1>4, <1>11, <1>12, <1>17, <1>18, <2>2, <3>1
  <2> QED
    BY <1>11, <2>1, <2>2
<1>20. \A a \in 1..m : allocs[a].base \in Nat /\ allocs[a].size \in Nat
  BY <1>1, AllocFields DEF m
<1>21. \A a \in 1..m : Disjoint(allocs[a].base, allocs[a].size, bb, bs)
  BY DEF SafetyInv, NoOverlap, m, bb, bs
<1>22. \A a \in 1..m : Disjoint(allocs[a].base, allocs[a].size, base, pages)
  BY <1>2, <1>3, <1>4, <1>20, <1>21, DisjointInBlock
<1>23. ASSUME NEW a \in 1..(m + 1), NEW b \in 1..(m + 1), a # b
       PROVE  Disjoint(allocs'[a].base, allocs'[a].size, allocs'[b].base, allocs'[b].size)
  <2>1. CASE a \in 1..m /\ b \in 1..m
    BY <1>11, <1>23, <2>1 DEF SafetyInv, NoOverlap, m
  <2>2. CASE a \in 1..m /\ b = m + 1
    BY <1>11, <1>12, <1>22, <2>2
  <2>3. CASE a = m + 1 /\ b \in 1..m
    BY <1>11, <1>12, <1>22, <2>3, DisjointSym
  <2> QED
    BY <1>11, <1>23, <2>1, <2>2, <2>3
<1>24. ASSUME NEW a \in 1..(m + 1), NEW k \in 1..n,
              NEW h \in 1..Len(regions'[k].free_blocks)
       PROVE  Disjoint(allocs'[a].base, allocs'[a].size,
                       regions'[k].free_blocks[h].block_base,
                       regions'[k].free_blocks[h].block_size)
  <2>1. CASE a \in 1..m /\ k # i
    BY <1>8, <1>11, <2>1 DEF SafetyInv, NoOverlap, m, n
  <2>2. CASE k = i
    <3>1. h \in 1..Len(blocks) /\ regions'[k].free_blocks[h] = blocks[h]
      BY <1>9, <2>2
    <3>2. blocks[h].block_base \in Nat /\ blocks[h].block_size \in Nat
      BY <1>13, <3>1
    <3>3. Untouched(blocks[h], bb, bs, base, pages)
      BY <1>7, <3>1
    <3>4. CASE a \in 1..m
      <4>1. Disjoint(allocs[a].base, allocs[a].size,
                     blocks[h].block_base, blocks[h].block_size)
        BY <1>2, <1>20, <1>21, <3>2, <3>3, <3>4, DisjointInBlock DEF Untouched
      <4> QED
        BY <1>11, <3>1, <3>4, <4>1
    <3>5. CASE a = m + 1
      <4>1. Disjoint(base, pages, blocks[h].block_base, blocks[h].block_size)
        BY <3>3 DEF Untouched, Disjoint
      <4> QED
        BY <1>11, <1>12, <3>1, <3>5, <4>1
    <3> QED
      BY <1>11, <3>4, <3>5
  <2>3. CASE a = m + 1 /\ k # i
    <3>1. Disjoint(regions[i].region_base, regions[i].region_size,
                   regions[k].region_base, regions[k].region_size)
      BY <2>3 DEF SafetyInv, RegionsDisjoint, n
    <3>2. h \in 1..Len(regions[k].free_blocks) /\ regions'[k] = regions[k]
      BY <1>8, <2>3
    <3> DEFINE cb == regions[k].free_blocks[h].block_base
               cs == regions[k].free_blocks[h].block_size
    <3>3. cb \in Nat /\ cs \in Nat
      BY <1>1, <3>2, RegionFields DEF n
    <3>4. /\ regions[k].region_base <= cb
          /\ cb + cs <= regions[k].region_base + regions[k].region_size
      BY <3>2 DEF SafetyInv, BlocksInside, RegionEnd, n
    <3> HIDE DEF cb, cs
    <3>5. Disjoint(regions[i].region_base, regions[i].region_size, cb, cs)
      BY <1>6, <3>1, <3>3, <3>4, DisjointInBlock DEF n
    <3>6. Disjoint(cb, cs, regions[i].region_base, regions[i].region_size)
      BY <3>5, DisjointSym
    <3>7. Disjoint(cb, cs, base, pages)
      <4>1. regions[i].region_base \in Nat /\ regions[i].region_size \in Nat
        BY <1>6 DEF n
      <4>2. base + pages <= regions[i].region_base + regions[i].region_size
        BY <1>17, <1>18
      <4> QED
        BY <1>3, <1>4, <1>18, <3>3, <3>6, <4>1, <4>2, DisjointInBlock, Zenon
    <3>8. Disjoint(base, pages, cb, cs)
      BY <3>7, DisjointSym
    <3> QED
      BY <1>11, <1>12, <2>3, <3>2, <3>8 DEF cb, cs
  <2> QED
    BY <1>11, <2>1, <2>2, <2>3
<1>25. NoOverlap'
  BY <1>8, <1>11, <1>23, <1>24 DEF NoOverlap
<1> QED
  BY <1>14, <1>15, <1>16, <1>19, <1>25 DEF SafetyInv

-----------------------------------------------------------------------------
(***************************************************************************)
(* The invariant and what follows from it.                                 *)
(***************************************************************************)

\* The invariant is about regions and allocs only.
LEMMA UnchangedSafe ==
  ASSUME SafetyInv, TypeOK', UNCHANGED <<regions, allocs>>
  PROVE  SafetyInv'
<1>1. RegionsFromMap' /\ BlocksInside'
  BY DEF SafetyInv, RegionsFromMap, BlocksInside, RegionEnd
<1>2. RegionsDisjoint' /\ AllocationsServeRequests'
  BY DEF SafetyInv, RegionsDisjoint, AllocationsServeRequests
<1>3. NoOverlap'
  BY DEF SafetyInv, NoOverlap
<1> QED
  BY <1>1, <1>2, <1>3 DEF SafetyInv

\* Every step of pmm.c keeps the safety invariant.
LEMMA SafetyStep ==
  ASSUME BootContract, SafetyInv, [Next]_vars
  PROVE  SafetyInv'
<1>1. TypeOK'
  BY TypeStep DEF SafetyInv
<1>2. ASSUME NEW err \in ErrorCode, Fail(err) PROVE SafetyInv'
  BY <1>1, <1>2, UnchangedSafe DEF Fail
<1>3. CASE Halt
  BY <1>1, <1>3, UnchangedSafe DEF Halt
<1>4. ASSUME NEW pol \in Policies, pmm_initialize(pol) PROVE SafetyInv'
  BY <1>1, <1>4, UnchangedSafe DEF pmm_initialize
<1>5. ASSUME NEW r \in RegionInputs, pmm_add_region(r.base, r.size) PROVE SafetyInv'
  BY <1>1, <1>2, <1>3, <1>5, AddRegionOutcomes, AddRegionSafe
<1>6. ASSUME NEW q \in AllocInputs, NEW alignment \in {q.alignment, PageSize},
             NEW out \in BOOLEAN, pmm_alloc_aligned(q.size, alignment, out)
      PROVE  SafetyInv'
  <2>1. ASSUME ~BadAlignment(alignment),
               NEW i \in 1..Len(regions), NEW j \in 1..Len(regions[i].free_blocks),
               Fits(i, j, ALIGN_UP(q.size, PageSize), alignment),
               Allocate(i, j, q.size, alignment)
        PROVE  SafetyInv'
    <3>1. alignment \in Nat \ {0}
      BY <2>1, PmmAssumption DEF BadAlignment
    <3> QED
      BY <1>1, <2>1, <3>1, AllocateSafe
  <2> QED
    BY <1>2, <1>3, <1>6, <2>1, AllocOutcomes
<1>7. ASSUME NEW a \in 1..Len(allocs), Write(a) PROVE SafetyInv'
  BY <1>1, <1>7, UnchangedSafe DEF Write
<1>8. CASE UNCHANGED vars
  BY <1>1, <1>8, UnchangedSafe DEF vars
<1> QED
  BY <1>2, <1>4, <1>5, <1>6, <1>7, <1>8, NextOutcomes

\* The safety invariant holds at start.
LEMMA SafetyInit ==
  ASSUME Init
  PROVE  SafetyInv
<1>1. Len(regions) = 0 /\ Len(allocs) = 0 /\ 1..0 = {}
  BY DEF Init
<1>2. TypeOK
  BY DEF Init, TypeOK, ErrorCode
<1> QED
  BY <1>1, <1>2 DEF SafetyInv, RegionsFromMap, RegionsDisjoint, BlocksInside,
                    AllocationsServeRequests, NoOverlap

\* The inductive invariant holds in every state pmm.c reaches.
THEOREM Safety == ASSUME BootContract PROVE Spec => []SafetyInv
<1>1. Init => SafetyInv
  BY SafetyInit
<1>2. SafetyInv /\ [Next]_vars => SafetyInv'
  BY SafetyStep
<1> QED
  BY <1>1, <1>2, PTL DEF Spec

(***************************************************************************)
(* pmm_alloc_aligned never returns a byte twice and never leaves a byte it *)
(* returned on a free list.                                                *)
(***************************************************************************)
THEOREM NoDoubleAllocation == ASSUME BootContract PROVE Spec => []NoOverlap
<1>1. SafetyInv => NoOverlap
  BY DEF SafetyInv
<1> QED
  BY <1>1, Safety, PTL

(***************************************************************************)
(* Every block pmm_alloc_aligned returns is aligned, as long as was asked  *)
(* for, and inside one managed region.                                     *)
(***************************************************************************)
THEOREM RequestsServed == ASSUME BootContract PROVE Spec => []AllocationsServeRequests
<1>1. SafetyInv => AllocationsServeRequests
  BY DEF SafetyInv
<1> QED
  BY <1>1, Safety, PTL

(***************************************************************************)
(* The regions pmm_add_region accepts never share a byte, although it only *)
(* compares the first byte of a region with those it manages.              *)
(***************************************************************************)
THEOREM RegionsApart == ASSUME BootContract PROVE Spec => []RegionsDisjoint
<1>1. SafetyInv => RegionsDisjoint
  BY DEF SafetyInv
<1> QED
  BY <1>1, Safety, PTL

\* Ranges that are disjoint have no byte in common.
LEMMA DisjointBytes ==
  ASSUME NEW b \in Nat, NEW n \in Nat, NEW c \in Nat, NEW m \in Nat,
         Disjoint(b, n, c, m)
  PROVE  Bytes(b, n) \intersect Bytes(c, m) = {}
  BY DEF Disjoint, Bytes

\* Only an allocation zeroes memory, and only its own.
LEMMA LiveStep ==
  ASSUME BootContract, SafetyInv, [Next]_vars, NEW a \in 1..Len(allocs)
  PROVE  Bytes(allocs[a].base, allocs[a].size) \intersect zeroed' \subseteq zeroed
<1> DEFINE mine == Bytes(allocs[a].base, allocs[a].size)
           Goal == mine \intersect zeroed' \subseteq zeroed
<1>1. zeroed' \subseteq zeroed => Goal
  OBVIOUS
<1>2. TypeOK /\ TypeOK' /\ NoOverlap'
  BY SafetyStep DEF SafetyInv
<1>3. ASSUME NEW err \in ErrorCode, Fail(err) PROVE Goal
  BY <1>1, <1>3 DEF Fail
<1>4. CASE Halt
  BY <1>1, <1>4 DEF Halt
<1>5. ASSUME NEW pol \in Policies, pmm_initialize(pol) PROVE Goal
  BY <1>1, <1>5 DEF pmm_initialize
<1>6. ASSUME NEW r \in RegionInputs, pmm_add_region(r.base, r.size) PROVE Goal
  <2>1. ASSUME NEW base, NEW size, AddRegion(base, size) PROVE Goal
    BY <1>1, <2>1 DEF AddRegion
  <2> QED
    BY <1>3, <1>4, <1>6, <2>1, AddRegionOutcomes
<1>7. ASSUME NEW size, NEW alignment,
             NEW i \in 1..Len(regions), NEW j \in 1..Len(regions[i].free_blocks),
             Allocate(i, j, size, alignment)
      PROVE  Goal
  <2> DEFINE pages == ALIGN_UP(size, PageSize)
             base  == ALIGN_UP(regions[i].free_blocks[j].block_base, alignment)
             new   == [base |-> base, size |-> pages,
                       request |-> size, alignment |-> alignment]
             m     == Len(allocs)
  <2>1. allocs' = Append(allocs, new) /\ zeroed' = zeroed \union Bytes(base, pages)
    BY <1>7 DEF Allocate
  <2>2. new.base = base /\ new.size = pages
    OBVIOUS
  <2> HIDE DEF new, base, pages
  <2>3. /\ allocs'[a] = allocs[a] /\ allocs'[m + 1] = new
        /\ a \in 1..Len(allocs') /\ m + 1 \in 1..Len(allocs') /\ a # m + 1
    BY <1>2, <2>1 DEF TypeOK
  <2>4. Disjoint(allocs[a].base, allocs[a].size, base, pages)
    BY <1>2, <2>2, <2>3 DEF NoOverlap
  <2>5. allocs[a].base \in Nat /\ allocs[a].size \in Nat
    BY <1>2, AllocFields
  <2>6. base \in Nat /\ pages \in Nat
    <3>1. new \in Alloc
      BY <1>2, <2>3 DEF TypeOK
    <3> QED
      BY <2>2, <3>1 DEF Alloc
  <2>7. mine \intersect Bytes(base, pages) = {}
    BY <2>4, <2>5, <2>6, DisjointBytes
  <2> QED
    BY <2>1, <2>7
<1>8. ASSUME NEW q \in AllocInputs, NEW alignment \in {q.alignment, PageSize},
             NEW out \in BOOLEAN, pmm_alloc_aligned(q.size, alignment, out)
      PROVE  Goal
  BY <1>3, <1>4, <1>7, <1>8, AllocOutcomes
<1>9. ASSUME NEW b \in 1..Len(allocs), Write(b) PROVE Goal
  BY <1>1, <1>9 DEF Write
<1>10. CASE UNCHANGED vars
  BY <1>1, <1>10 DEF vars
<1> HIDE DEF Goal
<1> QED
  BY <1>3, <1>5, <1>6, <1>8, <1>9, <1>10, NextOutcomes DEF Goal

(***************************************************************************)
(* The memzero of a later pmm_alloc_aligned never clears what the owner of *)
(* an earlier allocation wrote.                                            *)
(***************************************************************************)
THEOREM LiveDataKept == ASSUME BootContract PROVE Spec => LiveDataSurvives
<1>1. SafetyInv /\ [Next]_vars =>
        [\A a \in 1..Len(allocs) :
           Bytes(allocs[a].base, allocs[a].size) \intersect zeroed' \subseteq zeroed]_vars
  BY LiveStep
<1> QED
  BY <1>1, Safety, PTL DEF Spec, LiveDataSurvives

-----------------------------------------------------------------------------
(***************************************************************************)
(* Proofs about what the counters of Pmm say, and about what the manager   *)
(* delivers when it is driven the way the kernel drives it: first fit,     *)
(* page alignment only, an arena with a node for every region.             *)
(***************************************************************************)

-----------------------------------------------------------------------------
(***************************************************************************)
(* Sets of bytes and how many they hold.                                   *)
(***************************************************************************)

\* A range of n bytes holds n bytes.
LEMMA BytesCount ==
  ASSUME NEW b \in Nat, NEW n \in Nat
  PROVE  IsFiniteSet(Bytes(b, n)) /\ Cardinality(Bytes(b, n)) = n
<1>1. b \in Int /\ b + n - 1 \in Int
  OBVIOUS
<1>2. /\ IsFiniteSet(b..(b + n - 1))
      /\ Cardinality(b..(b + n - 1)) = IF b > b + n - 1 THEN 0 ELSE (b + n - 1) - b + 1
  BY <1>1, FS_Interval
<1> QED
  BY <1>2 DEF Bytes

\* A range inside a range, and a range of addresses below a bound.
LEMMA BytesInside ==
  ASSUME NEW b \in Nat, NEW n \in Nat, NEW c \in Nat, NEW m \in Nat,
         c <= b, b + n <= c + m
  PROVE  Bytes(b, n) \subseteq Bytes(c, m)
  BY DEF Bytes

\* A range that ends below the top has no byte from top - 1 on.
LEMMA BytesBelow ==
  ASSUME NEW b \in Nat, NEW n \in Nat, NEW top \in Nat, b + n < top
  PROVE  Bytes(b, n) \subseteq 0..(top - 2)
  BY DEF Bytes

\* Taking some elements out of a set.
LEMMA CountTaken ==
  ASSUME NEW F, IsFiniteSet(F), NEW B \in SUBSET F
  PROVE  Cardinality(F \ B) = Cardinality(F) - Cardinality(B)
<1>1. F \intersect B = B
  OBVIOUS
<1>2. Cardinality(F \ B) = Cardinality(F) - Cardinality(F \intersect B)
  BY FS_Difference
<1> QED
  BY <1>1, <1>2

\* Sets without a common element.
LEMMA CountAdded ==
  ASSUME NEW S, NEW T, IsFiniteSet(S), IsFiniteSet(T), S \intersect T = {}
  PROVE  Cardinality(S \union T) = Cardinality(S) + Cardinality(T)
<1>1. Cardinality(S \union T)
        = Cardinality(S) + Cardinality(T) - Cardinality(S \intersect T)
  BY FS_Union
<1>2. Cardinality(S) \in Nat /\ Cardinality(T) \in Nat
  BY FS_CardinalityType
<1> QED
  BY <1>1, <1>2, FS_EmptySet

\* The managed bytes are addresses below the top of the address space.
LEMMA ManagedWords ==
  ASSUME BootContract, SafetyInv
  PROVE  /\ Managed \subseteq 0..(Word - 2)
         /\ IsFiniteSet(Managed)
         /\ \A i \in 1..Len(regions) : /\ RegionBytes(i) \subseteq Managed
                                       /\ IsFiniteSet(RegionBytes(i))
<1>1. ASSUME NEW i \in 1..Len(regions)
      PROVE  RegionBytes(i) \subseteq 0..(Word - 2)
  <2>1. PICK r \in RegionInputs :
          /\ r.base \in Nat /\ r.size \in Nat
          /\ RegionEnd(i) <= r.base + r.size
          /\ r.base + r.size + PageSize <= Word
    BY RegionInMap
  <2>2. /\ regions[i].region_base \in Nat /\ regions[i].region_size \in Nat
        /\ PageSize \in Nat \ {0} /\ Word \in Nat
    BY RegionFields, PmmAssumption, WordAssumption DEF SafetyInv
  <2>3. RegionEnd(i) < Word /\ RegionEnd(i) \in Nat
    <3>1. RegionEnd(i) \in Nat
      BY <2>2 DEF RegionEnd
    <3> DEFINE end == RegionEnd(i)
    <3> HIDE DEF end
    <3>2. end \in Nat /\ end <= r.base + r.size
      BY <2>1, <3>1 DEF end
    <3>3. end < Word
      BY <2>1, <2>2, <3>2
    <3> QED
      BY <3>1, <3>3 DEF end
  <2> QED
    BY <2>2, <2>3, BytesBelow DEF RegionEnd, RegionBytes
<1>2. Managed \subseteq 0..(Word - 2)
  BY <1>1 DEF Managed
<1>3. IsFiniteSet(0..(Word - 2))
  BY FS_Interval, WordAssumption
<1>4. \A i \in 1..Len(regions) : RegionBytes(i) \subseteq Managed
  BY DEF Managed
<1> QED
  BY <1>2, <1>3, <1>4, FS_Subset

\* Everything handed out is managed.
LEMMA HandedOutManaged ==
  ASSUME SafetyInv
  PROVE  HandedOut \subseteq Managed
<1> SUFFICES ASSUME NEW a \in 1..Len(allocs), NEW x \in Bytes(allocs[a].base, allocs[a].size)
             PROVE  x \in Managed
  BY DEF HandedOut
<1>1. PICK i \in 1..Len(regions) :
        /\ regions[i].region_base <= allocs[a].base
        /\ allocs[a].base + allocs[a].size
             <= regions[i].region_base + regions[i].region_size
  BY DEF SafetyInv, AllocationsServeRequests
<1>2. /\ allocs[a].base \in Nat /\ allocs[a].size \in Nat
      /\ regions[i].region_base \in Nat /\ regions[i].region_size \in Nat
  BY AllocFields, RegionFields DEF SafetyInv
<1>3. Bytes(allocs[a].base, allocs[a].size) \subseteq RegionBytes(i)
  <2> DEFINE b  == allocs[a].base
             s  == allocs[a].size
             rb == regions[i].region_base
             rs == regions[i].region_size
  <2>1. b \in Nat /\ s \in Nat /\ rb \in Nat /\ rs \in Nat /\ rb <= b /\ b + s <= rb + rs
    BY <1>1, <1>2
  <2> HIDE DEF b, s, rb, rs
  <2>2. Bytes(b, s) \subseteq Bytes(rb, rs)
    BY <2>1, BytesInside
  <2> QED
    BY <2>2 DEF RegionBytes, b, s, rb, rs
<1> QED
  BY <1>3 DEF Managed

\* Regions have no byte in common.
LEMMA RegionBytesApart ==
  ASSUME SafetyInv, NEW i \in 1..Len(regions), NEW k \in 1..Len(regions), i # k
  PROVE  RegionBytes(i) \intersect RegionBytes(k) = {}
<1>1. Disjoint(regions[i].region_base, regions[i].region_size,
               regions[k].region_base, regions[k].region_size)
  BY DEF SafetyInv, RegionsDisjoint
<1>2. /\ regions[i].region_base \in Nat /\ regions[i].region_size \in Nat
      /\ regions[k].region_base \in Nat /\ regions[k].region_size \in Nat
  BY RegionFields DEF SafetyInv
<1> QED
  BY <1>1, <1>2, DisjointBytes DEF RegionBytes

-----------------------------------------------------------------------------
(***************************************************************************)
(* The two steps that change the counters.                                 *)
(***************************************************************************)

\* What pmm_add_region leaves in the array.
LEMMA AddRegionEffect ==
  ASSUME TypeOK, NEW base \in Nat, NEW size \in Nat, AddRegion(base, size)
  PROVE  LET n == Len(regions)
         IN  /\ n \in Nat /\ Len(regions') = n + 1
             /\ \A k \in 1..n : regions'[k] = regions[k]
             /\ regions'[n + 1].region_base = base
             /\ regions'[n + 1].region_size = size
             /\ regions'[n + 1].free_bytes = size
             /\ regions'[n + 1].free_blocks = <<[block_base |-> base, block_size |-> size]>>
             /\ \A k \in 1..(n + 1) : k \in 1..n \/ k = n + 1
             /\ 1..n \subseteq 1..(n + 1) /\ n + 1 \in 1..(n + 1)
<1> DEFINE new == [region_base |-> base, region_size |-> size, free_bytes |-> size,
                   free_blocks |-> <<[block_base |-> base, block_size |-> size]>>]
           n == Len(regions)
<1>1. regions \in Seq(Region) /\ n \in Nat
  BY DEF TypeOK
<1>2. regions' = Append(regions, new)
  BY DEF AddRegion
<1>3. /\ new.region_base = base /\ new.region_size = size /\ new.free_bytes = size
      /\ new.free_blocks = <<[block_base |-> base, block_size |-> size]>>
  OBVIOUS
<1> HIDE DEF new
<1>4. Len(regions') = n + 1 /\ (\A k \in 1..n : regions'[k] = regions[k])
      /\ regions'[n + 1] = new
  BY <1>1, <1>2
<1> HIDE DEF n
<1>5. /\ \A k \in 1..(n + 1) : k \in 1..n \/ k = n + 1
      /\ 1..n \subseteq 1..(n + 1) /\ n + 1 \in 1..(n + 1)
  BY <1>1 DEF n
<1> QED
  BY <1>1, <1>3, <1>4, <1>5 DEF n

\* What taking bytes out of a region leaves in the array.
LEMMA TakeEffect ==
  ASSUME TypeOK, NEW i \in 1..Len(regions), NEW blocks, NEW size, Take(i, blocks, size)
  PROVE  /\ Len(regions') = Len(regions)
         /\ \A k \in 1..Len(regions) : k # i => regions'[k] = regions[k]
         /\ regions'[i].region_base = regions[i].region_base
         /\ regions'[i].region_size = regions[i].region_size
         /\ regions'[i].free_bytes = regions[i].free_bytes - size
         /\ regions'[i].free_blocks = blocks
<1> DEFINE region == [regions[i] EXCEPT !.free_blocks = blocks, !.free_bytes = @ - size]
<1>1. regions \in Seq(Region) /\ regions[i] \in Region
  BY RegionFields DEF TypeOK
<1>2. regions' = [regions EXCEPT ![i] = region]
  BY DEF Take
<1>3. /\ region.region_base = regions[i].region_base
      /\ region.region_size = regions[i].region_size
      /\ region.free_bytes = regions[i].free_bytes - size
      /\ region.free_blocks = blocks
  BY <1>1 DEF Region
<1> HIDE DEF region
<1> QED
  BY <1>1, <1>2, <1>3

\* What an allocation from block j of region i changes: the count of region i,
\* and the list of allocations, by a range inside region i that nobody has.
TakesRange(i, base, pages) ==
  /\ base \in Nat /\ pages \in Nat
  /\ regions[i].region_base <= base /\ base + pages <= RegionEnd(i)
  /\ pages <= regions[i].free_bytes
  /\ Len(regions') = Len(regions)
  /\ \A k \in 1..Len(regions) : k # i => regions'[k] = regions[k]
  /\ regions'[i].region_base = regions[i].region_base
  /\ regions'[i].region_size = regions[i].region_size
  /\ regions'[i].free_bytes = regions[i].free_bytes - pages
  /\ HandedOut' = HandedOut \union Bytes(base, pages)
  /\ HandedOut \intersect Bytes(base, pages) = {}

\* Every allocation that fits has this effect.
LEMMA AllocateEffect ==
  ASSUME BootContract, SafetyInv, NEW q \in AllocInputs,
         NEW alignment \in {q.alignment, PageSize}, alignment \in Nat \ {0},
         NEW i \in 1..Len(regions), NEW j \in 1..Len(regions[i].free_blocks),
         Fits(i, j, ALIGN_UP(q.size, PageSize), alignment),
         Allocate(i, j, q.size, alignment)
  PROVE  TakesRange(i, ALIGN_UP(regions[i].free_blocks[j].block_base, alignment),
                    ALIGN_UP(q.size, PageSize))
<1> DEFINE pages == ALIGN_UP(q.size, PageSize)
           bb    == regions[i].free_blocks[j].block_base
           bs    == regions[i].free_blocks[j].block_size
           base  == ALIGN_UP(bb, alignment)
           new   == [base |-> base, size |-> pages,
                     request |-> q.size, alignment |-> alignment]
           m     == Len(allocs)
<1>1. TypeOK /\ allocs \in Seq(Alloc) /\ m \in Nat
  BY DEF SafetyInv, TypeOK
<1>2. /\ bb \in Nat /\ bs \in Nat /\ regions[i].region_base \in Nat
      /\ regions[i].region_size \in Nat /\ RegionEnd(i) \in Nat
  BY <1>1, RegionFields DEF RegionEnd
<1>3. pages \in Nat
  <2>1. q.size \in Nat /\ PageSize \in Nat \ {0}
    BY PmmAssumption
  <2> QED
    BY <2>1, AlignUpNat
<1>4. /\ base \in Nat /\ bb <= base
      /\ base + pages <= bb + bs /\ bb + bs <= RegionEnd(i)
  BY <1>3, FitsExact
<1>5. Carve(i, j, base, pages) /\ allocs' = Append(allocs, new)
  BY DEF Allocate
<1>6. \E blocks : Take(i, blocks, pages)
  BY <1>5 DEF Carve
<1>7. pages <= regions[i].free_bytes
  <2>1. regions[i].free_bytes >= pages
    BY DEF Fits
  <2> QED
    BY <1>1, <1>3, <2>1, RegionFields
<1>8. regions[i].region_base <= bb
  BY DEF SafetyInv, BlocksInside
<1>9. \A a \in 1..m : Disjoint(allocs[a].base, allocs[a].size, bb, bs)
  BY DEF SafetyInv, NoOverlap
<1>10. new.base = base /\ new.size = pages
  OBVIOUS
<1> HIDE DEF pages, base, bb, bs, new
<1>11. /\ Len(allocs') = m + 1
       /\ \A a \in 1..m : allocs'[a] = allocs[a]
       /\ allocs'[m + 1] = new
       /\ \A a \in 1..(m + 1) : a \in 1..m \/ a = m + 1
       /\ 1..m \subseteq 1..(m + 1) /\ m + 1 \in 1..(m + 1)
  BY <1>1, <1>5
<1> HIDE DEF m
<1>12. HandedOut' = HandedOut \union Bytes(base, pages)
  BY <1>10, <1>11 DEF HandedOut, Bytes, m
<1>13. ASSUME NEW a \in 1..m
       PROVE  Bytes(allocs[a].base, allocs[a].size) \intersect Bytes(base, pages) = {}
  <2>1. allocs[a].base \in Nat /\ allocs[a].size \in Nat
    BY <1>1, AllocFields DEF m
  <2>2. Disjoint(allocs[a].base, allocs[a].size, base, pages)
    BY <1>2, <1>3, <1>4, <1>9, <2>1, DisjointInBlock
  <2> QED
    BY <1>3, <1>4, <2>1, <2>2, DisjointBytes
<1>14. HandedOut \intersect Bytes(base, pages) = {}
  BY <1>13 DEF HandedOut, m
<1>15. regions[i].region_base <= base /\ base + pages <= RegionEnd(i)
  BY <1>2, <1>3, <1>4, <1>8
<1>16. /\ Len(regions') = Len(regions)
       /\ \A k \in 1..Len(regions) : k # i => regions'[k] = regions[k]
       /\ regions'[i].region_base = regions[i].region_base
       /\ regions'[i].region_size = regions[i].region_size
       /\ regions'[i].free_bytes = regions[i].free_bytes - pages
  <2>1. PICK blocks : Take(i, blocks, pages)
    BY <1>6
  <2> QED
    BY <1>1, <2>1, TakeEffect
<1>17. TakesRange(i, base, pages)
  BY <1>3, <1>4, <1>7, <1>12, <1>14, <1>15, <1>16 DEF TakesRange
<1> QED
  BY <1>17 DEF pages, base, bb

\* A region counted in full is added to the totals without wrapping.
LEMMA AddRegionCounts ==
  ASSUME BootContract, SafetyInv, SafetyInv', CountersExact, NEW r \in RegionInputs,
         ~TooSmall(r.base, r.size), ~AlreadyManaged(AlignedBase(r.base)),
         AddRegion(AlignedBase(r.base), AlignedSize(r.base, r.size))
  PROVE  CountersExact'
<1> DEFINE base == AlignedBase(r.base)
           size == AlignedSize(r.base, r.size)
           new  == Bytes(base, size)
<1>0. PICK n \in Nat : n = Len(regions)
  BY DEF SafetyInv, TypeOK
<1>1. base \in Nat /\ size \in Nat /\ AddRegion(base, size) /\ TypeOK
  BY AcceptedRegion DEF SafetyInv
<1> HIDE DEF base, size
<1>2. /\ n \in Nat /\ Len(regions') = n + 1
      /\ \A k \in 1..n : regions'[k] = regions[k]
      /\ regions'[n + 1].region_base = base
      /\ regions'[n + 1].region_size = size
      /\ regions'[n + 1].free_bytes = size
      /\ \A k \in 1..(n + 1) : k \in 1..n \/ k = n + 1
      /\ 1..n \subseteq 1..(n + 1) /\ n + 1 \in 1..(n + 1)
  BY <1>0, <1>1, AddRegionEffect
<1>3. HandedOut' = HandedOut
  BY <1>1 DEF HandedOut, AddRegion, Bytes
<1>4. IsFiniteSet(new) /\ Cardinality(new) = size
  BY <1>1, BytesCount
<1> HIDE DEF new
<1>5. /\ \A k \in 1..n : RegionBytes(k)' = RegionBytes(k)
      /\ RegionBytes(n + 1)' = new
  BY <1>2 DEF RegionBytes, Bytes, new
<1>6. Managed' = Managed \union new
  BY <1>0, <1>2, <1>5 DEF Managed
<1>7. Managed \intersect new = {}
  <2> SUFFICES ASSUME NEW k \in 1..n
               PROVE  RegionBytes(k) \intersect new = {}
    BY <1>0 DEF Managed
  <2>1. RegionBytes(k)' \intersect RegionBytes(n + 1)' = {}
    <3>1. k \in 1..Len(regions') /\ n + 1 \in 1..Len(regions') /\ k # n + 1
      BY <1>2
    <3>2. Disjoint(regions'[k].region_base, regions'[k].region_size,
                   regions'[n + 1].region_base, regions'[n + 1].region_size)
      BY <3>1 DEF SafetyInv, RegionsDisjoint
    <3>3. regions[k].region_base \in Nat /\ regions[k].region_size \in Nat
      BY <1>0, <1>1, RegionFields
    <3> QED
      BY <1>1, <1>2, <1>5, <3>2, <3>3, DisjointBytes DEF RegionBytes
  <2> QED
    BY <1>5, <2>1
<1>8. HandedOut \subseteq Managed
  BY HandedOutManaged
<1>9. new \ HandedOut = new /\ Managed' \ HandedOut = (Managed \ HandedOut) \union new
  BY <1>6, <1>7, <1>8
<1>10. IsFiniteSet(Managed) /\ IsFiniteSet(Managed \ HandedOut)
  BY ManagedWords, FS_Difference
<1>11. /\ Cardinality(Managed') = Cardinality(Managed) + size
       /\ Cardinality(Managed' \ HandedOut) = Cardinality(Managed \ HandedOut) + size
  BY <1>4, <1>6, <1>7, <1>9, <1>10, CountAdded
<1>12. /\ Cardinality(Managed) \in Nat /\ Cardinality(Managed \ HandedOut) \in Nat
       /\ Cardinality(Managed) + size < Word
       /\ Cardinality(Managed \ HandedOut) + size < Word
  <2>1. Managed' \subseteq 0..(Word - 2)
    <3>1. Managed \subseteq 0..(Word - 2)
      BY ManagedWords
    <3>2. base + size < Word
      <4>1. r.base \in Nat /\ r.size \in Nat /\ r.base + r.size + PageSize <= Word
        BY PmmAssumption DEF BootContract
      <4>2. base + size <= r.base + r.size
        BY AcceptedRegion DEF base, size
      <4> QED
        BY <1>1, <4>1, <4>2, PmmAssumption, WordAssumption
    <3> QED
      BY <1>1, <1>6, <3>1, <3>2, WordAssumption, BytesBelow DEF new
  <2>2. IsFiniteSet(0..(Word - 2)) /\ Cardinality(0..(Word - 2)) < Word
    BY FS_Interval, WordAssumption, SMTT(20)
  <2>3. Cardinality(Managed') <= Cardinality(0..(Word - 2))
        /\ Cardinality(0..(Word - 2)) \in Nat
    BY <2>1, <2>2, FS_Subset, FS_CardinalityType
  <2>4. Cardinality(Managed \ HandedOut) <= Cardinality(Managed)
        /\ Cardinality(Managed) \in Nat /\ Cardinality(Managed \ HandedOut) \in Nat
    BY <1>10, FS_Subset, FS_CardinalityType
  <2> QED
    BY <1>1, <1>11, <2>2, <2>3, <2>4, WordAssumption
<1>13. total_bytes' = total_bytes + size /\ free_bytes' = free_bytes + size
  <2>1. /\ total_bytes = Cardinality(Managed) /\ free_bytes = Cardinality(Managed \ HandedOut)
        /\ total_bytes' = WAdd(total_bytes, size) /\ free_bytes' = WAdd(free_bytes, size)
    BY <1>1 DEF CountersExact, AddRegion
  <2>2. total_bytes \in Nat /\ free_bytes \in Nat
        /\ total_bytes + size < Word /\ free_bytes + size < Word
    BY <1>12, <2>1
  <2> QED
    BY <1>1, <2>1, <2>2, WAddExact
<1>14. \A k \in 1..(n + 1) :
         regions'[k].free_bytes = Cardinality(RegionBytes(k)' \ HandedOut)
  <2>1. ASSUME NEW k \in 1..n
        PROVE  regions'[k].free_bytes = Cardinality(RegionBytes(k)' \ HandedOut)
    BY <1>0, <1>2, <1>5 DEF CountersExact
  <2>2. regions'[n + 1].free_bytes = Cardinality(RegionBytes(n + 1)' \ HandedOut)
    BY <1>2, <1>4, <1>5, <1>9
  <2> QED
    BY <1>2, <2>1, <2>2
<1>15. free_bytes' = Cardinality(Managed' \ HandedOut) /\ total_bytes' = Cardinality(Managed')
  BY <1>11, <1>13 DEF CountersExact
<1> QED
  BY <1>2, <1>3, <1>14, <1>15 DEF CountersExact

\* An allocation is subtracted from its own region and from the total.
LEMMA AllocateCounts ==
  ASSUME BootContract, SafetyInv, CountersExact, NEW q \in AllocInputs,
         NEW alignment \in {q.alignment, PageSize}, alignment \in Nat \ {0},
         NEW i \in 1..Len(regions), NEW j \in 1..Len(regions[i].free_blocks),
         Fits(i, j, ALIGN_UP(q.size, PageSize), alignment),
         Allocate(i, j, q.size, alignment)
  PROVE  CountersExact'
<1> DEFINE pages == ALIGN_UP(q.size, PageSize)
           base  == ALIGN_UP(regions[i].free_blocks[j].block_base, alignment)
           mine  == Bytes(base, pages)
           n     == Len(regions)
<1>1. /\ base \in Nat /\ pages \in Nat
      /\ regions[i].region_base <= base /\ base + pages <= RegionEnd(i)
      /\ Len(regions') = n
      /\ \A k \in 1..n : k # i => regions'[k] = regions[k]
      /\ regions'[i].region_base = regions[i].region_base
      /\ regions'[i].region_size = regions[i].region_size
      /\ regions'[i].free_bytes = regions[i].free_bytes - pages
      /\ HandedOut' = HandedOut \union mine
      /\ HandedOut \intersect mine = {}
  <2>1. TakesRange(i, base, pages)
    BY AllocateEffect
  <2> HIDE DEF base, pages
  <2> QED
    BY <2>1 DEF TakesRange
<1>2. free_bytes' = free_bytes - pages /\ total_bytes' = total_bytes
  BY DEF Allocate
<1> HIDE DEF pages, base, n
<1>3. \A k \in 1..n : RegionBytes(k)' = RegionBytes(k)
  BY <1>1 DEF RegionBytes, Bytes
<1>4. Managed' = Managed
  BY <1>1, <1>3 DEF Managed, n
<1>5. Cardinality(mine) = pages
  BY <1>1, BytesCount
<1>6. mine \subseteq RegionBytes(i)
  <2> DEFINE rb == regions[i].region_base
             rs == regions[i].region_size
  <2>1. rb \in Nat /\ rs \in Nat /\ rb <= base /\ base + pages <= rb + rs
    BY <1>1, RegionFields DEF SafetyInv, RegionEnd
  <2> HIDE DEF rb, rs
  <2>2. Bytes(base, pages) \subseteq Bytes(rb, rs)
    BY <1>1, <2>1, BytesInside
  <2> QED
    BY <2>2 DEF RegionBytes, rb, rs
<1>7. /\ IsFiniteSet(Managed) /\ IsFiniteSet(RegionBytes(i))
      /\ RegionBytes(i) \subseteq Managed
  BY ManagedWords
<1> HIDE DEF mine
<1>8. /\ Cardinality(Managed \ HandedOut') = Cardinality(Managed \ HandedOut) - pages
      /\ Cardinality(RegionBytes(i) \ HandedOut')
           = Cardinality(RegionBytes(i) \ HandedOut) - pages
  <2> DEFINE F == Managed \ HandedOut
             G == RegionBytes(i) \ HandedOut
  <2>1. mine \in SUBSET F /\ mine \in SUBSET G
    BY <1>1, <1>6, <1>7
  <2>2. IsFiniteSet(F) /\ IsFiniteSet(G)
    BY <1>7, FS_Difference
  <2>3. Managed \ HandedOut' = F \ mine /\ RegionBytes(i) \ HandedOut' = G \ mine
    BY <1>1
  <2> HIDE DEF F, G
  <2>4. /\ Cardinality(F \ mine) = Cardinality(F) - pages
        /\ Cardinality(G \ mine) = Cardinality(G) - pages
    BY <1>5, <2>1, <2>2, CountTaken
  <2> QED
    BY <2>3, <2>4 DEF F, G
<1>9. ASSUME NEW k \in 1..n
      PROVE  regions'[k].free_bytes = Cardinality(RegionBytes(k)' \ HandedOut')
  <2>1. CASE k = i
    BY <1>1, <1>3, <1>8, <2>1 DEF CountersExact, n
  <2>2. CASE k # i
    <3>1. RegionBytes(k) \intersect RegionBytes(i) = {}
      BY <2>2, RegionBytesApart DEF n
    <3>2. RegionBytes(k) \ HandedOut' = RegionBytes(k) \ HandedOut
      BY <1>1, <1>6, <3>1
    <3> QED
      BY <1>1, <1>3, <2>2, <3>2 DEF CountersExact, n
  <2> QED
    BY <2>1, <2>2
<1>10. free_bytes' = Cardinality(Managed' \ HandedOut') /\ total_bytes' = Cardinality(Managed')
  BY <1>2, <1>4, <1>8 DEF CountersExact
<1> QED
  BY <1>1, <1>9, <1>10 DEF CountersExact, n

\* The other steps leave regions, allocations and counters alone.
LEMMA UnchangedCounts ==
  ASSUME CountersExact, UNCHANGED <<regions, allocs, free_bytes, total_bytes>>
  PROVE  CountersExact'
<1>1. HandedOut' = HandedOut
  BY DEF HandedOut, Bytes
<1>2. \A k \in 1..Len(regions) : RegionBytes(k)' = RegionBytes(k)
  BY DEF RegionBytes, Bytes
<1>3. Managed' = Managed
  BY <1>2 DEF Managed
<1> QED
  BY <1>1, <1>2, <1>3 DEF CountersExact

\* Every step of pmm.c keeps the counters exact.
LEMMA CountersStep ==
  ASSUME BootContract, SafetyInv, CountersExact, [Next]_vars
  PROVE  CountersExact'
<1>1. SafetyInv'
  BY SafetyStep
<1>2. ASSUME NEW err \in ErrorCode, Fail(err) PROVE CountersExact'
  BY <1>2, UnchangedCounts DEF Fail
<1>3. CASE Halt
  BY <1>3, UnchangedCounts DEF Halt
<1>4. ASSUME NEW pol \in Policies, pmm_initialize(pol) PROVE CountersExact'
  BY <1>4, UnchangedCounts DEF pmm_initialize
<1>5. ASSUME NEW r \in RegionInputs, pmm_add_region(r.base, r.size) PROVE CountersExact'
  BY <1>1, <1>2, <1>3, <1>5, AddRegionOutcomes, AddRegionCounts
<1>6. ASSUME NEW q \in AllocInputs, NEW alignment \in {q.alignment, PageSize},
             NEW out \in BOOLEAN, pmm_alloc_aligned(q.size, alignment, out)
      PROVE  CountersExact'
  <2>1. ASSUME ~BadAlignment(alignment),
               NEW i \in 1..Len(regions), NEW j \in 1..Len(regions[i].free_blocks),
               Fits(i, j, ALIGN_UP(q.size, PageSize), alignment),
               Allocate(i, j, q.size, alignment)
        PROVE  CountersExact'
    <3>1. alignment \in Nat \ {0}
      BY <2>1, PmmAssumption DEF BadAlignment
    <3> QED
      BY <2>1, <3>1, AllocateCounts
  <2> QED
    BY <1>2, <1>3, <1>6, <2>1, AllocOutcomes
<1>7. ASSUME NEW a \in 1..Len(allocs), Write(a) PROVE CountersExact'
  BY <1>7, UnchangedCounts DEF Write
<1>8. CASE UNCHANGED vars
  BY <1>8, UnchangedCounts DEF vars
<1> QED
  BY <1>2, <1>4, <1>5, <1>6, <1>7, <1>8, NextOutcomes

(***************************************************************************)
(* pmm_free_memory and pmm_total_memory are exact for every memory map and *)
(* every sequence of calls: what pmm.c adds and subtracts, in words that   *)
(* could wrap, is the number of managed bytes, and of those not handed     *)
(* out, in total and per region.                                           *)
(***************************************************************************)
THEOREM CountersAreExact == ASSUME BootContract PROVE Spec => []CountersExact
<1>1. Init => CountersExact
  <2> SUFFICES ASSUME Init PROVE CountersExact
    OBVIOUS
  <2>1. Len(regions) = 0 /\ 1..0 = {} /\ total_bytes = 0 /\ free_bytes = 0
    BY DEF Init
  <2>2. Managed = {}
    BY <2>1 DEF Managed
  <2>3. Managed \ HandedOut = {}
    BY <2>2
  <2> QED
    BY <2>1, <2>2, <2>3, FS_EmptySet DEF CountersExact
<1>2. SafetyInv /\ CountersExact /\ [Next]_vars => CountersExact'
  BY CountersStep
<1> QED
  BY <1>1, <1>2, Safety, PTL DEF Spec

-----------------------------------------------------------------------------
(***************************************************************************)
(* Page alignment only.  A region is then filled from below: everything    *)
(* under the frontier is handed out, and the one block on the list is      *)
(* everything above it, so no free byte is ever lost to a node that no     *)
(* list reaches.                                                           *)
(***************************************************************************)
Frontier(i) == RegionEnd(i) - regions[i].free_bytes

Filled(i) ==
  /\ regions[i].free_bytes <= regions[i].region_size
  /\ Frontier(i) % PageSize = 0
  /\ regions[i].region_base..(Frontier(i) - 1) \subseteq HandedOut
  /\ \/ regions[i].free_blocks = << >> /\ regions[i].free_bytes = 0
     \/ regions[i].free_blocks = <<[block_base |-> Frontier(i),
                                    block_size |-> regions[i].free_bytes]>>

FilledFromBelow == \A i \in 1..Len(regions) : Filled(i)

\* A number that is aligned is left as it is, and sums of multiples are multiples.
LEMMA AlignedStays ==
  ASSUME NEW v \in Nat, NEW a \in Nat \ {0}, v + a <= Word, v % a = 0
  PROVE  ALIGN_UP(v, a) = v
<1> DEFINE q == v \div a
           w == v + (a - 1)
<1>1. q \in Nat /\ v = a * q /\ a - 1 \in Nat /\ a - 1 < a
  OBVIOUS
<1>2. WAdd(v, a - 1) = w
  BY <1>1, WAddExact, WordAssumption
<1> HIDE DEF q
<1>3. (a * q + (a - 1)) % a = a - 1
  BY <1>1, ModMultiple
<1>4. w % a = a - 1
  BY <1>1, <1>3
<1> QED
  BY <1>2, <1>4 DEF ALIGN_UP, ALIGN_DOWN

\* Whole pages add up to whole pages.
LEMMA SumOfMultiples ==
  ASSUME NEW a \in Nat \ {0}, NEW x \in Nat, NEW y \in Nat, x % a = 0, y % a = 0
  PROVE  (x + y) % a = 0
<1> DEFINE p == x \div a
           q == y \div a
<1>1. p \in Nat /\ x = a * p /\ q \in Nat /\ y = a * q
  OBVIOUS
<1> HIDE DEF p, q
<1>2. p + q \in Nat /\ x + y = a * (p + q) + 0
  BY <1>1
<1>3. (a * (p + q) + 0) % a = 0
  BY <1>2, ModMultiple
<1> QED
  BY <1>2, <1>3

\* An accepted region starts unfilled, at a page.
LEMMA AddRegionFilled ==
  ASSUME BootContract, SafetyInv, FilledFromBelow, NEW r \in RegionInputs,
         ~TooSmall(r.base, r.size),
         AddRegion(AlignedBase(r.base), AlignedSize(r.base, r.size))
  PROVE  FilledFromBelow'
<1> DEFINE base == AlignedBase(r.base)
           size == AlignedSize(r.base, r.size)
<1>0. PICK n \in Nat : n = Len(regions)
  BY DEF SafetyInv, TypeOK
<1>1. base \in Nat /\ size \in Nat /\ AddRegion(base, size) /\ TypeOK
  BY AcceptedRegion DEF SafetyInv
<1>2. base % PageSize = 0
  <2>1. r.base \in Nat /\ r.size \in Nat /\ PageSize \in Nat \ {0} /\ Word \in Nat
        /\ r.base + r.size + PageSize <= Word
    BY PmmAssumption, WordAssumption DEF BootContract
  <2>2. r.base + PageSize <= Word
    BY <2>1
  <2> QED
    BY <2>1, <2>2, AlignUp DEF AlignedBase
<1> HIDE DEF base, size
<1>3. /\ Len(regions') = n + 1
      /\ \A k \in 1..n : regions'[k] = regions[k]
      /\ regions'[n + 1].region_base = base
      /\ regions'[n + 1].region_size = size
      /\ regions'[n + 1].free_bytes = size
      /\ regions'[n + 1].free_blocks = <<[block_base |-> base, block_size |-> size]>>
      /\ \A k \in 1..(n + 1) : k \in 1..n \/ k = n + 1
  BY <1>0, <1>1, AddRegionEffect
<1>4. HandedOut' = HandedOut
  BY <1>1 DEF HandedOut, AddRegion, Bytes
<1>5. ASSUME NEW k \in 1..n PROVE Filled(k)'
  <2>1. Filled(k)
    BY <1>0 DEF FilledFromBelow
  <2> QED
    BY <1>3, <1>4, <2>1 DEF Filled, Frontier, RegionEnd
<1>6. Filled(n + 1)'
  <2>1. Frontier(n + 1)' = base
    BY <1>1, <1>3 DEF Frontier, RegionEnd
  <2>2. base..(base - 1) = {}
    BY <1>1
  <2> QED
    BY <1>1, <1>2, <1>3, <2>1, <2>2 DEF Filled
<1> QED
  BY <1>3, <1>5, <1>6 DEF FilledFromBelow

\* In a region that is filled from below, a block that fits at page alignment is
\* taken from its start: nothing is left below the allocation, and no new node
\* is needed.
LEMMA CarveFilled ==
  ASSUME BootContract, SafetyInv, NEW q \in AllocInputs,
         NEW i \in 1..Len(regions), Filled(i), NEW j \in 1..Len(regions[i].free_blocks),
         Fits(i, j, ALIGN_UP(q.size, PageSize), PageSize),
         Allocate(i, j, q.size, PageSize)
  PROVE  LET pages == ALIGN_UP(q.size, PageSize)
             left  == regions[i].free_bytes - pages
         IN  /\ ALIGN_UP(regions[i].free_blocks[j].block_base, PageSize) = Frontier(i)
             /\ pages \in Nat /\ pages <= regions[i].free_bytes
             /\ arena_free' \in {arena_free, arena_free + 1}
             /\ regions'[i].free_blocks
                  = IF left = 0 THEN << >>
                    ELSE <<[block_base |-> Frontier(i) + pages, block_size |-> left]>>
<1> DEFINE pages  == ALIGN_UP(q.size, PageSize)
           blocks == regions[i].free_blocks
           bb     == Frontier(i)
           bs     == regions[i].free_bytes
           rest   == Rest(blocks[j], bb, pages)
           others == SubSeq(blocks, 1, j - 1) \o SubSeq(blocks, j + 1, Len(blocks))
<1>1. TypeOK /\ Len(blocks) <= 1 /\ blocks \in Seq(Block) /\ bs \in Nat /\ pages \in Nat
      /\ PageSize \in Nat \ {0} /\ q.size \in Nat /\ Word \in Nat
      /\ regions[i].region_base \in Nat /\ regions[i].region_size \in Nat
  <2>1. q.size \in Nat /\ PageSize \in Nat \ {0} /\ Word \in Nat
    BY PmmAssumption, WordAssumption
  <2> QED
    BY <2>1, RegionFields, AlignUpNat DEF SafetyInv, BlocksInside
<1>2. j = 1 /\ Len(blocks) = 1
  BY <1>1, OnlyBlock
<1>3. blocks[j] = [block_base |-> bb, block_size |-> bs]
  BY <1>2 DEF Filled
<1>4. bb \in Nat /\ bb + bs = RegionEnd(i) /\ bb % PageSize = 0 /\ RegionEnd(i) \in Nat
  <2> DEFINE rb == regions[i].region_base
             rs == regions[i].region_size
  <2>1. bb = (rb + rs) - bs /\ RegionEnd(i) = rb + rs
    BY DEF Frontier, RegionEnd
  <2>2. rb \in Nat /\ rs \in Nat /\ bs \in Nat /\ bs <= rs /\ bb % PageSize = 0
    BY <1>1 DEF Filled
  <2> HIDE DEF rb, rs, bb, bs
  <2>3. bb \in Nat /\ bb + bs = rb + rs /\ rb + rs \in Nat
    BY <2>1, <2>2
  <2> QED
    BY <2>1, <2>2, <2>3
<1>5. RegionEnd(i) + PageSize <= Word
  <2>1. PICK r \in RegionInputs :
          /\ r.base \in Nat /\ r.size \in Nat
          /\ RegionEnd(i) <= r.base + r.size
          /\ r.base + r.size + PageSize <= Word
    BY RegionInMap
  <2> QED
    BY <1>1, <1>4, <2>1
<1>6. ALIGN_UP(bb, PageSize) = bb
  <2>1. bb + PageSize <= Word
    BY <1>1, <1>4, <1>5
  <2> QED
    BY <1>1, <1>4, <2>1, AlignedStays
<1>7. pages <= bs
  <2>1. bs >= pages
    BY DEF Fits
  <2> QED
    BY <1>1, <2>1
<1>8. Carve(i, j, bb, pages)
  BY <1>3, <1>6 DEF Allocate
<1>9. blocks[j].block_base = bb /\ blocks[j].block_size = bs
  BY <1>3
<1> HIDE DEF pages, bb, bs, blocks
<1>10. bb + bs < Word /\ bb + pages < Word
  BY <1>1, <1>4, <1>5, <1>7
<1>11. BlockEnd(blocks[j]) = bb + bs /\ WAdd(bb, pages) = bb + pages
  BY <1>1, <1>4, <1>9, <1>10, WAddExact DEF BlockEnd
<1>12. rest = [block_base |-> bb + pages, block_size |-> bs - pages]
  <2>1. WSub(bb + bs, bb + pages) = bs - pages
    BY <1>1, <1>4, <1>7, <1>10, WSubExact
  <2> QED
    BY <1>11, <2>1 DEF Rest
<1>13. others = << >> /\ [blocks EXCEPT ![j] = rest] = <<rest>>
  <2>1. rest \in Block
    BY <1>1, <1>4, <1>7, <1>12 DEF Block
  <2>2. j \in 1..Len(blocks)
    BY DEF blocks
  <2> HIDE DEF rest
  <2> QED
    BY <1>1, <2>1, <2>2, RemovedList, ReplacedList
<1>14. \/ /\ bb + bs > bb + pages
          /\ Take(i, [blocks EXCEPT ![j] = rest], pages) /\ arena_free' = arena_free
       \/ /\ ~(bb + bs > bb + pages)
          /\ Take(i, others, pages) /\ arena_free' = arena_free + 1
  BY <1>8, <1>9, <1>11 DEF Carve, blocks
<1> HIDE DEF rest, others
<1>15. CASE /\ bb + bs > bb + pages
            /\ Take(i, [blocks EXCEPT ![j] = rest], pages) /\ arena_free' = arena_free
  <2>1. regions'[i].free_blocks = <<rest>>
    BY <1>1, <1>13, <1>15, TakeEffect
  <2>2. bs - pages # 0
    BY <1>1, <1>4, <1>15
  <2> QED
    BY <1>1, <1>6, <1>7, <1>9, <1>12, <1>15, <2>1, <2>2 DEF pages, bb, bs, blocks
<1>16. CASE /\ ~(bb + bs > bb + pages)
            /\ Take(i, others, pages) /\ arena_free' = arena_free + 1
  <2>1. regions'[i].free_blocks = << >>
    BY <1>1, <1>13, <1>16, TakeEffect
  <2>2. bs - pages = 0
    BY <1>1, <1>4, <1>7, <1>16
  <2> QED
    BY <1>1, <1>6, <1>7, <1>9, <1>16, <2>1, <2>2 DEF pages, bb, bs, blocks
<1> QED
  BY <1>14, <1>15, <1>16

\* An allocation at page alignment keeps the region filled from below.
LEMMA AllocateFilled ==
  ASSUME BootContract, SafetyInv, FilledFromBelow, NEW q \in AllocInputs,
         NEW i \in 1..Len(regions), NEW j \in 1..Len(regions[i].free_blocks),
         Fits(i, j, ALIGN_UP(q.size, PageSize), PageSize),
         Allocate(i, j, q.size, PageSize)
  PROVE  FilledFromBelow'
<1> DEFINE pages == ALIGN_UP(q.size, PageSize)
           base  == Frontier(i)
           free  == regions[i].free_bytes
           rb    == regions[i].region_base
           rs    == regions[i].region_size
<1>1. Filled(i) /\ PageSize \in Nat \ {0}
  BY PmmAssumption DEF FilledFromBelow
<1>2. /\ ALIGN_UP(regions[i].free_blocks[j].block_base, PageSize) = base
      /\ pages \in Nat /\ pages <= free
      /\ regions'[i].free_blocks
           = IF free - pages = 0 THEN << >>
             ELSE <<[block_base |-> base + pages, block_size |-> free - pages]>>
  BY <1>1, CarveFilled
<1>3. /\ Len(regions') = Len(regions)
      /\ \A k \in 1..Len(regions) : k # i => regions'[k] = regions[k]
      /\ regions'[i].region_base = rb
      /\ regions'[i].region_size = rs
      /\ regions'[i].free_bytes = free - pages
      /\ HandedOut' = HandedOut \union Bytes(base, pages)
  <2>1. TakesRange(i, ALIGN_UP(regions[i].free_blocks[j].block_base, PageSize), pages)
    BY <1>1, AllocateEffect
  <2>2. TakesRange(i, base, pages)
    BY <1>2, <2>1
  <2> QED
    BY <2>2 DEF TakesRange
<1>4. pages % PageSize = 0
  <2>1. q.size \in Nat /\ q.size + PageSize <= Word
    BY PmmAssumption DEF BootContract
  <2> QED
    BY <1>1, <2>1, AlignUp
<1>5. rb \in Nat /\ rs \in Nat /\ free \in Nat
  BY RegionFields DEF SafetyInv
<1>6. /\ free <= rs /\ base % PageSize = 0
      /\ rb..(base - 1) \subseteq HandedOut
  BY <1>1 DEF Filled
<1>7. base = (rb + rs) - free
  BY DEF Frontier, RegionEnd
<1> HIDE DEF pages, base, free, rb, rs
<1>13. Frontier(i)' = (rb + rs) - (free - pages)
  BY <1>3 DEF Frontier, RegionEnd
<1>8. Frontier(i)' = base + pages /\ base \in Nat
  BY <1>2, <1>5, <1>6, <1>7, <1>13
<1>9. free - pages <= rs /\ (base + pages) % PageSize = 0
  <2>1. free - pages <= rs
    BY <1>2, <1>5, <1>6
  <2>2. (base + pages) % PageSize = 0
    BY <1>1, <1>2, <1>4, <1>6, <1>8, SumOfMultiples, Zenon
  <2> QED
    BY <2>1, <2>2
<1>10. rb..(base + pages - 1) \subseteq HandedOut'
  BY <1>2, <1>3, <1>5, <1>6, <1>8 DEF Bytes
<1>11. Filled(i)'
  BY <1>2, <1>3, <1>8, <1>9, <1>10 DEF Filled
<1>12. ASSUME NEW k \in 1..Len(regions), k # i PROVE Filled(k)'
  <2>1. Filled(k) /\ HandedOut \subseteq HandedOut' /\ regions'[k] = regions[k]
    BY <1>3, <1>12 DEF FilledFromBelow
  <2> QED
    BY <2>1 DEF Filled, Frontier, RegionEnd
<1> QED
  BY <1>3, <1>11, <1>12 DEF FilledFromBelow

\* Steps that leave the regions alone keep them filled from below.
LEMMA UnchangedFilled ==
  ASSUME FilledFromBelow, UNCHANGED <<regions, allocs>>
  PROVE  FilledFromBelow'
<1>1. HandedOut' = HandedOut
  BY DEF HandedOut, Bytes
<1> QED
  BY <1>1 DEF FilledFromBelow, Filled, Frontier, RegionEnd

\* Every step keeps every region filled from below.
LEMMA FilledStep ==
  ASSUME BootContract, PageAlignmentOnly, SafetyInv, FilledFromBelow, [Next]_vars
  PROVE  FilledFromBelow'
<1>1. ASSUME NEW err \in ErrorCode, Fail(err) PROVE FilledFromBelow'
  BY <1>1, UnchangedFilled DEF Fail
<1>2. CASE Halt
  BY <1>2, UnchangedFilled DEF Halt
<1>3. ASSUME NEW pol \in Policies, pmm_initialize(pol) PROVE FilledFromBelow'
  BY <1>3, UnchangedFilled DEF pmm_initialize
<1>4. ASSUME NEW r \in RegionInputs, pmm_add_region(r.base, r.size) PROVE FilledFromBelow'
  BY <1>1, <1>2, <1>4, AddRegionOutcomes, AddRegionFilled
<1>5. ASSUME NEW q \in AllocInputs, NEW alignment \in {q.alignment, PageSize},
             NEW out \in BOOLEAN, pmm_alloc_aligned(q.size, alignment, out)
      PROVE  FilledFromBelow'
  <2>1. alignment = PageSize
    BY DEF PageAlignmentOnly
  <2> QED
    BY <1>1, <1>2, <1>5, <2>1, AllocOutcomes, AllocateFilled
<1>6. ASSUME NEW a \in 1..Len(allocs), Write(a) PROVE FilledFromBelow'
  BY <1>6, UnchangedFilled DEF Write
<1>7. CASE UNCHANGED vars
  BY <1>7, UnchangedFilled DEF vars
<1> QED
  BY <1>1, <1>3, <1>4, <1>5, <1>6, <1>7, NextOutcomes

\* While every request is page aligned, pmm.c fills its regions from below.
THEOREM FillsFromBelow ==
  ASSUME BootContract, PageAlignmentOnly PROVE Spec => []FilledFromBelow
<1>1. Init => FilledFromBelow
  <2> SUFFICES ASSUME Init PROVE FilledFromBelow
    OBVIOUS
  <2>1. Len(regions) = 0 /\ 1..0 = {}
    BY DEF Init
  <2> QED
    BY <2>1 DEF FilledFromBelow
<1>2. SafetyInv /\ FilledFromBelow /\ [Next]_vars => FilledFromBelow'
  BY FilledStep
<1> QED
  BY <1>1, <1>2, Safety, PTL DEF Spec

(***************************************************************************)
(* While every request is page aligned, every byte pmm_free_memory counts  *)
(* is in a block on the list of its region: none is lost to a node that no *)
(* list reaches.                                                           *)
(***************************************************************************)
THEOREM FreeMemoryReachable ==
  ASSUME BootContract, PageAlignmentOnly PROVE Spec => []FreeBytesListed
<1>1. SafetyInv /\ FilledFromBelow => FreeBytesListed
  <2> SUFFICES ASSUME SafetyInv, FilledFromBelow, NEW i \in 1..Len(regions),
                      NEW x \in RegionBytes(i), x \notin HandedOut
               PROVE  x \in Listed(i)
    BY DEF FreeBytesListed
  <2> DEFINE rb   == regions[i].region_base
             rs   == regions[i].region_size
             free == regions[i].free_bytes
             base == Frontier(i)
  <2>1. Filled(i)
    BY DEF FilledFromBelow
  <2>2. rb \in Nat /\ rs \in Nat /\ free \in Nat
    BY RegionFields DEF SafetyInv
  <2>3. base = (rb + rs) - free
    BY DEF Frontier, RegionEnd
  <2>4. free <= rs /\ rb..(base - 1) \subseteq HandedOut
    BY <2>1 DEF Filled
  <2>5. x \in rb..(rb + rs - 1)
    BY DEF RegionBytes, Bytes
  <2> HIDE DEF rb, rs, free, base
  <2>6. x \in Bytes(base, free) /\ free # 0
    BY <2>2, <2>3, <2>4, <2>5 DEF Bytes
  <2>7. regions[i].free_blocks = <<[block_base |-> base, block_size |-> free]>>
    BY <2>1, <2>6 DEF Filled, base, free
  <2>8. /\ 1 \in 1..Len(regions[i].free_blocks)
        /\ regions[i].free_blocks[1].block_base = base
        /\ regions[i].free_blocks[1].block_size = free
    BY <2>7
  <2> QED
    BY <2>6, <2>8 DEF Listed
<1> QED
  BY <1>1, Safety, FillsFromBelow, PTL

-----------------------------------------------------------------------------
(***************************************************************************)
(* pmm_alloc_aligned reports EC_PMM_OUT_OF_MEMORY only when it must.       *)
(***************************************************************************)
LEMMA ServedWhenServable ==
  ASSUME BootContract, PageAlignmentOnly, SafetyInv, CountersExact, FilledFromBelow
  PROVE  FirstFitComplete
<1> SUFFICES ASSUME NEW q \in AllocInputs, NEW i \in 1..Len(regions),
                    ALIGN_UP(q.size, PageSize) > 0,
                    Servable(i, ALIGN_UP(q.size, PageSize), q.alignment)
             PROVE  /\ free_bytes >= ALIGN_UP(q.size, PageSize)
                    /\ ~NoneFits(ALIGN_UP(q.size, PageSize), q.alignment)
  BY DEF FirstFitComplete
<1> DEFINE pages == ALIGN_UP(q.size, PageSize)
           rb    == regions[i].region_base
           rs    == regions[i].region_size
           free  == regions[i].free_bytes
           front == Frontier(i)
<1>1. /\ pages \in Nat /\ q.alignment = PageSize /\ PageSize \in Nat \ {0} /\ Word \in Nat
      /\ pages > 0
  <2>1. q.size \in Nat /\ PageSize \in Nat \ {0}
    BY PmmAssumption
  <2> QED
    BY <2>1, AlignUpNat, WordAssumption DEF PageAlignmentOnly
<1>2. PICK base \in RegionBytes(i) : Bytes(base, pages) \subseteq RegionBytes(i) \ HandedOut
  BY DEF Servable
<1>3. Filled(i)
  BY DEF FilledFromBelow
<1>4. rb \in Nat /\ rs \in Nat /\ free \in Nat /\ TypeOK
  BY RegionFields DEF SafetyInv
<1>5. front = (rb + rs) - free /\ RegionEnd(i) = rb + rs
  BY DEF Frontier, RegionEnd
<1>6. free <= rs /\ rb..(front - 1) \subseteq HandedOut /\ front % PageSize = 0
  BY <1>3 DEF Filled
<1>7. base \in rb..(rb + rs - 1) /\ RegionBytes(i) = rb..(rb + rs - 1)
  BY DEF RegionBytes, Bytes
<1> HIDE DEF pages, rb, rs, free, front
<1>8. base \in Nat
  BY <1>4, <1>7
<1>9. front <= base /\ base + pages <= rb + rs /\ front \in Nat
  <2>1. base \in Bytes(base, pages) /\ base + pages - 1 \in Bytes(base, pages)
    BY <1>1, <1>8 DEF Bytes
  <2>2. base \notin HandedOut /\ base + pages - 1 \in rb..(rb + rs - 1)
    BY <1>2, <1>7, <2>1
  <2>3. base \notin rb..(front - 1)
    BY <1>6, <2>2
  <2> QED
    BY <1>1, <1>4, <1>5, <1>6, <1>7, <1>8, <2>2, <2>3
<1>10. pages <= free /\ free # 0
  BY <1>1, <1>4, <1>5, <1>8, <1>9
<1>11. regions[i].free_blocks = <<[block_base |-> front, block_size |-> free]>>
  BY <1>3, <1>10 DEF Filled, front, free
<1>12. /\ 1 \in 1..Len(regions[i].free_blocks)
       /\ regions[i].free_blocks[1].block_base = front
       /\ regions[i].free_blocks[1].block_size = free
  BY <1>11
<1>13. front + PageSize <= Word /\ front + free < Word
  <2>1. PICK r \in RegionInputs :
          /\ r.base \in Nat /\ r.size \in Nat
          /\ RegionEnd(i) <= r.base + r.size
          /\ r.base + r.size + PageSize <= Word
    BY RegionInMap
  <2> QED
    BY <1>1, <1>4, <1>5, <1>9, <2>1
<1>14. ALIGN_UP(front, PageSize) = front
  BY <1>1, <1>6, <1>9, <1>13, AlignedStays
<1>15. WAdd(front, free) = front + free /\ WAdd(front, pages) = front + pages
  BY <1>1, <1>4, <1>9, <1>10, <1>13, WAddExact
<1>16. WAdd(front, free) >= WAdd(front, pages)
  BY <1>1, <1>4, <1>9, <1>10, <1>15
<1>17. Fits(i, 1, pages, q.alignment)
  <2>1. regions[i].free_bytes >= pages
    BY <1>1, <1>4, <1>10 DEF free
  <2> QED
    BY <1>1, <1>12, <1>14, <1>16, <2>1 DEF Fits
<1>18. free_bytes >= pages
  <2>1. free_bytes = Cardinality(Managed \ HandedOut)
        /\ free = Cardinality(RegionBytes(i) \ HandedOut)
    BY DEF CountersExact, free
  <2>2. IsFiniteSet(Managed) /\ RegionBytes(i) \subseteq Managed
    BY ManagedWords
  <2>3. IsFiniteSet(Managed \ HandedOut)
    BY <2>2, FS_Difference
  <2>4. RegionBytes(i) \ HandedOut \in SUBSET (Managed \ HandedOut)
    BY <2>2
  <2>5. Cardinality(RegionBytes(i) \ HandedOut) <= Cardinality(Managed \ HandedOut)
        /\ Cardinality(Managed \ HandedOut) \in Nat
    BY <2>3, <2>4, FS_Subset, FS_CardinalityType
  <2> QED
    BY <1>1, <1>4, <1>10, <2>1, <2>5
<1> QED
  BY <1>12, <1>17, <1>18 DEF NoneFits, pages

(***************************************************************************)
(* While every request is page aligned, a request that some region could   *)
(* hold is served: neither the test of the global counter nor the search   *)
(* of the lists turns it away.                                             *)
(***************************************************************************)
THEOREM OutOfMemoryIsReal ==
  ASSUME BootContract, PageAlignmentOnly PROVE Spec => []FirstFitComplete
<1>1. SafetyInv /\ CountersExact /\ FilledFromBelow => FirstFitComplete
  BY ServedWhenServable
<1> QED
  BY <1>1, Safety, CountersAreExact, FillsFromBelow, PTL

-----------------------------------------------------------------------------
(***************************************************************************)
(* The node arena.  A region costs one node for good at most: carving at   *)
(* page alignment never needs another one.                                 *)
(***************************************************************************)
NodesLeft ==
  /\ state \in {"reset", "up"}
  /\ policy = "FIRST_FIT"
  /\ Len(regions) <= REGION_COUNT
  /\ state = "reset" => Len(regions) = 0
  /\ state = "up" => ArenaBlocks <= arena_free + Len(regions)

KernelUse == /\ BootContract /\ PageAlignmentOnly /\ ArenaSuffices
             /\ Policies \subseteq {"FIRST_FIT"}

\* A step that fails, or only writes to memory, costs no node.
LEMMA NodesUnchanged ==
  ASSUME NodesLeft, UNCHANGED <<state, policy, regions, arena_free>>
  PROVE  NodesLeft'
  BY DEF NodesLeft

\* There are more nodes than the reserve asks for.
LEMMA NodesSuffice ==
  ASSUME ArenaSuffices, TypeOK, NodesLeft, state = "up"
  PROVE  arena_free > 0 /\ ~(arena_free < ArenaReserve) /\ policy = "FIRST_FIT"
<1>1. /\ arena_free \in Nat /\ Len(regions) \in Nat /\ REGION_COUNT \in Nat
      /\ ArenaBlocks \in Nat /\ ArenaReserve \in Nat \ {0}
  BY PmmAssumption DEF TypeOK
<1> QED
  BY <1>1 DEF NodesLeft, ArenaSuffices

\* Every step leaves the node arena above its reserve.
LEMMA NodesStep ==
  ASSUME KernelUse, SafetyInv, FilledFromBelow, NodesLeft, [Next]_vars
  PROVE  NodesLeft'
<1>0. TypeOK /\ Len(regions) \in Nat /\ arena_free \in Nat /\ REGION_COUNT \in Nat
      /\ ArenaBlocks \in Nat /\ BootContract /\ ArenaSuffices /\ PageAlignmentOnly
  BY PmmAssumption DEF SafetyInv, TypeOK, KernelUse
<1>1. ASSUME NEW err \in ErrorCode, Fail(err) PROVE NodesLeft'
  BY <1>1, NodesUnchanged DEF Fail
<1>2. ASSUME NEW pol \in Policies, pmm_initialize(pol) PROVE NodesLeft'
  BY <1>0, <1>2 DEF pmm_initialize, NodesLeft, KernelUse
<1>3. ASSUME NEW r \in RegionInputs, pmm_add_region(r.base, r.size) PROVE NodesLeft'
  <2>1. state = "up"
    BY <1>3 DEF pmm_add_region
  <2>2. arena_free > 0
    BY <1>0, <2>1, NodesSuffice
  <2>3. ASSUME ~ListFull, ~TooSmall(r.base, r.size),
               AddRegion(AlignedBase(r.base), AlignedSize(r.base, r.size))
        PROVE  NodesLeft'
    <3>1. AlignedBase(r.base) \in Nat /\ AlignedSize(r.base, r.size) \in Nat
      BY <1>0, <2>3, AcceptedRegion
    <3>2. Len(regions') = Len(regions) + 1
      BY <1>0, <2>3, <3>1, AddRegionEffect
    <3>3. arena_free' = arena_free - 1 /\ UNCHANGED <<state, policy>>
      BY <2>3 DEF AddRegion
    <3>4. Len(regions) + 1 <= REGION_COUNT
      BY <1>0, <2>3 DEF ListFull
    <3> QED
      BY <1>0, <2>1, <3>2, <3>3, <3>4 DEF NodesLeft
  <2>4. \/ \E err \in ErrorCode : Fail(err)
        \/ /\ ~ListFull /\ ~TooSmall(r.base, r.size)
           /\ AddRegion(AlignedBase(r.base), AlignedSize(r.base, r.size))
    BY <1>0, <1>3, <2>2 DEF pmm_add_region, ErrorCode
  <2> QED
    BY <1>1, <2>3, <2>4
<1>4. ASSUME NEW q \in AllocInputs, NEW alignment \in {q.alignment, PageSize},
             NEW out \in BOOLEAN, pmm_alloc_aligned(q.size, alignment, out)
      PROVE  NodesLeft'
  <2>1. state = "up" /\ alignment = PageSize
    BY <1>0, <1>4 DEF pmm_alloc_aligned, PageAlignmentOnly
  <2>2. ~(arena_free < ArenaReserve) /\ policy = "FIRST_FIT"
    BY <1>0, <2>1, NodesSuffice
  <2>3. ASSUME NEW i \in 1..Len(regions), NEW j \in 1..Len(regions[i].free_blocks),
               Fits(i, j, ALIGN_UP(q.size, PageSize), PageSize),
               Allocate(i, j, q.size, PageSize)
        PROVE  NodesLeft'
    <3>1. arena_free' \in {arena_free, arena_free + 1}
      BY <1>0, <2>3, CarveFilled DEF FilledFromBelow
    <3>2. Len(regions') = Len(regions)
      <4>1. PageSize \in Nat \ {0}
        BY PmmAssumption
      <4>2. TakesRange(i, ALIGN_UP(regions[i].free_blocks[j].block_base, PageSize),
                       ALIGN_UP(q.size, PageSize))
        BY <1>0, <2>3, <4>1, AllocateEffect
      <4> QED
        BY <4>2 DEF TakesRange
    <3>3. UNCHANGED <<state, policy>>
      BY <2>3 DEF Allocate
    <3> QED
      BY <1>0, <2>1, <3>1, <3>2, <3>3 DEF NodesLeft
  <2>4. \/ \E err \in ErrorCode : Fail(err)
        \/ \E i \in 1..Len(regions) : \E j \in 1..Len(regions[i].free_blocks) :
             /\ Fits(i, j, ALIGN_UP(q.size, PageSize), alignment)
             /\ Allocate(i, j, q.size, alignment)
    BY <1>4, <2>2 DEF pmm_alloc_aligned, FirstFit, ErrorCode
  <2> QED
    BY <1>1, <2>1, <2>3, <2>4
<1>5. ASSUME NEW a \in 1..Len(allocs), Write(a) PROVE NodesLeft'
  BY <1>5, NodesUnchanged DEF Write
<1>6. CASE UNCHANGED vars
  BY <1>6, NodesUnchanged DEF vars
<1> QED
  BY <1>1, <1>2, <1>3, <1>4, <1>5, <1>6, NextOutcomes

(***************************************************************************)
(* Driven as the kernel drives it, pmm.c never reaches the TODO of         *)
(* pmm_alloc_aligned or the ASSERT of pmm_add_region, however many         *)
(* allocations are made: an arena of REGION_COUNT nodes above the reserve  *)
(* is enough for ever.                                                     *)
(***************************************************************************)
THEOREM ArenaNeverRunsLow == ASSUME KernelUse PROVE Spec => []NeverHalts
<1>1. Init => NodesLeft
  <2>1. REGION_COUNT \in Nat
    BY PmmAssumption
  <2> QED
    BY <2>1 DEF Init, NodesLeft
<1>2. SafetyInv /\ FilledFromBelow /\ NodesLeft /\ [Next]_vars => NodesLeft'
  BY NodesStep
<1>3. NodesLeft => NeverHalts
  BY DEF NodesLeft, NeverHalts
<1>4. BootContract /\ PageAlignmentOnly
  BY DEF KernelUse
<1>5. (Spec => []SafetyInv) /\ (Spec => []FilledFromBelow)
  BY <1>4, Safety, FillsFromBelow
<1> QED
  BY <1>1, <1>2, <1>3, <1>5, PTL DEF Spec
=============================================================================
