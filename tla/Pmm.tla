-------------------------------- MODULE Pmm --------------------------------
(***************************************************************************)
(* The physical memory manager, Kernel/src/pmm.c: up to REGION_COUNT       *)
(* regions of RAM, each with a list of free blocks, served first fit in    *)
(* whole pages.  A list node is a block of the arena block_arena, a slab   *)
(* without refilling, of which this module needs only the number of free   *)
(* nodes (module Slab models the arena itself).                            *)
(*                                                                         *)
(* allocs, lost and zeroed are history variables: what was handed out, the *)
(* free blocks no list reaches any more, and the bytes memzero cleared and *)
(* nobody wrote since.                                                     *)
(***************************************************************************)
EXTENDS Words, Sequences, FiniteSets

CONSTANTS
  PageSize,        \* RISCV_SV39_PAGE_SIZE
  REGION_COUNT,    \* capacity of the array regions
  ArenaBlocks,     \* nodes that slab_grow finds in initial_buf
  ArenaReserve,    \* the 16 nodes below which allocation gives up
  Policies,        \* arguments pmm_initialize is called with
  RegionInputs,    \* arguments [base, size] pmm_add_region is called with
  AllocInputs,     \* arguments [size, alignment] of the allocating calls
  MaxAllocs        \* bound on the successful allocations of a behaviour

ASSUME PmmAssumption ==
  /\ PageSize \in Nat \ {0}
  /\ REGION_COUNT \in Nat
  /\ ArenaBlocks \in Nat
  /\ ArenaReserve \in Nat \ {0}
  /\ MaxAllocs \in Nat
  /\ RegionInputs \subseteq [base : 0..(Word - 1), size : 0..(Word - 1)]
  /\ AllocInputs \subseteq [size : 0..(Word - 1), alignment : 0..(Word - 1)]

VARIABLES
  state,           \* "reset", "up", or "halted" in the for (;;) of an ASSERT or TODO
  policy,
  regions,         \* the first region_count entries of the array
  total_bytes,
  free_bytes,
  arena_free,      \* block_arena.free_blocks
  ret,             \* error code and *region of the last call that returned
  allocs,          \* history: the blocks handed out, in order
  lost,            \* history: free blocks whose node is on no list
  zeroed           \* history: bytes that still hold the zeroes of memzero

vars == <<state, policy, regions, total_bytes, free_bytes, arena_free, ret,
          allocs, lost, zeroed>>

Block  == [block_base : Nat, block_size : Nat]
Region == [region_base : Nat, region_size : Nat, free_bytes : Nat,
           free_blocks : Seq(Block)]
Alloc  == [base : Nat, size : Nat, request : Nat, alignment : Nat]

ErrorCode == {"EC_SUCCESS", "EC_NOT_IMPLEMENTED", "EC_NULL_ARGUMENT",
              "EC_PMM_REGION_LIST_FULL", "EC_PMM_REGION_TOO_SMALL",
              "EC_PMM_REGION_ALREADY_MANAGED", "EC_PMM_BAD_ALIGNMENT",
              "EC_PMM_OUT_OF_MEMORY"}

Init ==
  /\ state = "reset"
  /\ policy = "FIRST_FIT"
  /\ regions = << >>
  /\ total_bytes = 0
  /\ free_bytes = 0
  /\ arena_free = 0
  /\ ret = [err |-> "EC_SUCCESS", region |-> 0]
  /\ allocs = << >>
  /\ lost = {}
  /\ zeroed = {}

-----------------------------------------------------------------------------
(***************************************************************************)
(* Outcomes shared by the handlers.                                        *)
(***************************************************************************)

Return(err, region) == ret' = [err |-> err, region |-> region]

\* The call returns a code and leaves the manager as it was.
Fail(err) ==
  /\ Return(err, 0)
  /\ UNCHANGED <<state, policy, regions, total_bytes, free_bytes, arena_free,
                 allocs, lost, zeroed>>

\* ASSERT and TODO of assert.h print a message and spin forever.
Halt ==
  /\ state' = "halted"
  /\ UNCHANGED <<policy, regions, total_bytes, free_bytes, arena_free, ret,
                 allocs, lost, zeroed>>

-----------------------------------------------------------------------------
pmm_initialize(pol) ==
  /\ state = "reset"
  /\ state' = "up"
  /\ policy' = pol
  /\ arena_free' = ArenaBlocks
  /\ UNCHANGED <<regions, total_bytes, free_bytes, ret, allocs, lost, zeroed>>

(***************************************************************************)
(* pmm_add_region.  The subtraction that shrinks the size wraps when the   *)
(* range ends before its first page boundary.                              *)
(***************************************************************************)
AlignedBase(region_base) == ALIGN_UP(region_base, PageSize)

AlignedSize(region_base, region_size) ==
  ALIGN_DOWN(WSub(region_size, WSub(AlignedBase(region_base), region_base)),
             PageSize)

TooSmall(region_base, region_size) ==
  LET base == AlignedBase(region_base)
      size == AlignedSize(region_base, region_size)
  IN  \/ WAdd(base, size) > WAdd(region_base, region_size)
      \/ size < PageSize

\* Mutant of AlreadyManaged: a region with the same base is not recognised.
AlreadyManagedAbove(base) ==
  \E i \in 1..Len(regions) :
    /\ regions[i].region_base < base
    /\ base <= WAdd(regions[i].region_base, regions[i].region_size)

AlreadyManaged(base) ==
  \E i \in 1..Len(regions) :
    /\ regions[i].region_base <= base
    /\ base <= WAdd(regions[i].region_base, regions[i].region_size)

ListFullOffByOne == Len(regions) > REGION_COUNT      \* mutant of ListFull
ListFull == Len(regions) >= REGION_COUNT

AddRegion(base, size) ==
  /\ regions' = Append(regions,
       [region_base |-> base, region_size |-> size, free_bytes |-> size,
        free_blocks |-> <<[block_base |-> base, block_size |-> size]>>])
  /\ arena_free' = arena_free - 1
  /\ total_bytes' = WAdd(total_bytes, size)
  /\ free_bytes' = WAdd(free_bytes, size)
  /\ Return("EC_SUCCESS", 0)
  /\ UNCHANGED <<state, policy, allocs, lost, zeroed>>

pmm_add_region(region_base, region_size) ==
  LET base    == AlignedBase(region_base)
      size    == AlignedSize(region_base, region_size)
      small   == TooSmall(region_base, region_size)
      managed == AlreadyManaged(base)
  IN  /\ state = "up"
      /\ \/ ListFull /\ Fail("EC_PMM_REGION_LIST_FULL")
         \/ ~ListFull /\ small /\ Fail("EC_PMM_REGION_TOO_SMALL")
         \/ ~ListFull /\ ~small /\ managed /\ Fail("EC_PMM_REGION_ALREADY_MANAGED")
         \/ ~ListFull /\ ~small /\ ~managed /\ arena_free = 0 /\ Halt
         \/ ~ListFull /\ ~small /\ ~managed /\ arena_free > 0 /\ AddRegion(base, size)

-----------------------------------------------------------------------------
(***************************************************************************)
(* pmm_alloc_aligned: the first block, in the order of the array and of    *)
(* each list, that holds the pages at the alignment.                       *)
(***************************************************************************)
\* Mutants of Fits: the bytes skipped by aligning are not counted; an exact
\* fit is refused.
FitsUnaligned(i, j, size, alignment) ==
  regions[i].free_blocks[j].block_size >= size

FitsStrictly(i, j, size, alignment) ==
  LET curr == regions[i].free_blocks[j]
  IN  WAdd(curr.block_base, curr.block_size)
        > WAdd(ALIGN_UP(curr.block_base, alignment), size)

Fits(i, j, size, alignment) ==
  LET curr == regions[i].free_blocks[j]
  IN  /\ regions[i].free_bytes >= size
      /\ WAdd(curr.block_base, curr.block_size)
           >= WAdd(ALIGN_UP(curr.block_base, alignment), size)

FirstFit(i, j, size, alignment) ==
  /\ Fits(i, j, size, alignment)
  /\ \A k \in 1..(j - 1) : ~Fits(i, k, size, alignment)
  /\ \A h \in 1..(i - 1) : \A k \in 1..Len(regions[h].free_blocks) :
       ~Fits(h, k, size, alignment)

NoneFits(size, alignment) ==
  \A i \in 1..Len(regions) : \A j \in 1..Len(regions[i].free_blocks) :
    ~Fits(i, j, size, alignment)

\* Mutants of Take: the region's count is reduced twice, or not at all.
TakeTwice(i, blocks, size) ==
  LET region == regions[i]
  IN  regions' = [regions EXCEPT ![i] =
        [region EXCEPT !.free_blocks = blocks, !.free_bytes = @ - 2 * size]]

TakeUncounted(i, blocks, size) ==
  regions' = [regions EXCEPT ![i].free_blocks = blocks]

\* The list of region i becomes blocks, and size bytes leave the region.
Take(i, blocks, size) ==
  LET region == regions[i]
  IN  regions' = [regions EXCEPT ![i] =
        [region EXCEPT !.free_blocks = blocks, !.free_bytes = @ - size]]

BlockEnd(curr) == WAdd(curr.block_base, curr.block_size)

\* Mutants of Rest: it keeps the bytes handed out, or forgets a page.
RestFromBase(curr, base, size) ==
  [block_base |-> base, block_size |-> WSub(BlockEnd(curr), base)]

RestShort(curr, base, size) ==
  [block_base |-> WAdd(base, size),
   block_size |-> WSub(BlockEnd(curr), WAdd(base, size + PageSize))]

\* What is left of curr above the allocation.
Rest(curr, base, size) ==
  [block_base |-> WAdd(base, size),
   block_size |-> WSub(BlockEnd(curr), WAdd(base, size))]

(***************************************************************************)
(* The allocation takes [base, base + size) out of block j of region i.    *)
(* When free bytes remain on both sides, curr keeps those below; a new     *)
(* node describes those above, and points to the rest of the list, but no  *)
(* node of the list points to it.                                          *)
(***************************************************************************)
Carve(i, j, base, size) ==
  LET blocks  == regions[i].free_blocks
      curr    == blocks[j]
      rest    == Rest(curr, base, size)
      shrunk  == [blocks EXCEPT ![j].block_size = WSub(base, curr.block_base)]
      before  == curr.block_base # base
      after   == BlockEnd(curr) > WAdd(base, size)
  IN  \/ /\ before /\ after
         /\ Take(i, shrunk, size)
         /\ arena_free' = arena_free - 1
         /\ lost' = lost \union {rest}
      \/ /\ before /\ ~after
         /\ Take(i, shrunk, size)
         /\ UNCHANGED <<arena_free, lost>>
      \/ /\ ~before /\ after
         /\ Take(i, [blocks EXCEPT ![j] = rest], size)
         /\ UNCHANGED <<arena_free, lost>>
      \/ /\ ~before /\ ~after
         /\ Take(i, SubSeq(blocks, 1, j - 1) \o SubSeq(blocks, j + 1, Len(blocks)),
                 size)
         /\ arena_free' = arena_free + 1
         /\ UNCHANGED lost

Bytes(base, size) == base..(base + size - 1)

Allocate(i, j, size, alignment) ==
  LET pages == ALIGN_UP(size, PageSize)
      base  == ALIGN_UP(regions[i].free_blocks[j].block_base, alignment)
  IN  /\ Carve(i, j, base, pages)
      /\ free_bytes' = free_bytes - pages
      /\ allocs' = Append(allocs, [base |-> base, size |-> pages,
                                   request |-> size, alignment |-> alignment])
      /\ zeroed' = zeroed \union Bytes(base, pages)
      /\ Return("EC_SUCCESS", base)
      /\ UNCHANGED <<state, policy, total_bytes>>

BadAlignment(alignment) == alignment < PageSize \/ ~IsPowerOfTwo(alignment)

\* out is FALSE when the caller's result pointer is NULL.
pmm_alloc_aligned(size, alignment, out) ==
  LET pages == ALIGN_UP(size, PageSize)
      bad   == BadAlignment(alignment)
      short == free_bytes < pages
      todo  == arena_free < ArenaReserve \/ policy # "FIRST_FIT"
  IN  /\ state = "up"
      /\ \/ ~out /\ Fail("EC_NULL_ARGUMENT")
         \/ out /\ bad /\ Fail("EC_PMM_BAD_ALIGNMENT")
         \/ out /\ ~bad /\ short /\ Fail("EC_PMM_OUT_OF_MEMORY")
         \/ out /\ ~bad /\ ~short /\ todo /\ Halt
         \/ /\ out /\ ~bad /\ ~short /\ ~todo
            /\ NoneFits(pages, alignment)
            /\ Fail("EC_PMM_OUT_OF_MEMORY")
         \/ /\ out /\ ~bad /\ ~short /\ ~todo
            /\ \E i \in 1..Len(regions) :
               \E j \in 1..Len(regions[i].free_blocks) :
                 /\ FirstFit(i, j, pages, alignment)
                 /\ Allocate(i, j, size, alignment)

\* The caller sees *region only, which is 0 after every failure.
pmm_alloc_aligned_noerr(size, alignment) == pmm_alloc_aligned(size, alignment, TRUE)

pmm_alloc(size, out) == pmm_alloc_aligned(size, PageSize, out)

pmm_alloc_noerr(size) == pmm_alloc_aligned_noerr(size, PageSize)

pmm_free(region) ==
  /\ state = "up"
  /\ Fail("EC_NOT_IMPLEMENTED")

\* The owner of an allocation writes to it.
Write(a) ==
  /\ state = "up"
  /\ zeroed' = zeroed \ Bytes(allocs[a].base, allocs[a].size)
  /\ UNCHANGED <<state, policy, regions, total_bytes, free_bytes, arena_free,
                 ret, allocs, lost>>

Request(size, alignment) ==
  /\ Len(allocs) < MaxAllocs
  /\ \/ \E out \in BOOLEAN : pmm_alloc_aligned(size, alignment, out)
     \/ pmm_alloc_aligned_noerr(size, alignment)
     \/ \E out \in BOOLEAN : pmm_alloc(size, out)
     \/ pmm_alloc_noerr(size)

Next ==
  \/ \E pol \in Policies : pmm_initialize(pol)
  \/ \E r \in RegionInputs : pmm_add_region(r.base, r.size)
  \/ \E q \in AllocInputs : Request(q.size, q.alignment)
  \/ \E a \in 1..Len(allocs) : pmm_free(allocs[a].base)
  \/ \E a \in 1..Len(allocs) : Write(a)

Spec == Init /\ [][Next]_vars

-----------------------------------------------------------------------------
(***************************************************************************)
(* What the boot code gives the manager (kernel_entry.c): memory map       *)
(* entries that do not overlap, that reach their first page boundary, and  *)
(* that end far enough below the top of the address space for alignment    *)
(* never to wrap.                                                          *)
(***************************************************************************)
Disjoint(b1, s1, b2, s2) ==
  s1 = 0 \/ s2 = 0 \/ b1 + s1 <= b2 \/ b2 + s2 <= b1

BootContract ==
  /\ \A r \in RegionInputs :
       /\ r.base + r.size + PageSize <= Word
       /\ AlignedBase(r.base) <= r.base + r.size
       /\ \A q \in AllocInputs : r.base + r.size + q.alignment <= Word
  /\ \A q \in AllocInputs : q.size + PageSize <= Word
  /\ \A r1, r2 \in RegionInputs :
       r1 # r2 => Disjoint(r1.base, r1.size, r2.base, r2.size)

\* Every allocation of the kernel asks for page alignment.
PageAlignmentOnly == \A q \in AllocInputs : q.alignment = PageSize

\* The arena has a node for every region and the reserve besides.
ArenaSuffices == REGION_COUNT + ArenaReserve <= ArenaBlocks

-----------------------------------------------------------------------------
RegionBytes(i) == Bytes(regions[i].region_base, regions[i].region_size)
Managed   == UNION {RegionBytes(i) : i \in 1..Len(regions)}
HandedOut == UNION {Bytes(allocs[a].base, allocs[a].size) : a \in 1..Len(allocs)}
Listed(i) == UNION {Bytes(regions[i].free_blocks[j].block_base,
                          regions[i].free_blocks[j].block_size) :
                      j \in 1..Len(regions[i].free_blocks)}

TypeOK ==
  /\ state \in {"reset", "up", "halted"}
  /\ policy \in Policies \union {"FIRST_FIT"}
  /\ regions \in Seq(Region)
  /\ total_bytes \in Nat
  /\ free_bytes \in Nat
  /\ arena_free \in Nat
  /\ ret \in [err : ErrorCode, region : Nat]
  /\ allocs \in Seq(Alloc)
  /\ lost \subseteq Block
  /\ zeroed \subseteq Nat

(***************************************************************************)
(* No byte is handed out twice: two successful calls of pmm_alloc_aligned  *)
(* never return overlapping blocks, and no block that is still on a free   *)
(* list of pmm.c overlaps one that was handed out.                         *)
(***************************************************************************)
NoOverlap ==
  /\ \A a, b \in 1..Len(allocs) :
       a # b => Disjoint(allocs[a].base, allocs[a].size,
                         allocs[b].base, allocs[b].size)
  /\ \A a \in 1..Len(allocs) : \A i \in 1..Len(regions) :
     \A j \in 1..Len(regions[i].free_blocks) :
       Disjoint(allocs[a].base, allocs[a].size,
                regions[i].free_blocks[j].block_base,
                regions[i].free_blocks[j].block_size)

(***************************************************************************)
(* A successful pmm_alloc_aligned returns what was asked for: an address   *)
(* at the alignment, as many bytes as requested, all in one region that    *)
(* pmm_add_region accepted.                                                *)
(***************************************************************************)
AllocationsServeRequests ==
  \A a \in 1..Len(allocs) :
    /\ allocs[a].base % allocs[a].alignment = 0
    /\ allocs[a].request <= allocs[a].size
    /\ \E i \in 1..Len(regions) :
         /\ regions[i].region_base <= allocs[a].base
         /\ allocs[a].base + allocs[a].size
              <= regions[i].region_base + regions[i].region_size

(***************************************************************************)
(* pmm_free_memory and pmm_total_memory are exact: the counters pmm.c      *)
(* keeps are the number of managed bytes not handed out, per region and in *)
(* total, and the number of managed bytes.                                 *)
(***************************************************************************)
CountersExact ==
  /\ \A i \in 1..Len(regions) :
       regions[i].free_bytes = Cardinality(RegionBytes(i) \ HandedOut)
  /\ free_bytes = Cardinality(Managed \ HandedOut)
  /\ total_bytes = Cardinality(Managed)

(***************************************************************************)
(* The memzero at the end of pmm_alloc_aligned never clears a byte of an   *)
(* allocation made before: what an owner has written stays.                *)
(***************************************************************************)
LiveDataSurvives ==
  [][\A a \in 1..Len(allocs) :
       Bytes(allocs[a].base, allocs[a].size) \intersect zeroed' \subseteq zeroed]_vars

(***************************************************************************)
(* Every byte that pmm_free_memory counts can be allocated: a managed byte *)
(* not handed out is in a block on the list of its region.                 *)
(***************************************************************************)
FreeBytesListed ==
  \A i \in 1..Len(regions) : RegionBytes(i) \ HandedOut \subseteq Listed(i)

(***************************************************************************)
(* pmm_alloc_aligned reports EC_PMM_OUT_OF_MEMORY only when it must: while *)
(* some region still has enough contiguous bytes at the alignment that     *)
(* were not handed out, the search finds a block (a request of size 0 asks *)
(* for no byte and is left out).                                           *)
(***************************************************************************)
Servable(i, pages, alignment) ==
  \E base \in RegionBytes(i) :
    /\ base % alignment = 0
    /\ Bytes(base, pages) \subseteq RegionBytes(i) \ HandedOut

FirstFitComplete ==
  \A q \in AllocInputs : \A i \in 1..Len(regions) :
    LET pages == ALIGN_UP(q.size, PageSize)
    IN  (pages > 0 /\ ~BadAlignment(q.alignment) /\ Servable(i, pages, q.alignment))
          => free_bytes >= pages /\ ~NoneFits(pages, q.alignment)

(***************************************************************************)
(* Neither the TODO of pmm_alloc_aligned nor the ASSERT of pmm_add_region  *)
(* is ever reached: the node arena does not run low.                       *)
(***************************************************************************)
NeverHalts == state # "halted"

(***************************************************************************)
(* pmm_add_region rejects what is managed: the regions it accepted do not  *)
(* share a byte.                                                           *)
(***************************************************************************)
RegionsDisjoint ==
  \A i, k \in 1..Len(regions) :
    i # k => Disjoint(regions[i].region_base, regions[i].region_size,
                      regions[k].region_base, regions[k].region_size)
=============================================================================
