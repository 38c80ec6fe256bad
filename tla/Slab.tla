-------------------------------- MODULE Slab --------------------------------
(***************************************************************************)
(* The arenas of types/slab.c: fixed-size blocks, bumped out of a list of  *)
(* regions and recycled through block_list.  Addresses are numbers; a      *)
(* region is the buffer it lies in with the two pointers of struct         *)
(* slab_region, and the list threaded through next_region is a sequence.   *)
(* What the blocks contain is left out: the zeroes of slab_allocate and,   *)
(* while a block is free, its next_block pointer, here block_list.         *)
(***************************************************************************)
EXTENDS Masks, Sequences, FiniteSets

CONSTANTS
  ObjSize,         \* sizeof the objects the arena is for
  PointerSize,     \* SLAB_BLOCK_BASE_SIZE
  HeaderSize,      \* sizeof(struct slab_region)
  Buffers,         \* what callers pass to slab_grow, [buffer, size]
  Pages,           \* what kalloc can return to slab_allocate, [buffer, size]
  Refill,          \* values auto_refill is initialised to
  MaxBlockList     \* bound on the length of block_list

NULL == 0

ASSUME SlabAssumption ==
  /\ ObjSize \in Nat \ {0}
  /\ PointerSize \in Nat \ {0}
  /\ HeaderSize \in Nat
  /\ Buffers \union Pages \subseteq [buffer : Nat \ {NULL}, size : Nat]
  /\ Refill \subseteq BOOLEAN
  /\ MaxBlockList \in Nat

VARIABLES
  state,           \* "reset", "up", "halted" in an ASSERT or PANIC, or "fault"
  auto_refill,
  order,           \* the regions, in the order of next_region
  current,         \* index of current_region in order, 0 for NULL
  block_list,      \* freed blocks, first the one slab_allocate takes next
  free_blocks,
  total_blocks,
  ret,             \* what slab_allocate returned last
  live             \* history: the blocks callers hold

vars == <<state, auto_refill, order, current, block_list, free_blocks,
          total_blocks, ret, live>>

SlabRegion == [buffer : Nat, size : Nat, current_offset : Nat, region_end : Nat]

Init ==
  /\ state = "reset"
  /\ auto_refill = FALSE
  /\ order = << >>
  /\ current = 0
  /\ block_list = << >>
  /\ free_blocks = 0
  /\ total_blocks = 0
  /\ ret = NULL
  /\ live = {}

-----------------------------------------------------------------------------
(***************************************************************************)
(* Block sizes need not be powers of two here: ALIGN_UP and ALIGN_DOWN are *)
(* those of Masks.                                                         *)
(***************************************************************************)
SLAB_BLOCK_SIZE == IF ObjSize > PointerSize THEN ObjSize ELSE PointerSize

block_size == SLAB_BLOCK_SIZE

SLAB_REGION_SIZE(count) ==
  ALIGN_UP(HeaderSize, SLAB_BLOCK_SIZE) + SLAB_BLOCK_SIZE * count

FirstBlock(buffer) == ALIGN_UP(buffer + HeaderSize, block_size)

RegionEnd(buffer, size) == ALIGN_DOWN(buffer + size, block_size)

\* Mutant of Slots: the room of the header is counted too.
SlotsWithHeader(region) == region.size \div block_size

Slots(region) == (region.region_end - region.current_offset) \div block_size

-----------------------------------------------------------------------------
slab_init ==
  /\ state = "reset"
  /\ state' = "up"
  /\ auto_refill' = FALSE
  /\ UNCHANGED <<order, current, block_list, free_blocks, total_blocks, ret, live>>

slab_autorefill_init ==
  /\ state = "reset"
  /\ state' = "up"
  /\ auto_refill' = TRUE
  /\ UNCHANGED <<order, current, block_list, free_blocks, total_blocks, ret, live>>

(***************************************************************************)
(* slab_grow, as a function of the list and the index, for it is also a    *)
(* step of slab_allocate: the new region follows current_region, and       *)
(* becomes it when that one is full.                                       *)
(***************************************************************************)
NewRegion(b) ==
  [buffer |-> b.buffer, size |-> b.size,
   current_offset |-> FirstBlock(b.buffer),
   region_end |-> RegionEnd(b.buffer, b.size)]

\* Mutant of Full: one block more than fits.
FullPast(region) == region.current_offset > region.region_end

Full(region) == region.current_offset = region.region_end

GrownOrder(b) ==
  SubSeq(order, 1, current) \o <<NewRegion(b)>>
    \o SubSeq(order, current + 1, Len(order))

\* Mutant of GrownCurrent: always move on to the new region.
GrownCurrentAlways(b) == current + 1

GrownCurrent(b) ==
  IF current = 0 \/ Full(order[current]) THEN current + 1 ELSE current

LargeEnough(b) == b.size >= SLAB_REGION_SIZE(1)

InUse(b) == \E i \in 1..Len(order) : order[i].buffer = b.buffer

Halt ==
  /\ state' = "halted"
  /\ UNCHANGED <<auto_refill, order, current, block_list, free_blocks,
                 total_blocks, ret, live>>

\* A caller gives the arena memory it does not own yet.
slab_grow(b) ==
  /\ state = "up"
  /\ ~InUse(b)
  /\ \/ ~LargeEnough(b) /\ Halt
     \/ /\ LargeEnough(b)
        /\ order' = GrownOrder(b)
        /\ current' = GrownCurrent(b)
        /\ free_blocks' = free_blocks + Slots(NewRegion(b))
        /\ total_blocks' = total_blocks + Slots(NewRegion(b))
        /\ UNCHANGED <<state, auto_refill, block_list, ret, live>>

-----------------------------------------------------------------------------
(***************************************************************************)
(* slab_allocate                                                           *)
(***************************************************************************)
Hand(b) ==
  /\ ret' = b
  /\ live' = live \union {b}

TakeListed ==
  /\ block_list # << >>
  /\ block_list' = Tail(block_list)
  /\ free_blocks' = free_blocks - 1
  /\ Hand(Head(block_list))
  /\ UNCHANGED <<state, auto_refill, order, current, total_blocks>>

ReturnNull ==
  /\ block_list = << >> /\ free_blocks = 0 /\ ~auto_refill
  /\ ret' = NULL
  /\ UNCHANGED <<state, auto_refill, order, current, block_list, free_blocks,
                 total_blocks, live>>

\* The region of list o at index c gives its next block.  The last lines of
\* slab_allocate do not look at region_end again after moving to the next region.
BumpAt(o, c) ==
  /\ order' = [o EXCEPT ![c].current_offset = @ + block_size]
  /\ current' = c
  /\ Hand(o[c].current_offset)
  /\ UNCHANGED <<state, auto_refill, block_list>>

\* Following a next_region that is NULL is a fault.
Fault ==
  /\ state' = "fault"
  /\ UNCHANGED <<auto_refill, order, current, block_list, free_blocks,
                 total_blocks, ret, live>>

\* Mutant of Bump: the counter is not touched when the region changes.
BumpUncounted(o, c, free, total) ==
  \/ /\ ~Full(o[c])
     /\ BumpAt(o, c)
     /\ free_blocks' = free - 1 /\ total_blocks' = total
  \/ /\ Full(o[c]) /\ c < Len(o)
     /\ BumpAt(o, c + 1)
     /\ free_blocks' = free /\ total_blocks' = total
  \/ Full(o[c]) /\ c = Len(o) /\ Fault

Bump(o, c, free, total) ==
  \/ /\ ~Full(o[c])
     /\ BumpAt(o, c)
     /\ free_blocks' = free - 1 /\ total_blocks' = total
  \/ /\ Full(o[c]) /\ c < Len(o)
     /\ BumpAt(o, c + 1)
     /\ free_blocks' = free - 1 /\ total_blocks' = total
  \/ Full(o[c]) /\ c = Len(o) /\ Fault

TakeFresh ==
  /\ block_list = << >> /\ free_blocks # 0
  /\ Bump(order, current, free_blocks, total_blocks)

\* kalloc panics when there is no page left.
RefillAndTake ==
  /\ block_list = << >> /\ free_blocks = 0 /\ auto_refill
  /\ \/ /\ \A p \in Pages : InUse(p)
        /\ Halt
     \/ \E p \in Pages :
          /\ ~InUse(p)
          /\ \/ ~LargeEnough(p) /\ Halt
             \/ /\ LargeEnough(p)
                /\ Bump(GrownOrder(p), GrownCurrent(p), Slots(NewRegion(p)),
                        total_blocks + Slots(NewRegion(p)))

slab_allocate ==
  /\ state = "up"
  /\ TakeListed \/ ReturnNull \/ TakeFresh \/ RefillAndTake

\* Mutants of slab_free: the rest of the list is dropped; the block is not
\* counted as free.
slab_free_unlinked(obj) ==
  /\ state = "up"
  /\ Len(block_list) < MaxBlockList
  /\ block_list' = <<obj>>
  /\ free_blocks' = free_blocks + 1
  /\ live' = live \ {obj}
  /\ UNCHANGED <<state, auto_refill, order, current, total_blocks, ret>>

slab_free_uncounted(obj) ==
  /\ state = "up"
  /\ Len(block_list) < MaxBlockList
  /\ block_list' = <<obj>> \o block_list
  /\ live' = live \ {obj}
  /\ UNCHANGED <<state, auto_refill, order, current, free_blocks, total_blocks, ret>>

\* A caller returns a block it holds.
slab_free(obj) ==
  /\ state = "up"
  /\ Len(block_list) < MaxBlockList
  /\ block_list' = <<obj>> \o block_list
  /\ free_blocks' = free_blocks + 1
  /\ live' = live \ {obj}
  /\ UNCHANGED <<state, auto_refill, order, current, total_blocks, ret>>

Next ==
  \/ FALSE \in Refill /\ slab_init
  \/ TRUE \in Refill /\ slab_autorefill_init
  \/ \E b \in Buffers : slab_grow(b)
  \/ slab_allocate
  \/ \E obj \in live : slab_free(obj)

Spec == Init /\ [][Next]_vars

-----------------------------------------------------------------------------
(***************************************************************************)
(* The geometry under which bumping ends exactly at region_end: the span   *)
(* of every buffer is a whole, positive number of blocks behind the header *)
(* and inside the buffer.                                                  *)
(***************************************************************************)
ExactGeometry ==
  \A b \in Buffers \union Pages : LargeEnough(b) =>
    /\ FirstBlock(b.buffer) \in Nat /\ RegionEnd(b.buffer, b.size) \in Nat
    /\ b.buffer + HeaderSize <= FirstBlock(b.buffer)
    /\ FirstBlock(b.buffer) < RegionEnd(b.buffer, b.size)
    /\ RegionEnd(b.buffer, b.size) <= b.buffer + b.size
    /\ (RegionEnd(b.buffer, b.size) - FirstBlock(b.buffer)) % block_size = 0

\* No two buffers share a byte: they come from the physical memory manager.
BuffersDisjoint ==
  \A b, c \in Buffers \union Pages :
    b # c => b.buffer + b.size <= c.buffer \/ c.buffer + c.size <= b.buffer

-----------------------------------------------------------------------------
TypeOK ==
  /\ state \in {"reset", "up", "halted", "fault"}
  /\ auto_refill \in BOOLEAN
  /\ order \in Seq(SlabRegion)
  /\ current \in 0..Len(order)
  /\ block_list \in Seq(Nat)
  /\ free_blocks \in Nat
  /\ total_blocks \in Nat
  /\ ret \in Nat
  /\ live \subseteq Nat

\* The bytes of block b lie in one region's buffer, behind its header.
InRegion(b, region) ==
  /\ region.buffer + HeaderSize <= b
  /\ b + block_size <= region.buffer + region.size

(***************************************************************************)
(* slab_allocate hands out memory of the arena only: every block a caller  *)
(* holds lies inside a buffer slab_grow was given, behind the header.      *)
(***************************************************************************)
BlocksInBounds ==
  \A b \in live : \E i \in 1..Len(order) : InRegion(b, order[i])

(***************************************************************************)
(* The comment of struct slab_alloc: regions before current_region are     *)
(* fully allocated, regions with free slots come after it.                 *)
(***************************************************************************)
RegionInvariant ==
  \A i \in 1..Len(order) :
    /\ i < current => Full(order[i])
    /\ i > current => ~Full(order[i])

(***************************************************************************)
(* The comment in slab_allocate, "we know there's at least one more region *)
(* because free_blocks > 0": next_region is never followed when NULL.      *)
(***************************************************************************)
NextRegionExists == state # "fault"

Unbumped(region) ==
  {region.current_offset + k * block_size : k \in 0..(Slots(region) - 1)}

FreeSet ==
  {block_list[i] : i \in 1..Len(block_list)}
    \union UNION {Unbumped(order[i]) : i \in 1..Len(order)}

(***************************************************************************)
(* free_blocks, on which slab_allocate decides to refill and pmm.c to give *)
(* up, is the number of blocks that can be handed out; with the blocks     *)
(* callers hold it makes total_blocks.                                     *)
(***************************************************************************)
CountsExact ==
  /\ free_blocks = Cardinality(FreeSet)
  /\ total_blocks = free_blocks + Cardinality(live)

(***************************************************************************)
(* The arena implements the pool of BlockPool: no block is handed out      *)
(* twice, blocks never overlap, and slab_allocate takes a page from kalloc *)
(* only when no block is free.                                             *)
(***************************************************************************)
AllBuffers == Buffers \union Pages
OwnedByArena(b) == \E c \in AllBuffers : InRegion(b, c)

Pool == INSTANCE BlockPool WITH BlockSize <- block_size, Owned <- OwnedByArena,
                                free <- FreeSet, live <- live

ImplementsPool == Pool!Spec
=============================================================================
