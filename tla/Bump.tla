-------------------------------- MODULE Bump --------------------------------
(***************************************************************************)
(* The bump allocator of types/bump_alloc.c: allocations are cut off the   *)
(* current region; the other regions wait in used_list, sorted by the      *)
(* space they have left, largest first.                                    *)
(***************************************************************************)
EXTENDS Masks, Sequences, FiniteSets

CONSTANTS
  PageSize,        \* RISCV_SV39_PAGE_SIZE
  HeaderSize,      \* sizeof(struct bump_alloc_region)
  Buffers,         \* what callers pass to bump_grow, [buffer, size]
  Requests,        \* arguments [size, alignment] of bump_allocate_aligned
  MaxAllocs        \* bound on the successful allocations of a behaviour

ASSUME BumpAssumption ==
  /\ PageSize \in Nat
  /\ HeaderSize \in 0..PageSize
  /\ Buffers \subseteq [buffer : Nat \ {0}, size : Nat]
  /\ Requests \subseteq [size : Nat, alignment : Nat]
  /\ MaxAllocs \in Nat

VARIABLES
  state,           \* "reset", "up", "halted" in an ASSERT, or "fault"
  current,         \* a sequence of the current region, empty for NULL
  used_list,
  ret,             \* NULL or the address bump_allocate_aligned returned last
  allocs           \* history: the blocks handed out, in order

vars == <<state, current, used_list, ret, allocs>>

NULL == 0

\* base is history: where the buffer of the region begins.
BumpRegion == [base : Nat, offset : Nat, end : Nat]

Init ==
  /\ state = "reset"
  /\ current = << >>
  /\ used_list = << >>
  /\ ret = NULL
  /\ allocs = << >>

bump_initialize ==
  /\ state = "reset"
  /\ state' = "up"
  /\ UNCHANGED <<current, used_list, ret, allocs>>

-----------------------------------------------------------------------------
Space(region) == region.end - region.offset

(***************************************************************************)
(* insert_into_sorted_list puts the region before the first one that has   *)
(* no more space than it.  A region that is NULL is not inserted.          *)
(***************************************************************************)
InsertIndex(list, region) ==
  IF \E i \in 1..Len(list) : Space(list[i]) <= Space(region)
    THEN Min({i \in 1..Len(list) : Space(list[i]) <= Space(region)})
    ELSE Len(list) + 1

\* Mutants of insert_into_sorted_list: the head is overwritten, or the region
\* is pushed to the front.
insert_over_head(list, r) ==
  IF r = << >> \/ list = << >> THEN r \o list ELSE r \o Tail(list)

insert_at_front(list, r) == r \o list

insert_into_sorted_list(list, r) ==
  IF r = << >> THEN list
  ELSE LET i == InsertIndex(list, r[1])
       IN  SubSeq(list, 1, i - 1) \o r \o SubSeq(list, i, Len(list))

InUse(b) ==
  \E i \in 1..Len(current \o used_list) : (current \o used_list)[i].base = b.buffer

Halt ==
  /\ state' = "halted"
  /\ UNCHANGED <<current, used_list, ret, allocs>>

\* Mutant of bump_grow: the new region is linked before current, which stays.
bump_grow_push(b) ==
  /\ state = "up"
  /\ ~InUse(b)
  /\ b.size >= PageSize
  /\ current' = <<[base |-> b.buffer, offset |-> b.buffer + HeaderSize,
                   end |-> b.buffer + b.size]>> \o current
  /\ UNCHANGED <<state, used_list, ret, allocs>>

\* A caller gives the allocator memory it does not own yet.
bump_grow(b) ==
  /\ state = "up"
  /\ ~InUse(b)
  /\ \/ b.size < PageSize /\ Halt
     \/ /\ b.size >= PageSize
        /\ used_list' = insert_into_sorted_list(used_list, current)
        /\ current' = <<[base |-> b.buffer, offset |-> b.buffer + HeaderSize,
                         end |-> b.buffer + b.size]>>
        /\ UNCHANGED <<state, ret, allocs>>

-----------------------------------------------------------------------------
\* Mutant of Fits: the space lost to alignment is not counted.
FitsUnaligned(region, size, alignment) == region.offset + size <= region.end

Fits(region, size, alignment) ==
  ALIGN_UP(region.offset, alignment) + size <= region.end

ReturnNull ==
  /\ ret' = NULL
  /\ UNCHANGED <<state, current, used_list, allocs>>

\* Cut the allocation off region, the current one from now on.
Cut(region, size, alignment) ==
  LET retval == ALIGN_UP(region.offset, alignment)
  IN  /\ current' = <<[region EXCEPT !.offset = retval + size]>>
      /\ ret' = retval
      /\ allocs' = Append(allocs, [base |-> retval, size |-> size,
                                   alignment |-> alignment])
      /\ UNCHANGED state

\* The load of used_list->next when used_list is NULL.
Fault ==
  /\ state' = "fault"
  /\ UNCHANGED <<current, used_list, ret, allocs>>

\* Mutant of Swap: give up without trying the region with the most space.
SwapNever(size, alignment) == used_list # << >> /\ ReturnNull

\* The region with the most space left becomes the current one and is tried.
Swap(size, alignment) ==
  LET largest == Head(used_list)
  IN  /\ used_list # << >>
      /\ used_list' = insert_into_sorted_list(Tail(used_list), current)
      /\ \/ Fits(largest, size, alignment) /\ Cut(largest, size, alignment)
         \/ /\ ~Fits(largest, size, alignment)
            /\ current' = <<largest>>
            /\ ret' = NULL
            /\ UNCHANGED <<state, allocs>>

bump_allocate_aligned(size, alignment) ==
  LET nothing == size = 0 \/ current = << >>
      fits    == Fits(current[1], size, alignment)
  IN  /\ state = "up"
      /\ \/ nothing /\ ReturnNull
         \/ ~nothing /\ fits /\ Cut(current[1], size, alignment) /\ UNCHANGED used_list
         \/ ~nothing /\ ~fits /\ used_list = << >> /\ Fault
         \/ ~nothing /\ ~fits /\ Swap(size, alignment)

bump_allocate(size) == bump_allocate_aligned(size, 1)

Next ==
  \/ bump_initialize
  \/ \E b \in Buffers : bump_grow(b)
  \/ \E q \in Requests : /\ Len(allocs) < MaxAllocs
                         /\ bump_allocate_aligned(q.size, q.alignment)
  \/ \E q \in Requests : /\ Len(allocs) < MaxAllocs
                         /\ bump_allocate(q.size)

Spec == Init /\ [][Next]_vars

-----------------------------------------------------------------------------
(***************************************************************************)
(* What the theorems of BumpProof assume: buffers share no byte, and no    *)
(* alignment is 0 (ALIGN_UP would lead back to address 0).                 *)
(***************************************************************************)
BuffersDisjoint ==
  \A b, c \in Buffers :
    b # c => b.buffer + b.size <= c.buffer \/ c.buffer + c.size <= b.buffer

AlignmentsPositive == \A q \in Requests : q.size > 0 => q.alignment > 0

-----------------------------------------------------------------------------
Regions == current \o used_list

TypeOK ==
  /\ state \in {"reset", "up", "halted", "fault"}
  /\ current \in Seq(BumpRegion) /\ Len(current) <= 1
  /\ used_list \in Seq(BumpRegion)
  /\ ret \in Nat
  /\ allocs \in Seq([base : Nat, size : Nat, alignment : Nat])

(***************************************************************************)
(* No two results of bump_allocate_aligned overlap, and none reaches into  *)
(* the part of a region that is still to be handed out, into the header of *)
(* a region or beyond its end.                                             *)
(***************************************************************************)
NoOverlap ==
  /\ \A a, b \in 1..Len(allocs) :
       a < b => \/ allocs[a].base + allocs[a].size <= allocs[b].base
                \/ allocs[b].base + allocs[b].size <= allocs[a].base
  /\ \A a \in 1..Len(allocs) : \E i \in 1..Len(Regions) :
       /\ Regions[i].base + HeaderSize <= allocs[a].base
       /\ allocs[a].base + allocs[a].size <= Regions[i].offset
       /\ Regions[i].offset <= Regions[i].end

(***************************************************************************)
(* A result of bump_allocate_aligned is at the alignment asked for when    *)
(* that is a power of two, whichever region it was cut off.                *)
(***************************************************************************)
Aligned ==
  \A a \in 1..Len(allocs) :
    (\E k \in 0..WordBits : allocs[a].alignment = 2 ^ k)
      => allocs[a].base % allocs[a].alignment = 0

(***************************************************************************)
(* insert_into_sorted_list keeps used_list sorted, largest space first, so *)
(* that its head is the region to try next.                                *)
(***************************************************************************)
UsedListSorted ==
  \A i \in 1..(Len(used_list) - 1) : Space(used_list[i]) >= Space(used_list[i + 1])

(***************************************************************************)
(* Exchanging current and the head of used_list and inserting on growth    *)
(* lose no region and duplicate none.                                      *)
(***************************************************************************)
RegionsKept ==
  [][ /\ \A i, j \in 1..Len(Regions') : i # j => Regions'[i].base # Regions'[j].base
      /\ \A i \in 1..Len(Regions) : \E j \in 1..Len(Regions') :
           Regions'[j].base = Regions[i].base ]_vars

(***************************************************************************)
(* bump_allocate gives up only when it must: when it returns NULL for a    *)
(* size that is not 0, no region has that many bytes left.                 *)
(***************************************************************************)
NullOnlyWhenFull ==
  [][ \A q \in Requests :
        (/\ q.size > 0
         /\ Len(allocs) < MaxAllocs
         /\ bump_allocate(q.size)
         /\ ret' = NULL
         /\ state' = "up")
        => \A i \in 1..Len(Regions) : Space(Regions[i]) < q.size ]_vars

(***************************************************************************)
(* A request that cannot be served is answered with NULL, which the        *)
(* callers in device_tree/blob.c test for: it is never a fault.            *)
(***************************************************************************)
FailureIsNull == state # "fault"
=============================================================================
