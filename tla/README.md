# A TLA+ verification of the MirrodOS kernel

MirrodOS is a kernel for 64-bit RISC-V, booted by Limine on QEMU's `virt`
machine. It runs one hart, in supervisor mode, and so far does the following:
take over the memory map, parse the device tree, initialise the PLIC, UART and
virtio drivers, switch interrupts on and wait. There are no processes yet and
the repository has no tests; the correctness of the memory allocators, of the
page tables and of interrupt handling is what everything later will rest on.

This directory models those parts in TLA+, checks them with TLC on small
instances, and proves the central properties of the three allocators, of the page
tables, of the device tree and of interrupt handling with TLAPS for every value of the
parameters. `PROJECT.json` maps each
definition to the lines it models.

## 1. Inventory

| Component (under `src/Kernel`) | State | Operations | Calls |
|---|---|---|---|
| Physical memory manager, `src/pmm.c` | `regions[32]`, each a list of free blocks; `free_bytes`, `total_bytes`; node arena | `pmm_initialize`, `pmm_add_region`, `pmm_alloc_aligned` and three wrappers, `pmm_free` (a stub), two getters | slab (nodes), `memzero` |
| Slab arenas, `src/types/slab.c` | list of regions, `current_region`, `block_list`, two counts | two initialisers, `slab_grow`, `slab_allocate`, `slab_free` | `kalloc` on refill |
| Bump allocator, `src/types/bump_alloc.c` | `current`, `used_list` sorted by space | `bump_initialize`, `bump_grow`, `bump_allocate[_aligned]` | – |
| Page tables, `src/riscv.c`, `include/riscv.h` | tables of entries in physical memory | map a page of three sizes, unmap, translate | `pmm_alloc` |
| Error values, `src/types/error.c` | a word as a stack of codes | push, pop, top, tests | – |
| Traps, `src/asm/trap.s`, `src/trap.c` | one trap frame, CSRs | entry, dispatch, return | PLIC driver |
| PLIC driver, `src/devices/plic.c` | `driver_map`, device registers | enable, claim, complete | UART driver |
| UART, `src/devices/uart.c`, `src/uart.c` | device registers | receive interrupt with echo, console output | – |
| Boot, `src/kernel_entry.c` | – | the order of everything | all |
| Device initialisation, `src/devices/device.c` | list of drivers, PLIC per hart | walk over the device tree | slab, heap, drivers |
| Kernel heap, `src/kvspace.c` | – | `kalloc`, `krealloc`, `kfree` | pmm |
| Device tree parser, `src/devices/device_tree/blob.c` | tree, four arenas, a bump allocator | parse, second pass, queries | slab, bump, heap |
| Virtio, `src/devices/virtio/*.c` | device registers | probe, handshake | – |
| Printing, `src/fmt/print.c` | `put`, a static buffer for digits | `kprint`, `kprintln`, `kprintln_string`, `kprint_initialize` | UART |
| String views, memory helpers | – | pure functions | – |

Where correctness is hard:

* **Allocators** are sequential, but their state is spread over lists, counters
  and a second allocator, and a mistake shows only after a sequence of calls:
  the same byte handed out twice, a free byte no list reaches, a counter that
  has drifted from the list it stands for, a boundary off by one.
* **Page tables** fail halfway when memory runs out, and calls with pages of
  three sizes meet in one tree.
* **Interrupts** are the only concurrency: they fall between any two
  instructions of the boot code; the PLIC, the UART and the timer move between
  any two device accesses of the handler; a source claimed and not completed is
  silent for ever; and only a line that stays high makes the handler, which
  reads one character per interrupt, see the next one. The handler prints, too,
  through a static buffer it shares with the code it interrupts.
* **Device initialisation** acts on whatever tree the blob describes, and goes on
  when a device fails: the list of drivers, the arena of their nodes and the
  PLIC's table must agree after every such path.

Every such place is an entry of `hazards` in `PROJECT.json`, with the
properties that would catch it going wrong.

## 2. Modules

| Module | Models |
|---|---|
| `Words` | wrapping machine words, `ALIGN_UP`/`ALIGN_DOWN` for powers of two |
| `Masks` | the same macros bit by bit, for every alignment |
| `Errors` | error values of `error.c` |
| `Pmm` | the physical memory manager |
| `BlockPool`, `Slab` | what an arena promises; the arena of `slab.c` |
| `Bump` | the bump allocator |
| `Sv39` | the page tables |
| `DeviceTree` | the parser of the device tree blob and its queries |
| `Devices` | boot from the blob to the end of `devices_init`, composed with `DeviceTree`; virtio |
| `Kprint` | formatted printing, by the program and by the trap handler |
| `Interrupts` | boot tail, traps, PLIC and UART drivers, and the devices |
| `DataProof` | lemmas about data: bit masks and `ALIGN_UP`, linked lists, nested tokens, recursion along a tree |
| `PmmProof` | theorems about `Pmm`: types, safety, the kernel's use of it |
| `SlabProof` | theorems about `Slab`, and that it implements `BlockPool` |
| `BumpProof` | theorems about `Bump` |
| `Sv39Proof` | theorems about `Sv39` |
| `DevicesProof` | theorems about `DeviceTree` and `Devices` |
| `KprintProof` | a theorem about `Kprint` |
| `InterruptsProof` | theorems about `Interrupts` |
| `MC*` | constants for TLC |

**Pmm.** `regions` is the used part of the array; a list of blocks is a
sequence. Each call of the C code is one action whose disjuncts are its return
paths, guarded in the order of the code. The arena is the number of its free
nodes: `pmm.c` only looks at that, and `Slab` verifies that the count is
exact. `ASSERT` and `TODO` spin for ever: `state = "halted"`. Arithmetic wraps
at `Word`. History variables record what was handed out (`allocs`), the
blocks that no list reaches (`lost`) and the bytes that still hold the zeroes of
`memzero` (`zeroed`); `Write` is an owner using its memory. The three
assumptions `BootContract`, `PageAlignmentOnly` and `ArenaSuffices` state what
`kernel_entry.c` gives the manager: a memory map without overlaps, away from the
top of the address space; page alignment; 100 nodes for 32 regions and a
reserve of 16.

**Slab.** Addresses are numbers, the list through `next_region` is the sequence
`order`, `current_region` an index in it. `slab_grow` is written as a function of
the list because `slab_allocate` also performs it when it refills. `kalloc`
is the choice of an unused page, or the panic when there is none. Following a
NULL `next_region` is `state = "fault"`. The refinement mapping to `BlockPool`
reads the free set off the list and the regions: blocks freed and blocks not yet
bumped.

**Bump.** A region is its offset and end; `current` is a sequence of at most one
region. The two halves of `bump_allocate_aligned` are `Cut` and `Swap`.
`BuffersDisjoint` and `AlignmentsPositive` state what the proofs need of the callers:
buffers that do not overlap, and no alignment of 0.

**Sv39.** `mem` maps each physical page to a table of entries, data pages
included, so that a store to the wrong page is seen. A mapping call is a chain
of `Descend` steps ended by `SetLeaf`; its intermediate state is a record, since
an allocation can fail between the steps and what was done before stays. `Spec` has
the calls as they are. They do not test for a larger page above the address and take
its data for a table (run `sv39_under`). `ContractSpec` restricts `Spec` to callers that avoid it
(`NoGigaAbove`, `NoMegaAbove`); the code has no such test, and what the other
runs and the proofs say of the page tables is said of `ContractSpec`. `PagesApart` and
`CodesAreErrors` state what the proofs need: `pmm_alloc` hands out aligned pages, each
once, none of them the root or a mapped page; and the error values of `riscv.c`, the
one pushed by `error_push` included, do not read as success.

**DeviceTree.** The blob is read lazily: each token is chosen when the parser
reads it, and `tokens` records the choice, so that the tree of pointers can be
compared with a reading of the tokens that knows no pointers. Nodes and
properties are numbered as they are allocated. The recursion of the second pass is
the stack `todo` and the call in progress, `visit`, one property per step, because
the order of the properties decides which error or halt comes first. The cells
of a `reg` are known by their places in it, and the arrays it is rewritten into hold
these, so that a number read from the wrong place is seen. Blobs may be
malformed (a missing end, an unknown token, a property outside a node, several
trees); `NameAllowed` and `NewName` state what the format guarantees about names.
The code lets cells pass from a node to all its descendants; `CellsInherited`
states exactly that. A blob with a memory reservation ends in `halted`: the loop
at `blob.c:263` does not advance and allocates until the memory is gone.

**Devices** extends `DeviceTree`: the parser's steps come first, then
`kernel_c_entry` tests the error value, and `devices_init` works on the tree of
pointers the parser has left. The walk is a stack of calls, each a node and
an index into its compatible strings; one string is one step, because a failing
device leaves its traces before the next is tried. The arena of driver nodes hands
out freed blocks first, as `Slab` does. The registers of a virtio device are
chosen when the driver looks at them. `virtio_mmio_driver_init` has no path to
success: version 2 and the block device run into `TODO` or `PANIC`, everything else is
an error, so no virtio driver is ever listed. That `bsp_hartid` is below the
512 entries of `hart_plic_map` is an assumption: `devices_init` stores there without
a test.

**Kprint.** Two contexts, the program and the trap handler, each with the locals of
its call in a frame; `buf` and the output are shared. One step per character of the
format, per digit and per character written, so that the handler comes between any
two. Formats are put together from items, whose text, arguments and expected
appearance are the inputs; `kprint_print_int` keeps its index as a wrapping word.
The calls follow the kernel: interrupts are enabled between two calls, and behind
that `kernel_c_entry` prints text only (`program_prints`). Allow it one number there
and the handler's digits appear in it; that is the mutant of `FormatAgrees`.

**Interrupts.** One action per access to a device or CSR. The program is the
tail of `devices_init` for a UART and of `kernel_c_entry`; its registers are the
position in the message it prints, which the trap entry saves in the one frame
and `trap_return` restores. The external line may be high when nothing is left to claim;
`ClaimsCompleted` also says that no driver runs then. The history `out` keeps what the program has
printed, and for each character read what the driver has written in answer. The PLIC, the receive FIFO, the timer and the software
interrupt are environment, marked external in the map.

## 3. Runs

| Run | Checks | Shows |
|---|---|---|
| `pmm` | `TypeOK`, `NoOverlap`, `AllocationsServeRequests`, `CountersExact`, `RegionsDisjoint`, `LiveDataSurvives` | all error paths, all alignments, both halts |
| `pages` | `FreeBytesListed`, `FirstFitComplete`, `NeverHalts` | the manager as the kernel uses it loses no memory and never halts |
| `lost` | `FreeBytesListed` (violated) | with a larger alignment, free memory is lost |
| `slab` | `TypeOK`, `BlocksInBounds`, `RegionInvariant`, `NextRegionExists`, `CountsExact`, `ImplementsPool` | an arena with fitting blocks implements the pool |
| `slab_node` | `BlocksInBounds` (violated) | 72-byte nodes run past their page |
| `bump` | `TypeOK`, `NoOverlap`, `Aligned`, `UsedListSorted`, `RegionsKept`, `NullOnlyWhenFull` | several regions, exchanges, odd alignments |
| `bump_fault` | `FailureIsNull` (violated) | one region and a request that does not fit |
| `sv39` | `TypeOK`, `TablesFormTree`, `VirtToPhysInFirstPage`, `TranslationsExact` | within the contract, mapping and unmapping are exact, failures included; how far `riscv_sv39_virt_to_phys` is right |
| `sv39_under` | `SuccessMaps` (violated) | a page mapped below a larger one: success, and no mapping |
| `interrupts` | `TypeOK`, `MessageIntact`, `EchoExact`, `ClaimsCompleted`, `EveryCharEchoed`, `TimerKeepsFiring` | interrupts at every point |
| `devicetree` | `TypeOK`, `TreeMirrorsBlob`, `CellsInherited`, `LookupFinds`, `DriversMatchTree`, `RegisteredDriversLive` | from the blob to the drivers: every blob of three nodes and three properties, and boards of two and three devices |
| `print` | `TypeOK`, `FormatAgrees` | every directive, full words, malformed formats, an interrupting printer |

Bounds and why they suffice:

* `pmm`: a page of 4 bytes, words of 7 bits, three entries in the map (one
  ragged at both ends, one smaller than a page), requests of zero, a part of a
  page, one and two pages, alignments of one, two and four pages and two that are
  refused, four allocations, an array for two regions. All four ways to cut a
  block, a full array, an arena at its reserve, an unimplemented policy and
  exhaustion occur. `pages` has four regions, two of them adjacent, and five
  allocations, enough to exhaust regions one after the other.
* `slab`: three buffers, one refused by an assertion, and one page for a refill:
  a region is inserted between others, the arena refills, and `kalloc` fails.
  Block, header and page keep the proportions under which bumping ends exactly
  at `region_end` (`ExactGeometry`). `slab_node` has the kernel's own sizes.
* `bump`: three regions of different size and one refused, four allocations.
* `sv39`: tables of two entries and pages of two bytes keep three levels and make
  16 virtual addresses, all of which are compared; three table pages make a small
  mapping fail at the second level and at the first.
* `devicetree`: three nodes make a chain, two siblings and two trees; three
  properties let a node override its ancestor's cells, and let both counts be zero
  above a `reg`. Accepted and refused values of every interpreted property occur.
  The boards (`Blobs`) go beyond these bounds: every pair of seven kinds of device,
  every triple of a PLIC, a UART and a virtio device, a bus with a device below and
  one behind it, with virtio devices that fail in each way the driver knows.
* `print`: words of 5 bits and a buffer of 8, in the proportion of 64 and 67: a full
  word in base 2 with its prefix uses every byte. Two calls of the program, so that
  the buffer holds old digits, and one of the handler at every step.
* `interrupts`: a FIFO of two characters, three typed, a message of two, a
  timer period of two ticks, so that every interrupt meets every step.

The allocators, the page tables, the boot code and printing are passive, so a behaviour may end (at a bound
or in the endless loop of a failed assertion); deadlock is checked for
`Interrupts`, where something always happens.

**Fairness** is used in `Interrupts` only: the hart executes its next
instruction (weak fairness of `Handler` and `Program`) and takes an enabled
pending interrupt; the PLIC forwards and notifies; time passes. Weak fairness is
enough, because nothing in the system disables these steps again and again: the
gateway stays open until its source is forwarded, a pending interrupt stays
pending until it is taken. Nobody has to type, fault or raise a software
interrupt. A panic ends everything and is exempted in both liveness properties.

### Disagreements between the code and what is said of it

1. `pmm.c:130-136`: the node of the bytes above an aligned allocation is never
   linked (`lost`). The kernel's own calls only ask for page alignment, for which
   it cannot happen (`pages`).
2. `slab.c:66` and `:90` test for equality with `region_end`, which blocks of 72
   bytes never meet (`slab_node`). The memory manager's own arena, with nodes of 24
   bytes, stops at its reserve of 16 and does not get there.
3. `bump_alloc.c:88` reads through a NULL `used_list` (`bump_fault`).
4. `riscv.c:22`, `:33` and `:64` take a larger page above the address for a table: the call
   writes into the mapped data and returns `EC_SUCCESS`, and nothing is mapped
   (`sv39_under`). The kernel has no caller yet.

Four more were met while modelling and have no violating run of their own:

5. `riscv.c:150`: the offset of a translation has 12 bits for every page size, although
   `riscv.h:95` says "Converts a virtual address to a physical address using the given
   page table". `VirtToPhysInFirstPage` says exactly where the result is right, and is
   proved. `kernel_entry.c:66` translates the trap vector this way.
6. `trap.c:21` says that the timer fires "every 0.025 seconds"; the 10000000 ticks of the next
   line are one second at the frequency it names. In `Interrupts` the period is a parameter.
7. `blk.c:26` says "Device did not accept our features!" when FEATURES_OK is
   set, that is, when it did; and `!(1 << VIRTIO_BLK_F_RO)` is 0, so that no feature
   is ever accepted. Both outcomes end in a loop (`Devices`, `block_driver_init`).
8. `error.c:58` shifts by `sizeof(enum ErrorCode)`, 4, as if bytes were bits. The two
   errors of the second pass come back as 0x132 and 0x152, whose top is 50 and 82;
   `error_string` indexes its table of 27 with it. `DriversMatchTree` shows that boot
   stops all the same.

## 4. Proofs

`PmmProof` proves `TypeCorrect`: `Spec => []TypeOK`, for all constants that meet
`PmmAssumption`. The hard part is that no counter drops below zero: a
region's `free_bytes` is compared by the search, the global one before it,
and the arena's count is covered by `ArenaReserve > 0`.

Assuming `BootContract`, it proves the inductive invariant `SafetyInv`
(theorem `Safety`) and from it `NoDoubleAllocation`, `RequestsServed`,
`RegionsApart` and `LiveDataKept`. `NoOverlap` is not inductive: to see that
an allocation is disjoint from the earlier ones one has to know where free blocks
come from. `SafetyInv` adds

* `RegionsFromMap`: every region is the page-aligned part of an entry of the map,
  hence ends below the top of the address space, and no sum wraps;
* `RegionsDisjoint`: `pmm_add_region` only tests whether the new base lies in a
  managed region; with disjoint entries that is enough;
* `BlocksInside`: every list has at most one block, inside its region, and
  `block_base + free_bytes` does not pass the end of the region. A list never
  grows: the only code that could add a node, for the bytes above an aligned
  allocation, does not link it. The bound on `free_bytes` is what makes a search
  that looks at the region's count first safe.

A step of the proof per action, and under `pmm_alloc_aligned` one per way to cut
a block, reduces the new block and the new allocation to arithmetic on interval
ends (`Words` lemmas: no wrap below `Word`; `ALIGN_UP` returns a multiple at or
above its argument and less than an alignment away). `LiveDataKept` follows from
the first conjunct of `NoOverlap` in the next state.

The rest of the module is what the manager owes to the way the kernel uses it. From
`SafetyInv`, `CountersAreExact` proves `CountersExact` (the cardinality of a union
of intervals that do not meet grows by what an allocation takes). With page
alignment only, `FilledFromBelow` is inductive: a region is its allocations from the
base upwards and one free block that is exactly the rest. That gives
`FreeMemoryReachable` (nothing free is off the lists) and `OutOfMemoryIsReal` (the
first-fit search, which looks at counts first, misses nothing).
`ArenaNeverRunsLow` proves `NeverHalts`, with `NodesLeft`: the arena has lost one
node per region and no more, so 100 nodes last for 32 regions and a reserve of 16.

`SlabProof` assumes `ArenaContract`: buffers that do not meet, and `ExactGeometry`,
a whole number of blocks between the first block and `region_end`. The kernel's arena
of device tree properties meets it (56-byte blocks, first at 64, 4032 = 72 * 56); its
arena of nodes does not, which is what `slab_node` shows. The inductive
invariant is `SlabInv` (`SlabSafety`): each region is a buffer of the callers, on
its grid, in the list once; the regions before `current_region` are full and
those behind it are not; blocks on `block_list` and blocks held by callers lie below
the offset of their region and are different from one another; and the two counts are the
cardinalities of these sets. `BlocksCounted`, `RegionsInOrder`,
`NextRegionIsThere`, `BlocksStayInside` and `SlabTyped` follow from it.
`ArenaImplementsPool` is the refinement of `BlockPool`: initial states map to initial
states, and each action, with the invariant before and after it, maps to a step
of the pool or to a stutter. The refill is the step that needs most: the pool may
only grow when it has no free block, which is `CountsExact` read at
`free_blocks = 0`.

`DataProof` has the lemmas without state: lists that lead to smaller numbers, the nesting of
tokens, functions along a tree's pointers, and what is needed of `ALIGN_UP`, which `Masks` defines as the code
does, as an addition and a conjunction of bits. The bits of `2^k - 1` are those below `k`
(`MaskBits`), and the sum of the bits a word shares with it is its remainder
(`MaskRemainder`), by an induction on the number of bits; the library's induction
theorems cannot be instantiated here, so the inductions of this project take the least
counterexample of a set of numbers (`LeastNumber`, `UpTo`). From it follow `AlignUpNotLower`,
for every alignment but 0, and `AlignUpMultiple`, for powers of two.

`BumpProof` assumes `BumpContract`, that is `BuffersDisjoint` and `AlignmentsPositive`. The
invariant `BumpInv` (`BumpSafety`) says that `current` and `used_list` hold each region
once, that the list is sorted, and that every allocation lies between the header
and the offset of a region, apart from all others. `UsedListSorted` compares
neighbours; what the insertion keeps is the order of every pair. `NullIsHonest` needs it: the
code tries the current region and the head of the list, and the head has most space.
`ResultsAligned` is `AlignUpMultiple` at the offset each result was cut from.

`Sv39Proof` is about `ContractSpec` and assumes `PagesContract`, that is `PagesApart` and
`CodesAreErrors`.
`TablesFormTree` is not inductive: nothing in it keeps a third-level table from
holding pointers. `Sv39Inv` (`Sv39Safety`) adds that (`Shallow`), and that what
is not valid is zero, as is every page that is no table (`Clean`). Two lemmas carry the rest.
`SameSlot`: two walks end in the same slot exactly when their addresses lie in
one page of the size that slot stands for, since a slot has one path from the root.
`SameWalk`: a walk sees pointers and the slot it ends in, and nothing else. So a leaf
stored in, or cleared from, the slot of `va` affects the addresses of its page only (`PutLeaf`), and a
new table affects none (`LinkTable`); a mapping call is at most two of the latter and one of
the former, and stops after any of them when memory runs out. That is
`TranslationsAreExact`, for all virtual addresses and all sizes. `VirtToPhysReach` compares two
offsets, that in the page a leaf maps and that in a small page (`FirstSmallPage`).

`InterruptsProof` needs no contract. `TypeControl` is the inductive part about control:
which program counters, handler states and interrupt enables go together, and
what the handler still owes (`Owed`: a character read and not fully echoed exists only
between `getchar` and `complete`). `Registers` says where the interrupted
program's position is: in the registers between traps, in the frame during one. From these
`NothingStaysClaimed`, `MessageComesOut` and `EchoIsExact` follow for every
message, FIFO and timer period.

`DevicesProof` is about the parser first, for every blob, malformed ones and the boards
alike, and every bound. `TreeMirrorsBlob` compares the tree of pointers with a reading of the
tokens. `TreeInv` ties them together: the nodes are numbered as their tokens come, so
`sibling` and `parent` lead to smaller numbers and `children` to larger ones (`Linked`); the list
of children of a node holds exactly the nodes whose `parent` it is (`ChildrenListed`), that of its
properties exactly the tokens that belong to it (`PropertiesListed`); `current` is the
innermost node still open and `depth` their number. A NODE_START puts one number in front of one
list and leaves all others as they are, since no list leads to a larger number. The
second pass changes values and cells but no link. `TypeCorrect` and `MirrorsEveryBlob` follow.

`CellsPassDown` and `LookupsAgree` are about the second pass and the queries. `ValueInv` says
what the first pass leaves: every property has the one value its token declares, and no node
has two of a name. `PassInv` is about the recursion: the nodes seen so far are reached from the root,
each once, and the calls that are left lead to all the others (`Reaches`); the cells handed
to a call are those the node above it has, which are what the blob declares above it
(`CellsPassed`); the properties read of a node have set its fields, those that are left have
not (`Applied`); and each `reg` read is cut by the cells of its node into pairs whose cells, put
together again, are the blob's in their order (`RegJoins`). The definitions these are compared with
recurse over nodes, down and sideways, which no order of their numbers follows; that such a
function exists is proved first, from the rank of a node in the tree (`BranchExists`), and used for
the cells inherited and for the search by compatible string. The pass that fails pushes an error code
on the value it returns; that this is no success needs a word of at least 8 bits
(`WordBits >= 8`), which a machine of 64 has.

`BootParses` says that `BootSpec` implements the parser's `Spec`, so all four hold through the boot
(`BootTyped`, `BootMirrors`, `BootInherits`, `BootLooksUp`). On top, `BootInv` is about the drivers: every block of the
arena is on the list or free, once (`Arena`); `driver_map` is the first UART of the list
(`FirstUart`); the PLIC found is listed and stays (`HasPlic`). The failing virtio device is the step
that matters: its block is listed by neither for a moment within the step and must be free
after it. `DriversLive` is `RegisteredDriversLive`.

`DriversAgree` is `DriversMatchTree`. `Judged` says that the parser returns success or an
error to `error_is_err`: whatever `error_push` mixes into the code from below, the value is 2 or 3
modulo 4 (`PushedTop`), so that its top is never 0 and boot does not go past a tree that
failed. `WalkInv` is about the walk: the calls left and the nodes seen make up the tree as far
as it is reached, and only the first call has begun (`Stack`); every node has as many UART drivers
as the strings looked at so far call for (`Counted`, with `Looked` and `Due`); on the list the PLIC
is last and all before it are UARTs of nodes reached (`Lined`). When no call is left the nodes seen
are the tree (`TreeSeen`), and what the drivers test of a node's `reg` and `compatible` is what the blob
declares, by `PassInv` (`RegAgrees`, `MentionsAgree`). If `devices_init` gives up, the search that
found no PLIC has gone over the whole tree (`FoundOrNone`).

`KprintProof` proves `BufferSuffices`: the bound of `kprint_print_int`'s buffer. `KprintInv`
says that what is left of the number fits in the bits left in the buffer (`Room`: below
`2^(k-1)` at index `k`), so base 2 just fits, its prefix uses the last two bytes, and
the index that wraps below 0 comes back by the addition. The handler's call shares the buffer
and has an index of its own. The theorem has the hypothesis `[]ArgumentsGiven`, that a directive
of a number finds a word as its argument, which is a property of the callers' formats; TLC
checks it as the first conjunct of `FormatAgrees`.

Each invariant was checked by TLC before it was proved. Only model-checked:

* liveness (`EveryCharEchoed`, `TimerKeepsFiring`): fairness is out of the prover's
  reach;
* `FormatAgrees`: what a format is expected to print is put together from its items, an
  induction over data.

## 5. Not modelled

* The heap, `kvspace.c`: `kalloc` is `pmm_alloc_aligned` with a panic for an error
  and has no state (`Pmm` has the call, `Slab` the refill and the panic).
  `krealloc` and `kfree` have no caller, and panic, since `pmm_free` is a stub.
* `limine.h` is third-party; `platform_info.c` copies the bootloader's answers;
  `str_view.c` and `memory.c` are loops over bytes; `vmm.c` is empty.
* The bytes behind an array of addresses. With three address cells the code
  writes 16 bytes per address into 12 (`blob.c:143`); the model has the wrong value
  read, not the neighbour overwritten. No driver accepts three cells.
* What PANIC and ASSERT print. A node's name is a format in `device.c:29`; names
  with braces do not occur in device trees.
* The contents of slab blocks, the translation cache (no `sfence.vma` follows an
  unmapping), floating-point registers (the kernel uses none), the
  UART's transmitter (always ready), traps before Limine hands over.
* `stvec` receives a physical address; that it is also mapped one to one is up
  to the bootloader and is assumed.

## 6. Plan

1. Done: `Pmm`, `Slab` with `BlockPool`, `Bump`, `Sv39`, `DeviceTree`, `Devices`,
   `Kprint`, `Interrupts`; the safety properties of `Pmm`, `Slab`, `Bump`, `Sv39`,
   `DeviceTree`, `Devices` and `Interrupts` proved, that of the print buffer, and the
   refinement of `BlockPool`.
2. Next: the first callers of `krealloc`, of unmapping and of virtio queues,
   when the kernel has them.
3. Theorem to add: `FormatAgrees` of `Kprint`, once the provers do induction over data.
