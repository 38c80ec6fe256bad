-------------------------------- MODULE Sv39 --------------------------------
(***************************************************************************)
(* The three-level page tables of riscv.c: mapping pages of three sizes,   *)
(* unmapping small pages, translating.  A table has Entries entries (512   *)
(* in the kernel) and a page Small bytes (4096).  Physical memory is mem,  *)
(* a table of entries per page; pages of tables come from pmm_alloc, which *)
(* hands out zeroed pages (module Pmm) in the order of pool until none is  *)
(* left.                                                                   *)
(***************************************************************************)
EXTENDS Errors, Sequences

CONSTANTS
  Entries,         \* RISCV_SV39_PT_ENTRY_COUNT
  Small,           \* RISCV_SV39_PAGE_SIZE
  Root,            \* address of the root table
  TablePages,      \* the pages pmm_alloc has left, in order
  DataPages,       \* the pages mappings point to
  Vas, Pas, Flags  \* arguments of the calls

Mega == Entries * Small                 \* RISCV_SV39_MEGAPAGE_SIZE
Giga == Entries * Mega                  \* RISCV_SV39_GIGAPAGE_SIZE
Top  == Entries * Giga                  \* number of virtual addresses

AccessFlags == {"R", "W", "X"}

ASSUME Sv39Assumption ==
  /\ Entries \in Nat \ {0} /\ Small \in Nat \ {0}
  /\ Root \in Nat \ {0} /\ TablePages \in Seq(Nat \ {0}) /\ DataPages \subseteq Nat \ {0}
  /\ Vas \subseteq 0..(Top - 1) /\ Pas \subseteq Nat
  /\ \A f \in Flags : /\ f \subseteq {"V", "U", "G", "A", "D"} \union AccessFlags
                       /\ f \intersect AccessFlags # {}

VARIABLES
  mem,             \* physical memory as tables of entries
  pool,            \* the pages pmm_alloc has left
  ret              \* error value of the last call and *pa of the last unmap

vars == <<mem, pool, ret>>

AllPages == {Root} \union Range(TablePages) \union DataPages

-----------------------------------------------------------------------------
(***************************************************************************)
(* Page table entries: a page address and flags.                           *)
(***************************************************************************)
\* Mutant of riscv_sv39_create_pte: the page number takes the address's place.
create_pte_unshifted(pa, flags) == [addr |-> pa \div Small, flags |-> flags]

riscv_sv39_create_pte(pa, flags) == [addr |-> pa - (pa % Small), flags |-> flags]

riscv_sv39_pte_get_address(pte) == pte.addr

riscv_sv39_pte_valid(pte) == "V" \in pte.flags

riscv_sv39_pte_leaf(pte) == pte.flags \intersect AccessFlags # {}

ZeroEntry == [addr |-> 0, flags |-> {}]
ZeroTable == [i \in 0..(Entries - 1) |-> ZeroEntry]

vpn0(va) == (va \div Small) % Entries
vpn1(va) == (va \div Mega) % Entries
vpn2(va) == (va \div Giga) % Entries

IS_ALIGNED(value, alignment) == value % alignment = 0

Init ==
  /\ mem = [p \in AllPages |-> ZeroTable]
  /\ pool = TablePages
  /\ ret = [err |-> EC_SUCCESS, pa |-> 0]

Return(err, pa) == ret' = [err |-> err, pa |-> pa]

Fail(err) ==
  /\ Return(err, 0)
  /\ UNCHANGED <<mem, pool>>

-----------------------------------------------------------------------------
(***************************************************************************)
(* A mapping call descends from table to table.  Its progress is the       *)
(* memory and the pages left so far, the table reached, and whether every  *)
(* pmm_alloc succeeded.                                                    *)
(***************************************************************************)
Start == [mem |-> mem, pool |-> pool, table |-> Root, ok |-> TRUE]

\* Mutant of Descend: the new table is not linked from its entry.
DescendUnlinked(w, i) ==
  LET entry == w.mem[w.table][i]
  IN  IF ~w.ok THEN w
      ELSE IF riscv_sv39_pte_valid(entry)
        THEN [w EXCEPT !.table = riscv_sv39_pte_get_address(entry)]
      ELSE IF w.pool = << >> THEN [w EXCEPT !.ok = FALSE]
      ELSE [w EXCEPT !.mem[Head(w.pool)] = ZeroTable,
                     !.pool = Tail(w.pool),
                     !.table = Head(w.pool)]

Descend(w, i) ==
  LET entry == w.mem[w.table][i]
      new   == Head(w.pool)
  IN  IF ~w.ok THEN w
      ELSE IF riscv_sv39_pte_valid(entry)
        THEN [w EXCEPT !.table = riscv_sv39_pte_get_address(entry)]
      ELSE IF w.pool = << >> THEN [w EXCEPT !.ok = FALSE]
      ELSE [w EXCEPT !.mem = [@ EXCEPT ![w.table][i] = riscv_sv39_create_pte(new, {"V"}),
                                       ![new] = ZeroTable],
                     !.pool = Tail(w.pool),
                     !.table = new]

AllocFailed == error_push(EC_PMM_OUT_OF_MEMORY, EC_RISCV_SV39_ALLOC_FAILED)

\* Mutant of SetLeaf: an entry in use is overwritten.
SetLeafAlways(w, i, pa, flags) ==
  /\ mem' = [w.mem EXCEPT ![w.table][i] =
                 riscv_sv39_create_pte(pa, flags \union {"V"})]
  /\ pool' = w.pool
  /\ IF w.ok THEN Return(EC_SUCCESS, 0) ELSE Return(AllocFailed, 0)

\* The last table of the descent gets the leaf, unless its entry is taken.
\* What was allocated on the way stays when the call fails.
SetLeaf(w, i, pa, flags) ==
  LET taken == riscv_sv39_pte_valid(w.mem[w.table][i])
  IN  /\ pool' = w.pool
      /\ \/ ~w.ok /\ Return(AllocFailed, 0) /\ mem' = w.mem
         \/ w.ok /\ taken /\ Return(EC_RISCV_SV39_MAPPING_EXISTS, 0) /\ mem' = w.mem
         \/ /\ w.ok /\ ~taken
            /\ mem' = [w.mem EXCEPT ![w.table][i] =
                         riscv_sv39_create_pte(pa, flags \union {"V"})]
            /\ Return(EC_SUCCESS, 0)

Unaligned(va, pa, size) == ~IS_ALIGNED(va, size) \/ ~IS_ALIGNED(pa, size)

riscv_sv39_map_small_page(va, pa, flags) ==
  \/ Unaligned(va, pa, Small) /\ Fail(EC_RISCV_SV39_UNALIGNED_ADDR)
  \/ /\ ~Unaligned(va, pa, Small)
     /\ SetLeaf(Descend(Descend(Start, vpn2(va)), vpn1(va)), vpn0(va), pa, flags)

riscv_sv39_map_megapage(va, pa, flags) ==
  \/ Unaligned(va, pa, Mega) /\ Fail(EC_RISCV_SV39_UNALIGNED_ADDR)
  \/ /\ ~Unaligned(va, pa, Mega)
     /\ SetLeaf(Descend(Start, vpn2(va)), vpn1(va), pa, flags)

riscv_sv39_map_gigapage(va, pa, flags) ==
  \/ Unaligned(va, pa, Giga) /\ Fail(EC_RISCV_SV39_UNALIGNED_ADDR)
  \/ /\ ~Unaligned(va, pa, Giga)
     /\ SetLeaf(Start, vpn2(va), pa, flags)

-----------------------------------------------------------------------------
\* The entries a translation meets, from the root down.
Entry2(va) == mem[Root][vpn2(va)]
Entry1(va) == mem[riscv_sv39_pte_get_address(Entry2(va))][vpn1(va)]
Entry0(va) == mem[riscv_sv39_pte_get_address(Entry1(va))][vpn0(va)]

Table2(va) == riscv_sv39_pte_valid(Entry2(va)) /\ ~riscv_sv39_pte_leaf(Entry2(va))
Table1(va) == /\ Table2(va)
              /\ riscv_sv39_pte_valid(Entry1(va)) /\ ~riscv_sv39_pte_leaf(Entry1(va))

\* Mutant of ClearEntry: the address is returned and the entry stays.
ClearNothing(va) == UNCHANGED mem

ClearEntry(va) ==
  mem' = [mem EXCEPT ![riscv_sv39_pte_get_address(Entry1(va))][vpn0(va)] = ZeroEntry]

riscv_sv39_unmap_small_page(va) ==
  LET valid2 == riscv_sv39_pte_valid(Entry2(va))
      valid1 == riscv_sv39_pte_valid(Entry1(va))
      valid0 == riscv_sv39_pte_valid(Entry0(va))
  IN  \/ ~IS_ALIGNED(va, Small) /\ Fail(EC_RISCV_SV39_UNALIGNED_ADDR)
      \/ /\ IS_ALIGNED(va, Small)
         /\ \/ ~valid2 /\ Fail(EC_RISCV_SV39_NO_MAPPING)
            \/ valid2 /\ ~Table2(va) /\ Fail(EC_RISCV_SV39_MAPPING_EXISTS)
            \/ Table2(va) /\ ~valid1 /\ Fail(EC_RISCV_SV39_NO_MAPPING)
            \/ Table2(va) /\ valid1 /\ ~Table1(va) /\ Fail(EC_RISCV_SV39_MAPPING_EXISTS)
            \/ Table1(va) /\ ~valid0 /\ Fail(EC_RISCV_SV39_NO_MAPPING)
            \/ /\ Table1(va) /\ valid0
               /\ ClearEntry(va)
               /\ Return(EC_SUCCESS, riscv_sv39_pte_get_address(Entry0(va)))
               /\ UNCHANGED pool

\* Mutant of riscv_sv39_virt_to_phys: the root entry alone decides.
virt_to_phys_shallow(va) ==
  IF ~riscv_sv39_pte_valid(Entry2(va)) THEN 0
  ELSE riscv_sv39_pte_get_address(Entry2(va)) + (va % Small)

\* A leaf of any level gets the offset within a small page.
riscv_sv39_virt_to_phys(va) ==
  LET offset  == va % Small
      Leaf(e) == IF riscv_sv39_pte_valid(e) /\ riscv_sv39_pte_leaf(e)
                   THEN riscv_sv39_pte_get_address(e) + offset
                   ELSE 0
  IN  IF ~Table2(va) THEN Leaf(Entry2(va))
      ELSE IF ~Table1(va) THEN Leaf(Entry1(va))
      ELSE Leaf(Entry0(va))

-----------------------------------------------------------------------------
Next ==
  \/ \E va \in Vas, pa \in Pas, f \in Flags :
       \/ riscv_sv39_map_small_page(va, pa, f)
       \/ riscv_sv39_map_megapage(va, pa, f)
       \/ riscv_sv39_map_gigapage(va, pa, f)
  \/ \E va \in Vas : riscv_sv39_unmap_small_page(va)

Spec == Init /\ [][Next]_vars

(***************************************************************************)
(* The calls test for a valid entry and not for a leaf on their way down,  *)
(* so a larger page above the address is taken for a table (SuccessMaps).  *)
(* ContractSpec has the callers that never map below a larger page.  (That *)
(* a mapping can be accessed in some way is an assumption on Flags: an     *)
(* entry without access flags points to a table.)                          *)
(***************************************************************************)
NoGigaAbove(va) == ~riscv_sv39_pte_leaf(Entry2(va))
NoMegaAbove(va) == Table2(va) => ~riscv_sv39_pte_leaf(Entry1(va))

MapSmall(va, pa, f) == /\ NoGigaAbove(va) /\ NoMegaAbove(va)
                       /\ riscv_sv39_map_small_page(va, pa, f)
MapMega(va, pa, f)  == NoGigaAbove(va) /\ riscv_sv39_map_megapage(va, pa, f)
MapGiga(va, pa, f)  == riscv_sv39_map_gigapage(va, pa, f)

ContractNext ==
  \/ \E va \in Vas, pa \in Pas, f \in Flags :
       MapSmall(va, pa, f) \/ MapMega(va, pa, f) \/ MapGiga(va, pa, f)
  \/ \E va \in Vas : riscv_sv39_unmap_small_page(va)

ContractSpec == Init /\ [][ContractNext]_vars

-----------------------------------------------------------------------------
\* The pages pmm_alloc hands out are aligned, each is handed out once, and
\* none is the root or a page that callers map.
PagesApart ==
  /\ \A i, j \in 1..Len(TablePages) : TablePages[i] = TablePages[j] => i = j
  /\ Root \notin Range(TablePages)
  /\ DataPages \intersect ({Root} \union Range(TablePages)) = {}
  /\ \A p \in {Root} \union Range(TablePages) : p % Small = 0

\* The error values of riscv.c fit a word, and none reads as success.
CodesAreErrors ==
  /\ error_is_ok(EC_SUCCESS) /\ EC_SUCCESS \in 0..(2 ^ WordBits - 1)
  /\ \A c \in {EC_RISCV_SV39_UNALIGNED_ADDR, EC_RISCV_SV39_MAPPING_EXISTS,
              EC_RISCV_SV39_NO_MAPPING, AllocFailed} :
       error_is_err(c) /\ c \in 0..(2 ^ WordBits - 1)

-----------------------------------------------------------------------------
(***************************************************************************)
(* The translation of the Sv39 architecture: a leaf of level 2, 1 or 0     *)
(* maps a giga-, mega- or small page, and the whole offset in it is kept.  *)
(***************************************************************************)
Unmapped == -1

Translate(va) ==
  LET Leaf(e, size) == IF riscv_sv39_pte_valid(e) /\ riscv_sv39_pte_leaf(e)
                         THEN riscv_sv39_pte_get_address(e) + (va % size)
                         ELSE Unmapped
  IN  IF ~Table2(va) THEN Leaf(Entry2(va), Giga)
      ELSE IF ~Table1(va) THEN Leaf(Entry1(va), Mega)
      ELSE Leaf(Entry0(va), Small)

VirtualAddresses == 0..(Top - 1)

Pte == [addr : {a \in Nat : a % Small = 0}, flags : SUBSET ({"V", "U", "G", "A", "D"} \union AccessFlags)]

TypeOK ==
  /\ mem \in [AllPages -> [0..(Entries - 1) -> Pte]]
  /\ pool \in Seq(Nat)
  /\ ret \in [err : 0..(2 ^ WordBits - 1), pa : Nat]

\* The entries that point to tables, as pairs of table and index.
Pointer(p, i) == riscv_sv39_pte_valid(mem[p][i]) /\ ~riscv_sv39_pte_leaf(mem[p][i])
Tables == Range(TablePages) \ Range(pool)

(***************************************************************************)
(* The tables form a tree that loses no page: every page pmm_alloc gave to *)
(* a mapping call, one that failed halfway included, is pointed to by      *)
(* exactly one entry of the root or of another table, and an entry that is *)
(* no leaf points to such a page.                                          *)
(***************************************************************************)
TablesFormTree ==
  LET slots == {s \in ({Root} \union Tables) \X (0..(Entries - 1)) : Pointer(s[1], s[2])}
      target(s) == mem[s[1]][s[2]].addr
  IN  /\ {target(s) : s \in slots} = Tables
      /\ \A s, t \in slots : s # t => target(s) # target(t)

\* The bytes a call with this size maps.
PageOf(va, size) == {v \in VirtualAddresses : v \div size = va \div size}

(***************************************************************************)
(* A step changes the translations it was asked to change and no other: a  *)
(* successful mapping call makes exactly the addresses of its page go to   *)
(* the page given, an unmapping removes exactly one small page and returns *)
(* where it was mapped, and a call that fails changes no translation, even *)
(* when it has allocated tables.  This is about calls within the contract. *)
(***************************************************************************)
Maps(va, pa, size) ==
  \A v \in VirtualAddresses :
    Translate(v)' = IF v \in PageOf(va, size) THEN pa + (v % size) ELSE Translate(v)

Unmaps(va) ==
  /\ \A v \in VirtualAddresses :
       Translate(v)' = IF v \in PageOf(va, Small) THEN Unmapped ELSE Translate(v)
  /\ ret'.pa = Translate(va)

SameTranslations == \A v \in VirtualAddresses : Translate(v)' = Translate(v)

Outcome(P) == IF error_is_ok(ret'.err) THEN P ELSE SameTranslations

TranslationsExact ==
  [][ /\ \A va \in Vas, pa \in Pas, f \in Flags :
           /\ MapSmall(va, pa, f) => Outcome(Maps(va, pa, Small))
           /\ MapMega(va, pa, f)  => Outcome(Maps(va, pa, Mega))
           /\ MapGiga(va, pa, f)  => Outcome(Maps(va, pa, Giga))
      /\ \A va \in Vas : riscv_sv39_unmap_small_page(va) => Outcome(Unmaps(va)) ]_vars

(***************************************************************************)
(* "Maps a page into the given page table": when a mapping call, within    *)
(* the contract or not, returns success, its address goes to the page      *)
(* given.                                                                  *)
(***************************************************************************)
SuccessMaps ==
  [][ \A va \in Vas, pa \in Pas, f \in Flags :
        (/\ \/ riscv_sv39_map_small_page(va, pa, f)
            \/ riscv_sv39_map_megapage(va, pa, f)
            \/ riscv_sv39_map_gigapage(va, pa, f)
         /\ error_is_ok(ret'.err))
        => Translate(va)' = pa ]_vars

(***************************************************************************)
(* riscv_sv39_virt_to_phys returns 0 where nothing is mapped; elsewhere it *)
(* agrees with the architecture in small pages and in the first small page *)
(* of a larger one, and only there: riscv.h says that it "Converts a       *)
(* virtual address to a physical address using the given page table", but  *)
(* the offset it adds to a leaf of any level is that within a small page.  *)
(***************************************************************************)
LeafSize(v) == IF ~Table2(v) THEN Giga ELSE IF ~Table1(v) THEN Mega ELSE Small

VirtToPhysInFirstPage ==
  \A v \in VirtualAddresses :
    IF Translate(v) = Unmapped THEN riscv_sv39_virt_to_phys(v) = 0
    ELSE riscv_sv39_virt_to_phys(v) = Translate(v) <=> v % LeafSize(v) < Small
=============================================================================
