----------------------------- MODULE Sv39Proof -----------------------------
(***************************************************************************)
(* Theorems about the page tables of riscv.c, for tables of any size, any  *)
(* number of pages for them, and any sequence of calls that keeps the      *)
(* contract: none maps an address below a larger page.                     *)
(***************************************************************************)
EXTENDS Sv39, SequenceTheorems, TLAPS

\* What pmm_alloc gives, and error values that are errors.
PagesContract == PagesApart /\ CodesAreErrors

\* The entries of a table.
Index == 0..(Entries - 1)

\* What physical memory may hold.
Memory == [AllPages -> [Index -> Pte]]

\* Entry i of page p of memory m points to a table.
Ptr(m, p, i) == riscv_sv39_pte_valid(m[p][i]) /\ ~riscv_sv39_pte_leaf(m[p][i])

\* The pages that are tables when q is what pmm_alloc has left.
Taken(q) == Range(TablePages) \ Range(q)
Nodes(q) == {Root} \union Taken(q)

\* Memory m, with q the pages left to pmm_alloc, each once.
Typed(m, q) ==
  /\ m \in Memory
  /\ q \in Seq(Range(TablePages))
  /\ \A i, j \in 1..Len(q) : q[i] = q[j] => i = j

\* What is not valid is zero, and so is every page that is no table.
Clean(m, q) ==
  /\ \A p \in AllPages, i \in Index : riscv_sv39_pte_valid(m[p][i]) \/ m[p][i] = ZeroEntry
  /\ \A p \in AllPages : p \notin Nodes(q) => m[p] = ZeroTable

\* Every table but the root has exactly one entry that points to it.
Tree(m, q) ==
  /\ \A p \in Nodes(q), i \in Index : Ptr(m, p, i) => m[p][i].addr \in Taken(q)
  /\ \A t \in Taken(q) : \E p \in Nodes(q), i \in Index : Ptr(m, p, i) /\ m[p][i].addr = t
  /\ \A p, r \in Nodes(q), i, j \in Index :
       Ptr(m, p, i) /\ Ptr(m, r, j) /\ m[p][i].addr = m[r][j].addr => p = r /\ i = j

\* There is no table below the third level.
Shallow(m) ==
  \A i, j, k \in Index :
    ~(/\ Ptr(m, Root, i)
      /\ Ptr(m, m[Root][i].addr, j)
      /\ Ptr(m, m[m[Root][i].addr][j].addr, k))

Sound(m, q) == Typed(m, q) /\ Clean(m, q) /\ Tree(m, q) /\ Shallow(m)

\* The inductive invariant.
Sv39Inv ==
  /\ Sound(mem, pool)
  /\ ret \in [err : 0..(2 ^ WordBits - 1), pa : Nat]

-----------------------------------------------------------------------------
\* Translation in memory m: the entries met, the slot read last, the size of
\* what that slot maps.
E2(m, v) == m[Root][vpn2(v)]
E1(m, v) == m[E2(m, v).addr][vpn1(v)]
E0(m, v) == m[E1(m, v).addr][vpn0(v)]

T2(m, v) == Ptr(m, Root, vpn2(v))
T1(m, v) == T2(m, v) /\ Ptr(m, E2(m, v).addr, vpn1(v))

LastPage(m, v) ==
  IF ~T2(m, v) THEN Root ELSE IF ~T1(m, v) THEN E2(m, v).addr ELSE E1(m, v).addr
LastIndex(m, v) ==
  IF ~T2(m, v) THEN vpn2(v) ELSE IF ~T1(m, v) THEN vpn1(v) ELSE vpn0(v)
LastSize(m, v) ==
  IF ~T2(m, v) THEN Giga ELSE IF ~T1(m, v) THEN Mega ELSE Small

LeafOf(e, v, size) ==
  IF riscv_sv39_pte_valid(e) /\ riscv_sv39_pte_leaf(e) THEN e.addr + (v % size) ELSE Unmapped

Trans(m, v) == LeafOf(m[LastPage(m, v)][LastIndex(m, v)], v, LastSize(m, v))

-----------------------------------------------------------------------------
(***************************************************************************)
(* Arithmetic of virtual addresses.                                        *)
(***************************************************************************)
\* Quotient and remainder are determined by the sum they make.
LEMMA QuotientUnique ==
  ASSUME NEW a \in Nat \ {0}, NEW q \in Nat, NEW r \in Nat, r < a
  PROVE  (a * q + r) \div a = q /\ (a * q + r) % a = r
  OBVIOUS

\* Division with remainder.
LEMMA Division ==
  ASSUME NEW v \in Nat, NEW a \in Nat \ {0}
  PROVE  v \div a \in Nat /\ v % a \in Nat /\ v % a < a /\ v = a * (v \div a) + (v % a)
  OBVIOUS

\* Dividing twice is dividing by the product.
LEMMA DivideTwice ==
  ASSUME NEW v \in Nat, NEW a \in Nat \ {0}, NEW b \in Nat \ {0}
  PROVE  (v \div b) \div a = v \div (a * b)
<1>1. PICK x \in Nat, r \in Nat : x = v \div b /\ r = v % b /\ r < b /\ v = b * x + r
  BY Division
<1>2. PICK y \in Nat, s \in Nat : y = x \div a /\ s = x % a /\ s < a /\ x = a * y + s
  <2>1. x \div a \in Nat /\ x % a \in Nat /\ x % a < a /\ x = a * (x \div a) + (x % a)
    BY Division
  <2> QED
    BY <2>1, Zenon
<1>3. PICK c \in Nat \ {0} : c = a * b
  OBVIOUS
<1>4. PICK d \in Nat : d = b * s + r
  BY <1>1, <1>2
<1>5. d < c
  <2>1. s + 1 <= a
    BY <1>2
  <2>2. b * (s + 1) <= b * a
    BY <2>1, <1>2
  <2>3. b * (s + 1) = b * s + b
    BY <1>2
  <2> QED
    BY <2>2, <2>3, <1>1, <1>3, <1>4
<1>6. v = c * y + d
  <2>1. b * (a * y + s) = (b * (a * y)) + (b * s)
    BY <1>2
  <2>2. b * (a * y) = (a * b) * y
    BY <1>2
  <2>3. v = b * (a * y + s) + r
    BY <1>1, <1>2, Zenon
  <2>4. v = ((a * b) * y + b * s) + r
    BY <2>1, <2>2, <2>3, Zenon
  <2>5. v = (c * y + b * s) + r
    BY <2>4, <1>3, Zenon
  <2>6. c * y \in Nat /\ b * s \in Nat
    OBVIOUS
  <2> QED
    BY <2>5, <2>6, <1>1, <1>4
<1>7. v \div c = y
  BY <1>5, <1>6, <1>3, QuotientUnique
<1> QED
  BY <1>7, <1>1, <1>2, <1>3

\* The sizes are positive.
LEMMA Sizes ==
  /\ Small \in Nat \ {0} /\ Entries \in Nat \ {0}
  /\ Mega \in Nat \ {0} /\ Giga \in Nat \ {0} /\ Top \in Nat \ {0}
<1>1. Small \in Nat \ {0} /\ Entries \in Nat \ {0}
  BY Sv39Assumption
<1>2. Mega \in Nat \ {0}
  BY <1>1 DEF Mega
<1>3. Giga \in Nat \ {0}
  BY <1>1, <1>2 DEF Giga
<1>4. Top \in Nat \ {0}
  BY <1>1, <1>3 DEF Top
<1> QED
  BY <1>1, <1>2, <1>3, <1>4

\* The three parts of a virtual address index a table.
LEMMA VpnIndex ==
  ASSUME NEW v \in VirtualAddresses
  PROVE  v \in Nat /\ vpn0(v) \in Index /\ vpn1(v) \in Index /\ vpn2(v) \in Index
<1>1. v \in Nat
  BY Sizes DEF VirtualAddresses
<1>2. v \div Small \in Nat /\ v \div Mega \in Nat /\ v \div Giga \in Nat
  BY <1>1, Sizes, Division
<1>3. \A x \in Nat : x % Entries \in Index
  BY Sizes, Division DEF Index
<1> QED
  BY <1>1, <1>2, <1>3 DEF vpn0, vpn1, vpn2

\* Quotients of v by the three sizes, in terms of its parts.
LEMMA Quotients ==
  ASSUME NEW v \in VirtualAddresses
  PROVE  /\ v \div Giga = vpn2(v)
         /\ v \div Mega = Entries * vpn2(v) + vpn1(v)
         /\ v \div Small = Entries * (Entries * vpn2(v) + vpn1(v)) + vpn0(v)
<1>1. v \in Nat /\ v < Top
  BY Sizes DEF VirtualAddresses
<1>2. PICK x, y, z \in Nat : x = v \div Small /\ y = v \div Mega /\ z = v \div Giga
  BY <1>1, Sizes, Division
<1>3. x \div Entries = y /\ y \div Entries = z
  <2>1. (v \div Small) \div Entries = v \div (Entries * Small)
    BY <1>1, Sizes, DivideTwice
  <2>2. (v \div Mega) \div Entries = v \div (Entries * Mega)
    BY <1>1, Sizes, DivideTwice, ZenonT(40)
  <2> QED
    BY <2>1, <2>2, <1>2 DEF Mega, Giga
<1>4. x = Entries * y + (x % Entries) /\ y = Entries * z + (y % Entries)
  BY <1>2, <1>3, Sizes, Division
<1>5. z < Entries
  <2>1. PICK r \in Nat : v = Giga * z + r
    BY <1>1, <1>2, Sizes, Division, ZenonT(40)
  <2>2. Giga * z < Giga * Entries
    <3>1. Giga * z <= v
      BY <2>1, <1>2, Sizes
    <3>2. Top = Giga * Entries
      BY Sizes DEF Top
    <3> QED
      BY <3>1, <3>2, <1>1, <1>2, Sizes
  <2>3. z >= Entries => Giga * z >= Giga * Entries
    BY <1>2, Sizes
  <2> QED
    BY <2>2, <2>3, <1>2, Sizes
<1>6. z % Entries = z
  <2>1. (Entries * 0 + z) % Entries = z
    BY <1>2, <1>5, Sizes, QuotientUnique
  <2> QED
    BY <2>1, <1>2, Sizes
<1> QED
  BY <1>2, <1>4, <1>6 DEF vpn0, vpn1, vpn2

\* Two addresses are in one page when the parts above the offset agree.
LEMMA PagesByParts ==
  ASSUME NEW v \in VirtualAddresses, NEW w \in VirtualAddresses
  PROVE  /\ v \in PageOf(w, Giga)  <=> vpn2(v) = vpn2(w)
         /\ v \in PageOf(w, Mega)  <=> vpn2(v) = vpn2(w) /\ vpn1(v) = vpn1(w)
         /\ v \in PageOf(w, Small) <=> /\ vpn2(v) = vpn2(w) /\ vpn1(v) = vpn1(w)
                                       /\ vpn0(v) = vpn0(w)
<1>1. ASSUME NEW a \in Nat, NEW b \in Nat, NEW i \in Index, NEW j \in Index,
             Entries * a + i = Entries * b + j
      PROVE  a = b /\ i = j
  <2>1. /\ (Entries * a + i) \div Entries = a /\ (Entries * a + i) % Entries = i
        /\ (Entries * b + j) \div Entries = b /\ (Entries * b + j) % Entries = j
    <3>1. i \in Nat /\ i < Entries /\ j \in Nat /\ j < Entries
      BY Sizes DEF Index
    <3> QED
      BY <3>1, Sizes, QuotientUnique
  <2> QED
    BY <2>1, <1>1
<1>2. /\ vpn0(v) \in Index /\ vpn1(v) \in Index /\ vpn2(v) \in Index
      /\ vpn0(w) \in Index /\ vpn1(w) \in Index /\ vpn2(w) \in Index
  BY VpnIndex
<1>3. \A i \in Index : i \in Nat
  BY Sizes DEF Index
<1>4. /\ Entries * vpn2(v) + vpn1(v) \in Nat /\ Entries * vpn2(w) + vpn1(w) \in Nat
  BY <1>2, <1>3, Sizes
<1>5. v \in PageOf(w, Giga) <=> vpn2(v) = vpn2(w)
  BY Quotients DEF PageOf
<1>6. v \in PageOf(w, Mega) <=> vpn2(v) = vpn2(w) /\ vpn1(v) = vpn1(w)
  <2>1. v \in PageOf(w, Mega) <=>
          Entries * vpn2(v) + vpn1(v) = Entries * vpn2(w) + vpn1(w)
    BY Quotients DEF PageOf
  <2> QED
    BY <2>1, <1>1, <1>2, <1>3
<1>7. v \in PageOf(w, Small) <=> /\ vpn2(v) = vpn2(w) /\ vpn1(v) = vpn1(w)
                                 /\ vpn0(v) = vpn0(w)
  <2>1. v \in PageOf(w, Small) <=>
          Entries * (Entries * vpn2(v) + vpn1(v)) + vpn0(v)
            = Entries * (Entries * vpn2(w) + vpn1(w)) + vpn0(w)
    BY Quotients DEF PageOf
  <2>2. v \in PageOf(w, Small) <=>
          Entries * vpn2(v) + vpn1(v) = Entries * vpn2(w) + vpn1(w) /\ vpn0(v) = vpn0(w)
    BY <2>1, <1>1, <1>2, <1>4
  <2> QED
    BY <2>2, <1>1, <1>2, <1>3
<1> QED
  BY <1>5, <1>6, <1>7

\* An address aligned for a larger page is aligned for a small one.
LEMMA AlignedSmall ==
  ASSUME NEW a \in Nat, NEW size \in {Small, Mega, Giga}, a % size = 0
  PROVE  a % Small = 0
<1>1. ASSUME NEW k \in Nat \ {0}, NEW b \in Nat, b % (k * Small) = 0
      PROVE  b % Small = 0
  <2>1. PICK c \in Nat \ {0} : c = k * Small
    BY Sizes
  <2>2. PICK q \in Nat : b = c * q
    <3>1. b \div c \in Nat /\ b = c * (b \div c) + (b % c)
      BY <2>1, Division
    <3>2. b % c = 0
      BY <1>1, <2>1, Zenon
    <3>3. b = c * (b \div c)
      BY <3>1, <3>2, <2>1
    <3> QED
      BY <3>1, <3>3, Zenon
  <2>3. PICK y \in Nat : y = k * q
    OBVIOUS
  <2>4. b = Small * y + 0
    <3>1. (k * Small) * q = Small * (k * q)
      BY Sizes, <2>2
    <3> QED
      BY <3>1, <2>1, <2>2, <2>3, Sizes
  <2> QED
    BY <2>4, <2>3, Sizes, QuotientUnique
<1>2. Entries * Entries \in Nat \ {0} /\ Giga = (Entries * Entries) * Small
  BY Sizes DEF Giga, Mega
<1> QED
  BY <1>1, <1>2, Sizes DEF Mega

\* The offset in a page is the offset in a small page exactly in the first
\* small page of it.
LEMMA FirstSmallPage ==
  ASSUME NEW v \in Nat, NEW size \in {Small, Mega, Giga}
  PROVE  v % size = v % Small <=> v % size < Small
<1>1. ASSUME NEW k \in Nat \ {0}, NEW b \in Nat, b % (k * Small) < Small
      PROVE  b % (k * Small) = b % Small
  <2>1. PICK c \in Nat \ {0} : c = k * Small
    BY Sizes
  <2>2. PICK q \in Nat, r \in Nat : q = b \div c /\ r = b % c /\ b = c * q + r
    BY <2>1, Division
  <2>3. PICK y \in Nat : y = k * q
    OBVIOUS
  <2>4. c * q = Small * y
    BY <2>1, <2>3, Sizes
  <2>5. b = Small * y + r
    BY <2>2, <2>4, Zenon
  <2>6. r < Small
    BY <2>1, <2>2, <1>1, Zenon
  <2>7. (Small * y + r) % Small = r
    BY <2>6, Sizes, QuotientUnique
  <2> QED
    BY <2>1, <2>2, <2>5, <2>7, Zenon
<1>2. v % size < Small => v % size = v % Small
  <2>1. Entries * Entries \in Nat \ {0} /\ Giga = (Entries * Entries) * Small
    BY Sizes DEF Giga, Mega
  <2> QED
    BY <1>1, <2>1, Sizes DEF Mega
<1>3. v % Small < Small
  BY Sizes, Division
<1> QED
  BY <1>2, <1>3

-----------------------------------------------------------------------------
(***************************************************************************)
(* Walks through sound tables.                                             *)
(***************************************************************************)
\* Tables are pages of memory, and the root is nobody's child.
LEMMA NodesArePages ==
  ASSUME PagesContract, NEW q
  PROVE  /\ Nodes(q) \subseteq AllPages /\ Taken(q) \subseteq Nodes(q)
         /\ Root \in Nodes(q) /\ Root \notin Taken(q)
         /\ DataPages \intersect Nodes(q) = {} /\ DataPages \subseteq AllPages
  BY DEF PagesContract, PagesApart, Nodes, Taken, AllPages

\* Where a walk leads.
LEMMA Walk ==
  ASSUME PagesContract, NEW m, NEW q, Sound(m, q), NEW v \in VirtualAddresses
  PROVE  /\ T2(m, v) => E2(m, v).addr \in Taken(q)
         /\ T1(m, v) => E1(m, v).addr \in Taken(q)
         /\ LastPage(m, v) \in Nodes(q) /\ LastIndex(m, v) \in Index
         /\ ~Ptr(m, LastPage(m, v), LastIndex(m, v))
<1>1. vpn0(v) \in Index /\ vpn1(v) \in Index /\ vpn2(v) \in Index
  BY VpnIndex
<1>2. Tree(m, q) /\ Shallow(m)
  BY DEF Sound
<1>3. T2(m, v) => E2(m, v).addr \in Taken(q)
  BY <1>1, <1>2, NodesArePages DEF T2, E2, Tree
<1>4. T1(m, v) => E1(m, v).addr \in Taken(q)
  BY <1>1, <1>2, <1>3, NodesArePages DEF T1, E1, Tree
<1>5. LastPage(m, v) \in Nodes(q) /\ LastIndex(m, v) \in Index
  BY <1>1, <1>3, <1>4, NodesArePages DEF LastPage, LastIndex
<1>6. ~Ptr(m, LastPage(m, v), LastIndex(m, v))
  <2>1. CASE ~T2(m, v)
    BY <2>1 DEF T2, LastPage, LastIndex
  <2>2. CASE T2(m, v) /\ ~T1(m, v)
    BY <2>2 DEF T1, LastPage, LastIndex
  <2>3. CASE T2(m, v) /\ T1(m, v)
    <3>1. LastPage(m, v) = E1(m, v).addr /\ LastIndex(m, v) = vpn0(v)
      BY <2>3 DEF LastPage, LastIndex
    <3> QED
      BY <2>3, <3>1, <1>1, <1>2 DEF Shallow, T2, T1, E2, E1
  <2> QED
    BY <2>1, <2>2, <2>3
<1> QED
  BY <1>3, <1>4, <1>5, <1>6

\* Two walks end in the same slot when their addresses are in one page of the
\* size the slot stands for: a slot has one path from the root.
LEMMA SameSlot ==
  ASSUME PagesContract, NEW m, NEW q, Sound(m, q),
         NEW v \in VirtualAddresses, NEW w \in VirtualAddresses
  PROVE  /\ LastPage(m, v) = LastPage(m, w) /\ LastIndex(m, v) = LastIndex(m, w)
              <=> v \in PageOf(w, LastSize(m, w))
         /\ v \in PageOf(w, LastSize(m, w)) => LastSize(m, v) = LastSize(m, w)
<1>1. /\ vpn0(v) \in Index /\ vpn1(v) \in Index /\ vpn2(v) \in Index
      /\ vpn0(w) \in Index /\ vpn1(w) \in Index /\ vpn2(w) \in Index
  BY VpnIndex
<1>2. \A p, r \in Nodes(q), i, j \in Index :
        Ptr(m, p, i) /\ Ptr(m, r, j) /\ m[p][i].addr = m[r][j].addr => p = r /\ i = j
  BY DEF Sound, Tree
<1>3. /\ T2(m, v) => E2(m, v).addr \in Taken(q)
      /\ T1(m, v) => E1(m, v).addr \in Taken(q)
      /\ T2(m, w) => E2(m, w).addr \in Taken(q)
      /\ T1(m, w) => E1(m, w).addr \in Taken(q)
  BY Walk
<1>4. Root \notin Taken(q) /\ Root \in Nodes(q) /\ Taken(q) \subseteq Nodes(q)
  BY NodesArePages
<1>5. ASSUME LastPage(m, v) = LastPage(m, w), LastIndex(m, v) = LastIndex(m, w)
      PROVE  v \in PageOf(w, LastSize(m, w))
  <2>1. CASE ~T2(m, w)
    <3>1. LastPage(m, w) = Root /\ LastIndex(m, w) = vpn2(w) /\ LastSize(m, w) = Giga
      BY <2>1 DEF LastPage, LastIndex, LastSize
    <3>2. ~T2(m, v)
      BY <3>1, <1>3, <1>4, <1>5 DEF LastPage, T1
    <3>3. vpn2(v) = vpn2(w)
      BY <3>1, <3>2, <1>5 DEF LastIndex
    <3> QED
      BY <3>1, <3>3, PagesByParts
  <2>2. CASE T2(m, w) /\ ~T1(m, w)
    <3>1. /\ LastPage(m, w) = E2(m, w).addr /\ LastIndex(m, w) = vpn1(w)
          /\ LastSize(m, w) = Mega
      BY <2>2 DEF LastPage, LastIndex, LastSize
    <3>2. T2(m, v)
      BY <2>2, <3>1, <1>3, <1>4, <1>5 DEF LastPage
    <3>3. ~T1(m, v)
      <4> SUFFICES ASSUME T1(m, v) PROVE FALSE
        OBVIOUS
      <4>1. LastPage(m, v) = E1(m, v).addr
        BY <3>2 DEF LastPage
      <4>2. Ptr(m, Root, vpn2(w)) /\ m[Root][vpn2(w)].addr = E1(m, v).addr
        BY <4>1, <3>1, <2>2, <1>5 DEF T2, E2
      <4>3. /\ E2(m, v).addr \in Taken(q) /\ Ptr(m, E2(m, v).addr, vpn1(v))
            /\ m[E2(m, v).addr][vpn1(v)].addr = E1(m, v).addr
        BY <3>2, <1>3 DEF T1, E1
      <4>4. E2(m, v).addr = Root
        BY <4>2, <4>3, <1>1, <1>2, <1>4
      <4> QED
        BY <4>3, <4>4, <1>4
    <3>4. E2(m, v).addr = E2(m, w).addr /\ vpn1(v) = vpn1(w)
      BY <3>1, <3>2, <3>3, <1>5 DEF LastPage, LastIndex
    <3>5. vpn2(v) = vpn2(w)
      BY <3>2, <3>4, <2>2, <1>1, <1>2, <1>4 DEF T2, E2
    <3> QED
      BY <3>1, <3>4, <3>5, PagesByParts
  <2>3. CASE T2(m, w) /\ T1(m, w)
    <3>1. /\ LastPage(m, w) = E1(m, w).addr /\ LastIndex(m, w) = vpn0(w)
          /\ LastSize(m, w) = Small
      BY <2>3 DEF LastPage, LastIndex, LastSize
    <3>2. T2(m, v)
      BY <2>3, <3>1, <1>3, <1>4, <1>5 DEF LastPage
    <3>3. T1(m, v)
      <4> SUFFICES ASSUME ~T1(m, v) PROVE FALSE
        OBVIOUS
      <4>1. LastPage(m, v) = E2(m, v).addr
        BY <3>2 DEF LastPage
      <4>2. Ptr(m, Root, vpn2(v)) /\ m[Root][vpn2(v)].addr = E1(m, w).addr
        BY <4>1, <3>1, <3>2, <1>5 DEF T2, E2
      <4>3. /\ E2(m, w).addr \in Taken(q) /\ Ptr(m, E2(m, w).addr, vpn1(w))
            /\ m[E2(m, w).addr][vpn1(w)].addr = E1(m, w).addr
        BY <2>3, <1>3 DEF T1, E1
      <4>4. E2(m, w).addr = Root
        BY <4>2, <4>3, <1>1, <1>2, <1>4
      <4> QED
        BY <4>3, <4>4, <1>4
    <3>4. E1(m, v).addr = E1(m, w).addr /\ vpn0(v) = vpn0(w)
      BY <3>1, <3>2, <3>3, <1>5 DEF LastPage, LastIndex
    <3>5. E2(m, v).addr = E2(m, w).addr /\ vpn1(v) = vpn1(w)
      <4>1. /\ E2(m, v).addr \in Nodes(q) /\ E2(m, w).addr \in Nodes(q)
            /\ Ptr(m, E2(m, v).addr, vpn1(v)) /\ Ptr(m, E2(m, w).addr, vpn1(w))
        BY <2>3, <3>2, <3>3, <1>3, <1>4 DEF T1
      <4>2. m[E2(m, v).addr][vpn1(v)].addr = m[E2(m, w).addr][vpn1(w)].addr
        BY <3>4 DEF E1
      <4> QED
        BY <4>1, <4>2, <1>1, <1>2
    <3>6. vpn2(v) = vpn2(w)
      <4>1. /\ Ptr(m, Root, vpn2(v)) /\ Ptr(m, Root, vpn2(w))
            /\ m[Root][vpn2(v)].addr = m[Root][vpn2(w)].addr
        BY <2>3, <3>2, <3>5 DEF T2, E2
      <4> QED
        BY <4>1, <1>1, <1>2, <1>4
    <3> QED
      BY <3>1, <3>4, <3>5, <3>6, PagesByParts
  <2> QED
    BY <2>1, <2>2, <2>3
<1>6. ASSUME v \in PageOf(w, LastSize(m, w))
      PROVE  /\ LastPage(m, v) = LastPage(m, w) /\ LastIndex(m, v) = LastIndex(m, w)
             /\ LastSize(m, v) = LastSize(m, w)
  <2>1. CASE ~T2(m, w)
    <3>1. vpn2(v) = vpn2(w)
      BY <2>1, <1>6, PagesByParts DEF LastSize
    <3>2. ~T2(m, v)
      BY <3>1, <2>1 DEF T2
    <3> QED
      BY <2>1, <3>1, <3>2 DEF LastPage, LastIndex, LastSize
  <2>2. CASE T2(m, w) /\ ~T1(m, w)
    <3>1. vpn2(v) = vpn2(w) /\ vpn1(v) = vpn1(w)
      BY <2>2, <1>6, PagesByParts DEF LastSize
    <3>2. T2(m, v) /\ ~T1(m, v) /\ E2(m, v) = E2(m, w)
      BY <3>1, <2>2 DEF T2, T1, E2
    <3> QED
      BY <2>2, <3>1, <3>2 DEF LastPage, LastIndex, LastSize
  <2>3. CASE T2(m, w) /\ T1(m, w)
    <3>1. vpn2(v) = vpn2(w) /\ vpn1(v) = vpn1(w) /\ vpn0(v) = vpn0(w)
      BY <2>3, <1>6, PagesByParts DEF LastSize
    <3>2. T2(m, v) /\ T1(m, v) /\ E2(m, v) = E2(m, w) /\ E1(m, v) = E1(m, w)
      BY <3>1, <2>3 DEF T2, T1, E2, E1
    <3> QED
      BY <2>3, <3>1, <3>2 DEF LastPage, LastIndex, LastSize
  <2> QED
    BY <2>1, <2>2, <2>3
<1> QED
  BY <1>5, <1>6

\* A walk sees pointers and the slot it ends in, and no other entry.
LEMMA SameWalk ==
  ASSUME PagesContract, NEW m, NEW q, Sound(m, q), NEW v \in VirtualAddresses, NEW n,
         \A p \in Nodes(q), i \in Index : Ptr(m, p, i) => n[p][i] = m[p][i],
         n[LastPage(m, v)][LastIndex(m, v)] = m[LastPage(m, v)][LastIndex(m, v)]
  PROVE  Trans(n, v) = Trans(m, v)
<1>1. vpn0(v) \in Index /\ vpn1(v) \in Index /\ vpn2(v) \in Index
  BY VpnIndex
<1>2. /\ T2(m, v) => E2(m, v).addr \in Nodes(q)
      /\ T1(m, v) => E1(m, v).addr \in Nodes(q)
      /\ Root \in Nodes(q)
  BY Walk, NodesArePages
<1>3. CASE ~T2(m, v)
  <2>1. n[Root][vpn2(v)] = m[Root][vpn2(v)]
    BY <1>3 DEF LastPage, LastIndex
  <2>2. ~T2(n, v)
    BY <2>1, <1>3 DEF T2, Ptr
  <2> QED
    BY <2>1, <2>2, <1>3 DEF Trans, LastPage, LastIndex, LastSize
<1>4. CASE T2(m, v)
  <2>1. n[Root][vpn2(v)] = m[Root][vpn2(v)]
    BY <1>1, <1>2, <1>4 DEF T2
  <2>2. T2(n, v) /\ E2(n, v) = E2(m, v)
    BY <2>1, <1>4 DEF T2, E2, Ptr
  <2>3. CASE ~T1(m, v)
    <3>1. n[E2(m, v).addr][vpn1(v)] = m[E2(m, v).addr][vpn1(v)]
      BY <2>3, <1>4 DEF LastPage, LastIndex
    <3>2. ~T1(n, v)
      BY <2>2, <2>3, <3>1, <1>4 DEF T1, Ptr
    <3> QED
      BY <2>2, <2>3, <3>1, <3>2, <1>4 DEF Trans, LastPage, LastIndex, LastSize
  <2>4. CASE T1(m, v)
    <3>1. n[E2(m, v).addr][vpn1(v)] = m[E2(m, v).addr][vpn1(v)]
      BY <2>4, <1>1, <1>2, <1>4 DEF T1
    <3>2. T1(n, v) /\ E1(n, v) = E1(m, v)
      BY <2>2, <2>4, <3>1 DEF T1, E1, Ptr
    <3>3. n[E1(m, v).addr][vpn0(v)] = m[E1(m, v).addr][vpn0(v)]
      BY <2>4, <1>4 DEF LastPage, LastIndex
    <3> QED
      BY <2>2, <2>4, <3>2, <3>3, <1>4 DEF Trans, LastPage, LastIndex, LastSize
  <2> QED
    BY <2>3, <2>4
<1> QED
  BY <1>3, <1>4

-----------------------------------------------------------------------------
(***************************************************************************)
(* Stores to tables.                                                       *)
(***************************************************************************)
\* Entry e stored at place i of page p.
Put(m, p, i, e) == [m EXCEPT ![p][i] = e]

\* A store changes one entry.
LEMMA PutEntries ==
  ASSUME NEW m \in Memory, NEW p \in AllPages, NEW i \in Index,
         NEW e \in Pte
  PROVE  /\ Put(m, p, i, e) \in Memory
         /\ Put(m, p, i, e)[p][i] = e
         /\ \A r \in AllPages, j \in Index :
              r # p \/ j # i => Put(m, p, i, e)[r][j] = m[r][j]
         /\ \A r \in AllPages : r # p => Put(m, p, i, e)[r] = m[r]
<1>1. Put(m, p, i, e) = [m EXCEPT ![p] = [m[p] EXCEPT ![i] = e]]
  BY DEF Put
<1>2. [m[p] EXCEPT ![i] = e] \in [Index -> Pte]
  BY DEF Memory
<1> QED
  BY <1>1, <1>2 DEF Memory

\* Whether an entry points to a table is a matter of the entry alone.
LEMMA SameEntry ==
  ASSUME NEW m, NEW n, NEW p, NEW i, n[p][i] = m[p][i]
  PROVE  Ptr(n, p, i) <=> Ptr(m, p, i)
  BY DEF Ptr

\* The slot a walk ends in gets an entry that points to no table, a leaf or
\* nothing: the tree stays, and exactly the addresses of the slot are affected.
LEMMA PutLeaf ==
  ASSUME PagesContract, NEW m, NEW q, Sound(m, q), NEW w \in VirtualAddresses,
         NEW e \in Pte, riscv_sv39_pte_valid(e) \/ e = ZeroEntry,
         ~(riscv_sv39_pte_valid(e) /\ ~riscv_sv39_pte_leaf(e)),
         NEW p, NEW i, p = LastPage(m, w), i = LastIndex(m, w)
  PROVE  /\ Sound(Put(m, p, i, e), q)
         /\ \A v \in VirtualAddresses :
              Trans(Put(m, p, i, e), v) = IF v \in PageOf(w, LastSize(m, w))
                                            THEN LeafOf(e, v, LastSize(m, w))
                                            ELSE Trans(m, v)
<1> DEFINE n == Put(m, p, i, e)
<1>1. p \in Nodes(q) /\ i \in Index /\ ~Ptr(m, p, i)
  BY Walk
<1>2. p \in AllPages /\ Nodes(q) \subseteq AllPages /\ Taken(q) \subseteq Nodes(q)
      /\ Root \in Nodes(q)
  BY <1>1, NodesArePages
<1>3. m \in Memory
  BY DEF Sound, Typed
<1>4. /\ n \in Memory
      /\ n[p][i] = e
      /\ \A r \in AllPages, j \in Index : r # p \/ j # i => n[r][j] = m[r][j]
      /\ \A r \in AllPages : r # p => n[r] = m[r]
  <2>1. ASSUME NEW r \in AllPages, NEW j \in Index
        PROVE  /\ Put(m, r, j, e) \in Memory
               /\ Put(m, r, j, e)[r][j] = e
               /\ \A s \in AllPages, k \in Index :
                    s # r \/ k # j => Put(m, r, j, e)[s][k] = m[s][k]
               /\ \A s \in AllPages : s # r => Put(m, r, j, e)[s] = m[s]
    BY <1>3, PutEntries
  <2> QED
    BY <2>1, <1>1, <1>2, Zenon DEF n
<1> HIDE DEF n
<1>5. ~Ptr(n, p, i)
  BY <1>4 DEF Ptr
<1>6. ASSUME NEW r \in AllPages, NEW j \in Index
      PROVE  /\ Ptr(n, r, j) <=> Ptr(m, r, j)
             /\ Ptr(m, r, j) => n[r][j] = m[r][j]
  <2>1. CASE r = p /\ j = i
    BY <2>1, <1>1, <1>5
  <2>2. CASE r # p \/ j # i
    BY <2>2, <1>4 DEF Ptr
  <2> QED
    BY <2>1, <2>2
<1>7. Sound(n, q)
  <2>1. Typed(n, q)
    BY <1>4 DEF Sound, Typed
  <2>2. Clean(n, q)
    <3>1. ASSUME NEW r \in AllPages, NEW j \in Index
          PROVE  riscv_sv39_pte_valid(n[r][j]) \/ n[r][j] = ZeroEntry
      <4>1. riscv_sv39_pte_valid(m[r][j]) \/ m[r][j] = ZeroEntry
        BY DEF Sound, Clean
      <4> QED
        BY <4>1, <1>4
    <3>2. ASSUME NEW r \in AllPages, r \notin Nodes(q) PROVE n[r] = ZeroTable
      <4>1. m[r] = ZeroTable
        BY <3>2 DEF Sound, Clean
      <4> QED
        BY <4>1, <3>2, <1>1, <1>4
    <3> QED
      BY <3>1, <3>2 DEF Clean
  <2>3. Tree(n, q)
    <3>1. Tree(m, q)
      BY DEF Sound
    <3>2. \A r \in Nodes(q), j \in Index : Ptr(n, r, j) => n[r][j].addr \in Taken(q)
      BY <3>1, <1>2, <1>6 DEF Tree
    <3>3. ASSUME NEW t \in Taken(q)
          PROVE  \E r \in Nodes(q), j \in Index : Ptr(n, r, j) /\ n[r][j].addr = t
      <4>1. PICK r \in Nodes(q), j \in Index : Ptr(m, r, j) /\ m[r][j].addr = t
        BY <3>1 DEF Tree
      <4> QED
        BY <4>1, <1>2, <1>6
    <3>4. ASSUME NEW r \in Nodes(q), NEW s \in Nodes(q), NEW j \in Index, NEW k \in Index,
                 Ptr(n, r, j), Ptr(n, s, k), n[r][j].addr = n[s][k].addr
          PROVE  r = s /\ j = k
      <4>1. /\ Ptr(m, r, j) /\ Ptr(m, s, k) /\ m[r][j].addr = m[s][k].addr
        BY <3>4, <1>2, <1>6
      <4> QED
        BY <4>1, <3>1 DEF Tree
    <3> QED
      BY <3>2, <3>3, <3>4 DEF Tree
  <2>4. Shallow(n)
    <3> SUFFICES ASSUME NEW a \in Index, NEW b \in Index, NEW c \in Index,
                        Ptr(n, Root, a), Ptr(n, n[Root][a].addr, b),
                        Ptr(n, n[n[Root][a].addr][b].addr, c)
                 PROVE  FALSE
      BY DEF Shallow
    <3>1. n[Root][a].addr \in Taken(q)
      BY <2>3, <1>2 DEF Tree
    <3>2. n[n[Root][a].addr][b].addr \in Taken(q)
      BY <2>3, <3>1, <1>2 DEF Tree
    <3>3. Ptr(m, Root, a) /\ n[Root][a] = m[Root][a]
      BY <1>2, <1>6
    <3>4. /\ Ptr(m, m[Root][a].addr, b)
          /\ n[m[Root][a].addr][b] = m[m[Root][a].addr][b]
      BY <3>1, <3>3, <1>2, <1>6
    <3>5. Ptr(m, m[m[Root][a].addr][b].addr, c)
      BY <3>2, <3>3, <3>4, <1>2, <1>6
    <3> QED
      BY <3>3, <3>4, <3>5 DEF Sound, Shallow
  <2> QED
    BY <2>1, <2>2, <2>3, <2>4 DEF Sound
<1>8. ASSUME NEW v \in VirtualAddresses, v \notin PageOf(w, LastSize(m, w))
      PROVE  Trans(n, v) = Trans(m, v)
  <2>1. LastPage(m, v) \in Nodes(q) /\ LastIndex(m, v) \in Index
    BY Walk
  <2>2. LastPage(m, v) # p \/ LastIndex(m, v) # i
    BY <1>8, SameSlot
  <2>3. n[LastPage(m, v)][LastIndex(m, v)] = m[LastPage(m, v)][LastIndex(m, v)]
    BY <2>1, <2>2, <1>2, <1>4
  <2>4. \A r \in Nodes(q), j \in Index : Ptr(m, r, j) => n[r][j] = m[r][j]
    BY <1>2, <1>6
  <2> QED
    BY <2>3, <2>4, SameWalk
<1>9. ASSUME NEW v \in VirtualAddresses, v \in PageOf(w, LastSize(m, w))
      PROVE  Trans(n, v) = LeafOf(e, v, LastSize(m, w))
  <2>1. /\ LastPage(m, v) = p /\ LastIndex(m, v) = i
        /\ LastSize(m, v) = LastSize(m, w)
    BY <1>9, SameSlot
  <2>2. vpn0(v) \in Index /\ vpn1(v) \in Index /\ vpn2(v) \in Index
    BY VpnIndex
  <2>3. /\ T2(m, v) => E2(m, v).addr \in AllPages
        /\ T1(m, v) => E1(m, v).addr \in AllPages
    BY Walk, <1>2
  <2>4. T2(n, v) <=> T2(m, v)
    BY <1>2, <1>6, <2>2 DEF T2
  <2>5. T2(m, v) => E2(n, v) = E2(m, v)
    BY <1>2, <1>6, <2>2 DEF T2, E2
  <2>6. T1(n, v) <=> T1(m, v)
    <3>1. CASE T2(m, v)
      BY <3>1, <2>2, <2>3, <2>4, <2>5, <1>6 DEF T1
    <3>2. CASE ~T2(m, v)
      BY <3>2, <2>4 DEF T1
    <3> QED
      BY <3>1, <3>2
  <2>7. T1(m, v) => E1(n, v) = E1(m, v)
    <3> SUFFICES ASSUME T1(m, v) PROVE E1(n, v) = E1(m, v)
      OBVIOUS
    <3>1. T2(m, v) /\ Ptr(m, E2(m, v).addr, vpn1(v))
      BY DEF T1
    <3>2. E2(n, v) = E2(m, v) /\ E2(m, v).addr \in AllPages
      BY <3>1, <2>3, <2>5
    <3> QED
      BY <3>1, <3>2, <2>2, <1>6 DEF E1
  <2>8. /\ LastPage(n, v) = p /\ LastIndex(n, v) = i
        /\ LastSize(n, v) = LastSize(m, w)
    <3>1. T1(m, v) => T2(m, v)
      BY DEF T1
    <3> QED
      BY <3>1, <2>1, <2>4, <2>5, <2>6, <2>7 DEF LastPage, LastIndex, LastSize
  <2> QED
    BY <2>8, <1>4 DEF Trans
<1> QED
  BY <1>7, <1>8, <1>9 DEF n

\* A new table n, zeroed, and entry i of page p that points to it.
Linked(m, p, i, n) ==
  [m EXCEPT ![p][i] = riscv_sv39_create_pte(n, {"V"}), ![n] = ZeroTable]

\* The entries that are not leaves.
LEMMA NewEntries ==
  ASSUME NEW n \in Nat, n % Small = 0
  PROVE  /\ riscv_sv39_create_pte(n, {"V"}) \in Pte
         /\ riscv_sv39_create_pte(n, {"V"}).addr = n
         /\ riscv_sv39_pte_valid(riscv_sv39_create_pte(n, {"V"}))
         /\ ~riscv_sv39_pte_leaf(riscv_sv39_create_pte(n, {"V"}))
         /\ ZeroEntry \in Pte /\ ZeroTable \in [Index -> Pte]
         /\ ~riscv_sv39_pte_valid(ZeroEntry) /\ ~riscv_sv39_pte_leaf(ZeroEntry)
<1>1. n - (n % Small) = n /\ 0 % Small = 0
  BY Sizes
<1>2. riscv_sv39_create_pte(n, {"V"}) = [addr |-> n, flags |-> {"V"}]
  BY <1>1 DEF riscv_sv39_create_pte
<1>3. [addr |-> n, flags |-> {"V"}] \in Pte /\ ZeroEntry \in Pte
  BY <1>1 DEF Pte, ZeroEntry
<1> QED
  BY <1>2, <1>3 DEF riscv_sv39_pte_valid, riscv_sv39_pte_leaf, ZeroEntry, ZeroTable, Index,
                    AccessFlags

\* What linking a table changes.
LEMMA LinkedEntries ==
  ASSUME NEW m \in Memory, NEW p \in AllPages, NEW i \in Index,
         NEW n \in AllPages, n # p, n \in Nat, n % Small = 0
  PROVE  /\ Linked(m, p, i, n) \in Memory
         /\ Linked(m, p, i, n)[p][i] = riscv_sv39_create_pte(n, {"V"})
         /\ Linked(m, p, i, n)[n] = ZeroTable
         /\ \A r \in AllPages, j \in Index :
              r # n /\ (r # p \/ j # i) => Linked(m, p, i, n)[r][j] = m[r][j]
         /\ \A r \in AllPages : r # n /\ r # p => Linked(m, p, i, n)[r] = m[r]
<1>1. PICK e \in Pte : e = riscv_sv39_create_pte(n, {"V"})
  BY NewEntries
<1>2. ZeroTable \in [Index -> Pte]
  BY NewEntries
<1>3. Linked(m, p, i, n) = [Put(m, p, i, e) EXCEPT ![n] = ZeroTable]
  BY <1>1 DEF Linked, Put
<1>4. /\ Put(m, p, i, e) \in Memory
      /\ Put(m, p, i, e)[p][i] = e
      /\ \A r \in AllPages, j \in Index :
           r # p \/ j # i => Put(m, p, i, e)[r][j] = m[r][j]
      /\ \A r \in AllPages : r # p => Put(m, p, i, e)[r] = m[r]
  BY PutEntries
<1> QED
  BY <1>1, <1>2, <1>3, <1>4 DEF Memory

\* The elements of a sequence.
LEMMA RangeMembers ==
  ASSUME NEW S, NEW z \in Seq(S)
  PROVE  \A x : x \in Range(z) <=> \E i \in 1..Len(z) : z[i] = x
  BY DEF Range

\* pmm_alloc takes the first page off what is left.
LEMMA TakePage ==
  ASSUME PagesContract, NEW m, NEW q, Typed(m, q), q # << >>
  PROVE  /\ Head(q) \in Range(TablePages) /\ Head(q) \notin Nodes(q)
         /\ Head(q) \in AllPages /\ Head(q) \in Nat /\ Head(q) % Small = 0
         /\ Taken(Tail(q)) = Taken(q) \union {Head(q)}
         /\ Nodes(Tail(q)) = Nodes(q) \union {Head(q)}
         /\ Typed(m, Tail(q))
<1>1. PICK len \in Nat : len = Len(q)
  BY DEF Typed
<1>2. /\ q \in Seq(Range(TablePages))
      /\ \A i, j \in 1..len : q[i] = q[j] => i = j
  BY <1>1 DEF Typed
<1>3. len # 0
  BY <1>1, <1>2
<1>4. /\ Tail(q) \in Seq(Range(TablePages)) /\ Len(Tail(q)) = len - 1
      /\ \A i \in 1..(len - 1) : Tail(q)[i] = q[i + 1]
      /\ Head(q) = q[1]
  BY <1>1, <1>2, <1>3
<1>5. \A x : x \in Range(q) <=> \E i \in 1..len : q[i] = x
  BY <1>1, <1>2 DEF Range
<1>6. \A x : x \in Range(Tail(q)) <=> \E i \in 1..(len - 1) : Tail(q)[i] = x
  <2>1. \A x : x \in Range(Tail(q)) <=> \E i \in 1..Len(Tail(q)) : Tail(q)[i] = x
    BY <1>4, RangeMembers
  <2> QED
    BY <2>1, <1>4
<1>7. Head(q) \in Range(q) /\ Head(q) \in Range(TablePages)
  BY <1>2, <1>3, <1>4, <1>5, <1>1
<1>8. Head(q) \notin Range(Tail(q))
  <2> SUFFICES ASSUME Head(q) \in Range(Tail(q)) PROVE FALSE
    OBVIOUS
  <2>1. PICK i \in 1..(len - 1) : Tail(q)[i] = Head(q)
    BY <1>6
  <2>2. i + 1 \in 1..len /\ 1 \in 1..len /\ q[i + 1] = q[1]
    BY <2>1, <1>3, <1>4
  <2>3. i + 1 = 1
    BY <2>2, <1>2
  <2> QED
    BY <2>3
<1>9. ASSUME NEW x PROVE x \in Range(q) <=> x = Head(q) \/ x \in Range(Tail(q))
  <2>1. ASSUME x \in Range(q) PROVE x = Head(q) \/ x \in Range(Tail(q))
    <3>1. PICK i \in 1..len : q[i] = x
      BY <2>1, <1>5
    <3>2. CASE i = 1
      BY <3>1, <3>2, <1>4
    <3>3. CASE i # 1
      <4>1. i - 1 \in 1..(len - 1) /\ (i - 1) + 1 = i
        BY <3>3
      <4>2. Tail(q)[i - 1] = x
        BY <4>1, <3>1, <1>4
      <4> QED
        BY <4>1, <4>2, <1>6
    <3> QED
      BY <3>2, <3>3
  <2>2. ASSUME x \in Range(Tail(q)) PROVE x \in Range(q)
    <3>1. PICK i \in 1..(len - 1) : Tail(q)[i] = x
      BY <2>2, <1>6
    <3>2. i + 1 \in 1..len /\ q[i + 1] = x
      BY <3>1, <1>4
    <3> QED
      BY <3>2, <1>5
  <2> QED
    BY <2>1, <2>2, <1>7
<1>10. \A i, j \in 1..Len(Tail(q)) : Tail(q)[i] = Tail(q)[j] => i = j
  <2> SUFFICES ASSUME NEW i \in 1..(len - 1), NEW j \in 1..(len - 1),
                      Tail(q)[i] = Tail(q)[j]
               PROVE  i = j
    BY <1>4
  <2>1. i + 1 \in 1..len /\ j + 1 \in 1..len /\ q[i + 1] = q[j + 1]
    BY <1>4
  <2>2. i + 1 = j + 1
    BY <2>1, <1>2
  <2> QED
    BY <2>2
<1>11. Typed(m, Tail(q))
  BY <1>4, <1>10 DEF Typed
<1>12. /\ Head(q) \notin Nodes(q) /\ Head(q) \in AllPages /\ Head(q) \in Nat
       /\ Head(q) % Small = 0
  <2>1. Head(q) # Root /\ Head(q) % Small = 0
    BY <1>7 DEF PagesContract, PagesApart
  <2>2. Head(q) \in Nat
    BY <1>7, Sv39Assumption DEF Range
  <2> QED
    BY <2>1, <2>2, <1>7 DEF Nodes, Taken, AllPages
<1>13. Taken(Tail(q)) = Taken(q) \union {Head(q)}
  BY <1>7, <1>8, <1>9 DEF Taken
<1> QED
  BY <1>7, <1>11, <1>12, <1>13 DEF Nodes

\* The slot a walk ends in, above the last level and not in use, gets a new
\* table: the tree grows by it, and no translation changes.
LEMMA LinkTable ==
  ASSUME PagesContract, NEW m, NEW q, Sound(m, q), NEW w \in VirtualAddresses,
         ~T1(m, w), q # << >>,
         NEW p, NEW i, p = LastPage(m, w), i = LastIndex(m, w),
         ~riscv_sv39_pte_valid(m[p][i])
  PROVE  /\ Sound(Linked(m, p, i, Head(q)), Tail(q))
         /\ \A v \in VirtualAddresses : Trans(Linked(m, p, i, Head(q)), v) = Trans(m, v)
         /\ Ptr(Linked(m, p, i, Head(q)), p, i)
         /\ Linked(m, p, i, Head(q))[p][i].addr = Head(q)
         /\ Linked(m, p, i, Head(q))[Head(q)] = ZeroTable
         /\ \A r \in Nodes(q), j \in Index :
              Ptr(m, r, j) => Linked(m, p, i, Head(q))[r][j] = m[r][j]
<1>1. p \in Nodes(q) /\ i \in Index
  BY Walk
<1>2. /\ Nodes(q) \subseteq AllPages /\ Taken(q) \subseteq Nodes(q)
      /\ Root \in Nodes(q) /\ Root \notin Taken(q)
  BY NodesArePages
<1>3. Typed(m, q) /\ Clean(m, q) /\ Tree(m, q) /\ Shallow(m)
  BY DEF Sound
<1> DEFINE h == Head(q)
           n == Linked(m, p, i, h)
<1>4. /\ h \notin Nodes(q) /\ h \in AllPages /\ h \in Nat /\ h % Small = 0
      /\ Taken(Tail(q)) = Taken(q) \union {h}
      /\ Nodes(Tail(q)) = Nodes(q) \union {h}
      /\ Typed(m, Tail(q))
  BY <1>3, TakePage
<1> HIDE DEF h
<1>5. m \in Memory
  BY <1>3 DEF Typed
<1>6. /\ n \in Memory
      /\ n[p][i] = riscv_sv39_create_pte(h, {"V"})
      /\ n[h] = ZeroTable
      /\ \A r \in AllPages, j \in Index : r # h /\ (r # p \/ j # i) => n[r][j] = m[r][j]
      /\ \A r \in AllPages : r # h /\ r # p => n[r] = m[r]
  <2>1. ASSUME NEW r \in AllPages, NEW j \in Index, r # h
        PROVE  /\ Linked(m, r, j, h) \in Memory
               /\ Linked(m, r, j, h)[r][j] = riscv_sv39_create_pte(h, {"V"})
               /\ Linked(m, r, j, h)[h] = ZeroTable
               /\ \A s \in AllPages, k \in Index :
                    s # h /\ (s # r \/ k # j) => Linked(m, r, j, h)[s][k] = m[s][k]
               /\ \A s \in AllPages : s # h /\ s # r => Linked(m, r, j, h)[s] = m[s]
    BY <2>1, <1>4, <1>5, LinkedEntries
  <2>2. p \in AllPages /\ p # h
    BY <1>1, <1>2, <1>4
  <2> QED
    BY <2>1, <2>2, <1>1, Zenon DEF n
<1> HIDE DEF n
<1>7. /\ Ptr(n, p, i) /\ n[p][i].addr = h /\ riscv_sv39_pte_valid(n[p][i])
  BY <1>4, <1>6, NewEntries DEF Ptr
<1>8. ~Ptr(m, p, i)
  BY DEF Ptr
<1>9. \A r \in Nodes(q), j \in Index : r # p \/ j # i => n[r][j] = m[r][j]
  BY <1>2, <1>4, <1>6
<1>10. \A r \in Nodes(q), j \in Index : Ptr(m, r, j) => n[r][j] = m[r][j]
  BY <1>8, <1>9
<1>11. \A j \in Index : n[h][j] = ZeroEntry /\ ~Ptr(n, h, j)
  <2>1. \A j \in Index : n[h][j] = ZeroEntry
    BY <1>6 DEF ZeroTable, Index
  <2> QED
    BY <2>1, <1>4, NewEntries DEF Ptr
<1>12. ASSUME NEW r \in Nodes(Tail(q)), NEW j \in Index, Ptr(n, r, j)
       PROVE  \/ r = p /\ j = i
              \/ r \in Nodes(q) /\ Ptr(m, r, j) /\ n[r][j] = m[r][j]
  <2>1. r \in Nodes(q)
    BY <1>4, <1>11, <1>12
  <2>2. CASE r # p \/ j # i
    <3>1. n[r][j] = m[r][j]
      BY <2>1, <2>2, <1>9
    <3>2. Ptr(m, r, j)
      BY <3>1, <1>12 DEF Ptr
    <3> QED
      BY <2>1, <3>1, <3>2
  <2> QED
    BY <2>2
<1>13. ASSUME NEW x \in Taken(q), NEW b \in Index, Ptr(m, x, b)
       PROVE  m[x][b].addr # p
  <2>1. CASE ~T2(m, w)
    <3>1. p = Root
      BY <2>1 DEF LastPage
    <3>2. m[x][b].addr \in Taken(q)
      BY <1>2, <1>3, <1>13 DEF Tree
    <3> QED
      BY <3>1, <3>2, <1>2
  <2>2. CASE T2(m, w)
    <3>1. p = m[Root][vpn2(w)].addr /\ Ptr(m, Root, vpn2(w))
      BY <2>2 DEF LastPage, E2, T2
    <3>2. vpn2(w) \in Index
      BY VpnIndex
    <3>3. m[x][b].addr = m[Root][vpn2(w)].addr => x = Root
      BY <3>1, <3>2, <1>2, <1>3, <1>13 DEF Tree
    <3> QED
      BY <3>1, <3>3, <1>2
  <2> QED
    BY <2>1, <2>2
<1>14. Sound(n, Tail(q))
  <2>1. Typed(n, Tail(q))
    BY <1>4, <1>6 DEF Typed
  <2>2. Clean(n, Tail(q))
    <3>1. ASSUME NEW r \in AllPages, NEW j \in Index
          PROVE  riscv_sv39_pte_valid(n[r][j]) \/ n[r][j] = ZeroEntry
      <4>1. CASE r = h
        BY <4>1, <1>11
      <4>2. CASE r = p /\ j = i
        BY <4>2, <1>7
      <4>3. CASE r # h /\ (r # p \/ j # i)
        <5>1. n[r][j] = m[r][j]
          BY <4>3, <1>6
        <5> QED
          BY <5>1, <1>3 DEF Clean
      <4> QED
        BY <4>1, <4>2, <4>3
    <3>2. ASSUME NEW r \in AllPages, r \notin Nodes(Tail(q)) PROVE n[r] = ZeroTable
      <4>1. r \notin Nodes(q) /\ r # h /\ r # p
        BY <3>2, <1>1, <1>4
      <4>2. n[r] = m[r]
        BY <4>1, <1>6
      <4> QED
        BY <4>1, <4>2, <1>3 DEF Clean
    <3> QED
      BY <3>1, <3>2 DEF Clean
  <2>3. Tree(n, Tail(q))
    <3>1. ASSUME NEW r \in Nodes(Tail(q)), NEW j \in Index, Ptr(n, r, j)
          PROVE  n[r][j].addr \in Taken(Tail(q))
      BY <3>1, <1>3, <1>4, <1>7, <1>12 DEF Tree
    <3>2. ASSUME NEW t \in Taken(Tail(q))
          PROVE  \E r \in Nodes(Tail(q)), j \in Index : Ptr(n, r, j) /\ n[r][j].addr = t
      <4>1. CASE t = h
        BY <4>1, <1>1, <1>4, <1>7
      <4>2. CASE t \in Taken(q)
        <5>1. PICK r \in Nodes(q), j \in Index : Ptr(m, r, j) /\ m[r][j].addr = t
          BY <4>2, <1>3 DEF Tree
        <5>2. n[r][j] = m[r][j]
          BY <5>1, <1>10
        <5>3. Ptr(n, r, j) /\ n[r][j].addr = t
          BY <5>1, <5>2 DEF Ptr
        <5> QED
          BY <5>3, <1>4
      <4> QED
        BY <4>1, <4>2, <1>4
    <3>3. ASSUME NEW r \in Nodes(Tail(q)), NEW s \in Nodes(Tail(q)),
                 NEW j \in Index, NEW k \in Index,
                 Ptr(n, r, j), Ptr(n, s, k), n[r][j].addr = n[s][k].addr
          PROVE  r = s /\ j = k
      <4>1. CASE r = p /\ j = i /\ s = p /\ k = i
        BY <4>1
      <4>2. CASE r = p /\ j = i /\ ~(s = p /\ k = i)
        <5>1. s \in Nodes(q) /\ Ptr(m, s, k) /\ n[s][k] = m[s][k]
          BY <4>2, <3>3, <1>12
        <5>2. n[s][k].addr \in Taken(q)
          BY <5>1, <1>3 DEF Tree
        <5> QED
          BY <4>2, <5>2, <3>3, <1>2, <1>4, <1>7
      <4>3. CASE ~(r = p /\ j = i) /\ s = p /\ k = i
        <5>1. r \in Nodes(q) /\ Ptr(m, r, j) /\ n[r][j] = m[r][j]
          BY <4>3, <3>3, <1>12
        <5>2. n[r][j].addr \in Taken(q)
          BY <5>1, <1>3 DEF Tree
        <5> QED
          BY <4>3, <5>2, <3>3, <1>2, <1>4, <1>7
      <4>4. CASE ~(r = p /\ j = i) /\ ~(s = p /\ k = i)
        <5>1. r \in Nodes(q) /\ Ptr(m, r, j) /\ n[r][j] = m[r][j]
          BY <4>4, <3>3, <1>12
        <5>2. s \in Nodes(q) /\ Ptr(m, s, k) /\ n[s][k] = m[s][k]
          BY <4>4, <3>3, <1>12
        <5>3. m[r][j].addr = m[s][k].addr
          BY <5>1, <5>2, <3>3
        <5> QED
          BY <5>1, <5>2, <5>3, <1>3 DEF Tree
      <4> QED
        BY <4>1, <4>2, <4>3, <4>4
    <3> QED
      BY <3>1, <3>2, <3>3 DEF Tree
  <2>4. Shallow(n)
    <3> SUFFICES ASSUME NEW a \in Index, NEW b \in Index, NEW c \in Index,
                        Ptr(n, Root, a), Ptr(n, n[Root][a].addr, b),
                        Ptr(n, n[n[Root][a].addr][b].addr, c)
                 PROVE  FALSE
      BY DEF Shallow
    <3>1. Root \in Nodes(Tail(q))
      BY <1>2, <1>4
    <3>2. ~(Root = p /\ a = i)
      BY <1>7, <1>11
    <3>3. Ptr(m, Root, a) /\ n[Root][a] = m[Root][a]
      BY <3>1, <3>2, <1>12
    <3>4. PICK x : x = m[Root][a].addr
      OBVIOUS
    <3>5. x \in Taken(q) /\ Ptr(n, x, b)
      BY <3>3, <3>4, <1>2, <1>3 DEF Tree
    <3>6. ~(x = p /\ b = i)
      BY <3>3, <3>4, <1>7, <1>11
    <3>7. Ptr(m, x, b) /\ n[x][b] = m[x][b]
      BY <3>5, <3>6, <1>2, <1>4, <1>12
    <3>8. PICK y : y = m[x][b].addr
      OBVIOUS
    <3>9. y \in Taken(q) /\ Ptr(n, y, c) /\ y # p
      BY <3>3, <3>4, <3>5, <3>7, <3>8, <1>2, <1>3, <1>13 DEF Tree
    <3>10. Ptr(m, y, c)
      BY <3>9, <1>2, <1>4, <1>12
    <3> QED
      BY <3>3, <3>4, <3>7, <3>8, <3>10, <1>3 DEF Shallow
  <2> QED
    BY <2>1, <2>2, <2>3, <2>4 DEF Sound
<1>15. ASSUME NEW v \in VirtualAddresses PROVE Trans(n, v) = Trans(m, v)
  <2>1. LastPage(m, v) \in Nodes(q) /\ LastIndex(m, v) \in Index
    BY Walk
  <2>2. CASE LastPage(m, v) # p \/ LastIndex(m, v) # i
    <3>1. n[LastPage(m, v)][LastIndex(m, v)] = m[LastPage(m, v)][LastIndex(m, v)]
      BY <2>1, <2>2, <1>9
    <3> QED
      BY <3>1, <1>10, SameWalk
  <2>3. CASE LastPage(m, v) = p /\ LastIndex(m, v) = i
    <3>1. Trans(m, v) = Unmapped
      BY <2>3 DEF Trans, LeafOf
    <3>2. vpn0(v) \in Index /\ vpn1(v) \in Index /\ vpn2(v) \in Index
      BY VpnIndex
    <3>3. \A x, size : LeafOf(ZeroEntry, x, size) = Unmapped
      BY <1>4, NewEntries DEF LeafOf
    <3>4. CASE ~T2(m, v)
      <4>1. p = Root /\ i = vpn2(v)
        BY <3>4, <2>3 DEF LastPage, LastIndex
      <4>2. T2(n, v) /\ E2(n, v).addr = h
        BY <4>1, <1>7 DEF T2, E2
      <4>3. ~T1(n, v) /\ n[h][vpn1(v)] = ZeroEntry
        BY <4>2, <3>2, <1>11 DEF T1
      <4> QED
        BY <4>2, <4>3, <3>1, <3>3 DEF Trans, LastPage, LastIndex
    <3>5. CASE T2(m, v) /\ ~T1(m, v)
      <4>1. p = E2(m, v).addr /\ i = vpn1(v)
        BY <3>5, <2>3 DEF LastPage, LastIndex
      <4>2. n[Root][vpn2(v)] = m[Root][vpn2(v)]
        BY <3>2, <3>5, <1>2, <1>10 DEF T2
      <4>3. T2(n, v) /\ E2(n, v) = E2(m, v)
        BY <4>2, <3>5 DEF T2, E2, Ptr
      <4>4. T1(n, v) /\ E1(n, v).addr = h
        BY <4>1, <4>3, <1>7 DEF T1, E1
      <4>5. n[h][vpn0(v)] = ZeroEntry
        BY <3>2, <1>11
      <4> QED
        BY <4>3, <4>4, <4>5, <3>1, <3>3 DEF Trans, LastPage, LastIndex
    <3>6. CASE T2(m, v) /\ T1(m, v)
      <4>1. p = E1(m, v).addr
        BY <3>6, <2>3 DEF LastPage
      <4>2. E2(m, v).addr \in Taken(q) /\ Ptr(m, E2(m, v).addr, vpn1(v))
        BY <3>6, Walk DEF T1
      <4> QED
        BY <4>1, <4>2, <3>2, <1>13 DEF E1
    <3> QED
      BY <3>4, <3>5, <3>6
  <2> QED
    BY <2>2, <2>3
<1> QED
  BY <1>6, <1>7, <1>10, <1>14, <1>15 DEF n, h

-----------------------------------------------------------------------------
(***************************************************************************)
(* The calls.                                                              *)
(***************************************************************************)
\* Every address is translated alike in both memories.
SameTrans(m, n) == \A v \in VirtualAddresses : Trans(n, v) = Trans(m, v)

\* The progress of a mapping call.
At(m, q, t, ok) == [mem |-> m, pool |-> q, table |-> t, ok |-> ok]

\* The ways of Descend where no table is there.
LEMMA DescendCases ==
  ASSUME NEW m, NEW q, NEW t, NEW i
  PROVE  /\ ~riscv_sv39_pte_valid(m[t][i]) /\ q = << >> =>
              Descend(At(m, q, t, TRUE), i) = At(m, q, t, FALSE)
         /\ ~riscv_sv39_pte_valid(m[t][i]) /\ q # << >> =>
              Descend(At(m, q, t, TRUE), i)
                = At(Linked(m, t, i, Head(q)), Tail(q), Head(q), TRUE)
         /\ Descend(At(m, q, t, FALSE), i) = At(m, q, t, FALSE)
  BY DEF Descend, At, Linked

\* From the root to the table of the next level, made if need be.
LEMMA FirstDescent ==
  ASSUME PagesContract, NEW m, NEW q, Sound(m, q), NEW w \in VirtualAddresses,
         ~riscv_sv39_pte_leaf(E2(m, w))
  PROVE  \E n, r, t : \E ok \in BOOLEAN :
           /\ Descend(At(m, q, Root, TRUE), vpn2(w)) = At(n, r, t, ok)
           /\ Sound(n, r) /\ SameTrans(m, n)
           /\ ok => T2(n, w) /\ E2(n, w).addr = t /\ (n = m \/ E1(n, w) = ZeroEntry)
<1>1. vpn1(w) \in Index /\ vpn2(w) \in Index
  BY VpnIndex
<1>2. CASE riscv_sv39_pte_valid(m[Root][vpn2(w)])
  <2>1. Descend(At(m, q, Root, TRUE), vpn2(w)) = At(m, q, m[Root][vpn2(w)].addr, TRUE)
    BY <1>2 DEF Descend, At, riscv_sv39_pte_get_address
  <2>2. T2(m, w) /\ E2(m, w).addr = m[Root][vpn2(w)].addr
    BY <1>2 DEF T2, E2, Ptr
  <2>3. SameTrans(m, m)
    BY DEF SameTrans
  <2> QED
    BY <2>1, <2>2, <2>3
<1>3. CASE ~riscv_sv39_pte_valid(m[Root][vpn2(w)]) /\ q = << >>
  <2>1. Descend(At(m, q, Root, TRUE), vpn2(w)) = At(m, q, Root, FALSE)
    BY <1>3, DescendCases
  <2>2. SameTrans(m, m)
    BY DEF SameTrans
  <2> QED
    BY <2>1, <2>2
<1>4. CASE ~riscv_sv39_pte_valid(m[Root][vpn2(w)]) /\ q # << >>
  <2> DEFINE n == Linked(m, Root, vpn2(w), Head(q))
  <2>1. Descend(At(m, q, Root, TRUE), vpn2(w)) = At(n, Tail(q), Head(q), TRUE)
    BY <1>4, DescendCases
  <2>2. ~T2(m, w) /\ ~T1(m, w)
    BY <1>4 DEF T1, T2, Ptr
  <2>3. LastPage(m, w) = Root /\ LastIndex(m, w) = vpn2(w)
    BY <2>2 DEF LastPage, LastIndex
  <2>4. /\ Sound(n, Tail(q))
        /\ \A v \in VirtualAddresses : Trans(n, v) = Trans(m, v)
        /\ Ptr(n, Root, vpn2(w)) /\ n[Root][vpn2(w)].addr = Head(q)
        /\ n[Head(q)] = ZeroTable
    BY <1>4, <2>2, <2>3, LinkTable
  <2> HIDE DEF n
  <2>5. T2(n, w) /\ E2(n, w).addr = Head(q)
    BY <2>4 DEF T2, E2
  <2>6. E1(n, w) = ZeroEntry
    BY <2>4, <2>5, <1>1 DEF E1, ZeroTable, Index
  <2>7. SameTrans(m, n)
    BY <2>4 DEF SameTrans
  <2> QED
    BY <2>1, <2>4, <2>5, <2>6, <2>7
<1> QED
  BY <1>2, <1>3, <1>4

\* From there to the table of the last level.
LEMMA SecondDescent ==
  ASSUME PagesContract, NEW m, NEW q, Sound(m, q), NEW w \in VirtualAddresses,
         T2(m, w), ~riscv_sv39_pte_leaf(E1(m, w))
  PROVE  \E n, r, t : \E ok \in BOOLEAN :
           /\ Descend(At(m, q, E2(m, w).addr, TRUE), vpn1(w)) = At(n, r, t, ok)
           /\ Sound(n, r) /\ SameTrans(m, n)
           /\ ok => T1(n, w) /\ E1(n, w).addr = t
<1>1. vpn1(w) \in Index /\ vpn2(w) \in Index
  BY VpnIndex
<1> DEFINE p == E2(m, w).addr
<1>2. E1(m, w) = m[p][vpn1(w)]
  BY DEF E1
<1>3. CASE riscv_sv39_pte_valid(m[p][vpn1(w)])
  <2>1. Descend(At(m, q, p, TRUE), vpn1(w)) = At(m, q, m[p][vpn1(w)].addr, TRUE)
    BY <1>3 DEF Descend, At, riscv_sv39_pte_get_address
  <2>2. T1(m, w) /\ E1(m, w).addr = m[p][vpn1(w)].addr
    BY <1>2, <1>3 DEF T1, Ptr
  <2>3. SameTrans(m, m)
    BY DEF SameTrans
  <2> QED
    BY <2>1, <2>2, <2>3
<1>4. CASE ~riscv_sv39_pte_valid(m[p][vpn1(w)]) /\ q = << >>
  <2>1. Descend(At(m, q, p, TRUE), vpn1(w)) = At(m, q, p, FALSE)
    BY <1>4, DescendCases
  <2>2. SameTrans(m, m)
    BY DEF SameTrans
  <2> QED
    BY <2>1, <2>2
<1>5. CASE ~riscv_sv39_pte_valid(m[p][vpn1(w)]) /\ q # << >>
  <2> DEFINE n == Linked(m, p, vpn1(w), Head(q))
  <2>1. Descend(At(m, q, p, TRUE), vpn1(w)) = At(n, Tail(q), Head(q), TRUE)
    BY <1>5, DescendCases
  <2>2. ~T1(m, w)
    BY <1>5 DEF T1, Ptr
  <2>3. LastPage(m, w) = p /\ LastIndex(m, w) = vpn1(w)
    BY <2>2 DEF LastPage, LastIndex
  <2>4. /\ Sound(n, Tail(q))
        /\ \A v \in VirtualAddresses : Trans(n, v) = Trans(m, v)
        /\ Ptr(n, p, vpn1(w)) /\ n[p][vpn1(w)].addr = Head(q)
        /\ \A r \in Nodes(q), j \in Index : Ptr(m, r, j) => n[r][j] = m[r][j]
    BY <1>5, <2>2, <2>3, LinkTable
  <2> HIDE DEF n
  <2>5. n[Root][vpn2(w)] = m[Root][vpn2(w)]
    BY <2>4, <1>1, NodesArePages DEF T2
  <2>6. T2(n, w) /\ E2(n, w) = E2(m, w)
    BY <2>5 DEF T2, E2, Ptr
  <2>7. T1(n, w) /\ E1(n, w).addr = Head(q)
    BY <2>4, <2>6 DEF T1, E1
  <2>8. SameTrans(m, n)
    BY <2>4 DEF SameTrans
  <2> QED
    BY <2>1, <2>4, <2>7, <2>8
<1> QED
  BY <1>3, <1>4, <1>5

\* The leaf of a mapping call.
LEMMA LeafEntry ==
  ASSUME NEW pa \in Nat, pa % Small = 0, NEW f \in Flags,
         NEW e, e = riscv_sv39_create_pte(pa, f \union {"V"})
  PROVE  /\ e \in Pte /\ riscv_sv39_pte_valid(e) /\ riscv_sv39_pte_leaf(e)
         /\ e.addr = pa
<1>1. pa - (pa % Small) = pa
  BY Sizes
<1>2. e = [addr |-> pa, flags |-> f \union {"V"}]
  BY <1>1 DEF riscv_sv39_create_pte
<1>3. /\ f \subseteq {"V", "U", "G", "A", "D"} \union AccessFlags
      /\ f \intersect AccessFlags # {}
  BY Sv39Assumption
<1>4. PICK g : g = f \union {"V"}
  OBVIOUS
<1>5. /\ g \subseteq {"V", "U", "G", "A", "D"} \union AccessFlags
      /\ g \intersect AccessFlags # {} /\ "V" \in g
  BY <1>3, <1>4
<1>6. e.addr = pa /\ e.flags = g /\ e = [addr |-> pa, flags |-> g]
  BY <1>2, <1>4
<1>7. e \in Pte
  BY <1>5, <1>6 DEF Pte
<1> QED
  BY <1>5, <1>6, <1>7 DEF riscv_sv39_pte_valid, riscv_sv39_pte_leaf

\* Translate is Trans of the memory, before and after a step.
LEMMA TranslateIs ==
  ASSUME NEW v \in VirtualAddresses
  PROVE  Translate(v) = Trans(mem, v) /\ Translate(v)' = Trans(mem', v)
<1>1. Translate(v) = Trans(mem, v)
  BY DEF Translate, Trans, LeafOf, LastPage, LastIndex, LastSize, T2, T1, E2, E1, Ptr,
         Table2, Table1, Entry2, Entry1, Entry0, riscv_sv39_pte_get_address
<1>2. Translate(v)' = Trans(mem', v)
  BY DEF Translate, Trans, LeafOf, LastPage, LastIndex, LastSize, T2, T1, E2, E1, Ptr,
         Table2, Table1, Entry2, Entry1, Entry0, riscv_sv39_pte_get_address
<1> QED
  BY <1>1, <1>2

\* Memory that translates the same, in the words of the specification.
LEMMA SameIs ==
  ASSUME SameTrans(mem, mem') PROVE SameTranslations
  BY TranslateIs DEF SameTrans, SameTranslations

\* A call that fails before it touches memory.
LEMMA FailStep ==
  ASSUME PagesContract, Sv39Inv,
         NEW c \in {EC_RISCV_SV39_UNALIGNED_ADDR, EC_RISCV_SV39_MAPPING_EXISTS,
                    EC_RISCV_SV39_NO_MAPPING},
         Fail(c)
  PROVE  Sv39Inv' /\ ~error_is_ok(ret'.err) /\ SameTranslations
<1>1. mem' = mem /\ pool' = pool /\ ret' = [err |-> c, pa |-> 0]
  BY DEF Fail, Return
<1>2. c \in 0..(2 ^ WordBits - 1) /\ ~error_is_ok(c)
  BY DEF PagesContract, CodesAreErrors, error_is_err
<1>3. ret'.err = c /\ ret' \in [err : 0..(2 ^ WordBits - 1), pa : Nat]
  BY <1>1, <1>2
<1>4. Sv39Inv'
  BY <1>1, <1>3 DEF Sv39Inv
<1>5. SameTranslations
  <2>1. SameTrans(mem, mem')
    BY <1>1 DEF SameTrans
  <2> QED
    BY <2>1, SameIs
<1> QED
  BY <1>2, <1>3, <1>4, <1>5

\* The end of a mapping call that has come to table t, or to no table.
LEMMA LeafStep ==
  ASSUME PagesContract, Sv39Inv,
         NEW va \in VirtualAddresses, NEW pa \in Nat, pa % Small = 0, NEW f \in Flags,
         NEW m, NEW q, NEW t, NEW ok \in BOOLEAN, NEW i, NEW size,
         Sound(m, q), SameTrans(mem, m),
         ok /\ ~riscv_sv39_pte_valid(m[t][i]) =>
           t = LastPage(m, va) /\ i = LastIndex(m, va) /\ size = LastSize(m, va),
         SetLeaf(At(m, q, t, ok), i, pa, f)
  PROVE  Sv39Inv' /\ Outcome(Maps(va, pa, size))
<1>1. /\ pool' = q
      /\ \/ ~ok /\ Return(AllocFailed, 0) /\ mem' = m
         \/ /\ ok /\ riscv_sv39_pte_valid(m[t][i])
            /\ Return(EC_RISCV_SV39_MAPPING_EXISTS, 0) /\ mem' = m
         \/ /\ ok /\ ~riscv_sv39_pte_valid(m[t][i])
            /\ mem' = Put(m, t, i, riscv_sv39_create_pte(pa, f \union {"V"}))
            /\ Return(EC_SUCCESS, 0)
  BY DEF SetLeaf, At, Put
<1>2. ASSUME NEW c \in {EC_RISCV_SV39_MAPPING_EXISTS, AllocFailed}, Return(c, 0), mem' = m
      PROVE  Sv39Inv' /\ Outcome(Maps(va, pa, size))
  <2>1. c \in 0..(2 ^ WordBits - 1) /\ ~error_is_ok(c)
    BY DEF PagesContract, CodesAreErrors, error_is_err
  <2>2. ret'.err = c /\ ret' \in [err : 0..(2 ^ WordBits - 1), pa : Nat]
    BY <1>2, <2>1 DEF Return
  <2>3. Sv39Inv'
    BY <1>1, <1>2, <2>2 DEF Sv39Inv
  <2>4. SameTranslations
    BY <1>2, SameIs
  <2> QED
    BY <2>1, <2>2, <2>3, <2>4 DEF Outcome
<1>3. ASSUME ok, ~riscv_sv39_pte_valid(m[t][i]), Return(EC_SUCCESS, 0),
             mem' = Put(m, t, i, riscv_sv39_create_pte(pa, f \union {"V"}))
      PROVE  Sv39Inv' /\ Outcome(Maps(va, pa, size))
  <2>1. PICK e : e = riscv_sv39_create_pte(pa, f \union {"V"})
    OBVIOUS
  <2>2. /\ e \in Pte /\ riscv_sv39_pte_valid(e) /\ riscv_sv39_pte_leaf(e)
        /\ e.addr = pa
    BY <2>1, LeafEntry
  <2>3. t = LastPage(m, va) /\ i = LastIndex(m, va) /\ size = LastSize(m, va)
    BY <1>3
  <2>4. /\ Sound(Put(m, t, i, e), q)
        /\ \A v \in VirtualAddresses :
             Trans(Put(m, t, i, e), v) = IF v \in PageOf(va, LastSize(m, va))
                                           THEN LeafOf(e, v, LastSize(m, va))
                                           ELSE Trans(m, v)
    BY <2>2, <2>3, PutLeaf
  <2>5. Sound(mem', pool')
    BY <2>1, <2>4, <1>1, <1>3
  <2>6. \A v \in VirtualAddresses :
          Trans(mem', v) = IF v \in PageOf(va, size) THEN pa + (v % size) ELSE Trans(mem, v)
    <3>1. \A v : LeafOf(e, v, size) = pa + (v % size)
      BY <2>2 DEF LeafOf
    <3>2. \A v \in VirtualAddresses : Trans(m, v) = Trans(mem, v)
      BY DEF SameTrans
    <3>3. mem' = Put(m, t, i, e)
      BY <2>1, <1>3
    <3> QED
      BY <2>3, <2>4, <3>1, <3>2, <3>3
  <2>7. Maps(va, pa, size)
    BY <2>6, TranslateIs DEF Maps
  <2>8. error_is_ok(EC_SUCCESS) /\ EC_SUCCESS \in 0..(2 ^ WordBits - 1)
    BY DEF PagesContract, CodesAreErrors
  <2>9. ret'.err = EC_SUCCESS /\ ret' \in [err : 0..(2 ^ WordBits - 1), pa : Nat]
    BY <1>3, <2>8 DEF Return
  <2>10. Sv39Inv'
    BY <2>5, <2>9 DEF Sv39Inv
  <2> QED
    BY <2>7, <2>8, <2>9, <2>10 DEF Outcome
<1> QED
  BY <1>1, <1>2, <1>3

\* Addresses that pass the alignment test of a call.
LEMMA Aligned ==
  ASSUME NEW va, NEW pa \in Pas, NEW size \in {Small, Mega, Giga}, ~Unaligned(va, pa, size)
  PROVE  pa \in Nat /\ pa % Small = 0
  BY Sv39Assumption, AlignedSmall DEF Unaligned, IS_ALIGNED

\* riscv_sv39_map_gigapage.
LEMMA MapGigaStep ==
  ASSUME PagesContract, Sv39Inv, NEW va \in Vas, NEW pa \in Pas, NEW f \in Flags,
         MapGiga(va, pa, f)
  PROVE  Sv39Inv' /\ Outcome(Maps(va, pa, Giga))
<1>1. CASE Fail(EC_RISCV_SV39_UNALIGNED_ADDR)
  BY <1>1, FailStep DEF Outcome
<1>2. CASE /\ ~Unaligned(va, pa, Giga)
           /\ SetLeaf(Start, vpn2(va), pa, f)
  <2>1. va \in VirtualAddresses /\ pa \in Nat /\ pa % Small = 0
    BY <1>2, Aligned, Sv39Assumption DEF VirtualAddresses
  <2>2. SetLeaf(At(mem, pool, Root, TRUE), vpn2(va), pa, f)
    BY <1>2 DEF Start, At
  <2>3. Sound(mem, pool) /\ SameTrans(mem, mem)
    BY DEF Sv39Inv, SameTrans
  <2>4. ~riscv_sv39_pte_valid(mem[Root][vpn2(va)]) =>
          /\ Root = LastPage(mem, va) /\ vpn2(va) = LastIndex(mem, va)
          /\ Giga = LastSize(mem, va)
    BY DEF LastPage, LastIndex, LastSize, T2, Ptr
  <2> QED
    BY <2>1, <2>2, <2>3, <2>4, LeafStep
<1> QED
  BY <1>1, <1>2 DEF MapGiga, riscv_sv39_map_gigapage

\* riscv_sv39_map_megapage.
LEMMA MapMegaStep ==
  ASSUME PagesContract, Sv39Inv, NEW va \in Vas, NEW pa \in Pas, NEW f \in Flags,
         MapMega(va, pa, f)
  PROVE  Sv39Inv' /\ Outcome(Maps(va, pa, Mega))
<1>1. CASE Fail(EC_RISCV_SV39_UNALIGNED_ADDR)
  BY <1>1, FailStep DEF Outcome
<1>2. CASE /\ ~Unaligned(va, pa, Mega)
           /\ SetLeaf(Descend(Start, vpn2(va)), vpn1(va), pa, f)
  <2>1. va \in VirtualAddresses /\ pa \in Nat /\ pa % Small = 0
    BY <1>2, Aligned, Sv39Assumption DEF VirtualAddresses
  <2>2. Sound(mem, pool) /\ ~riscv_sv39_pte_leaf(E2(mem, va))
    BY DEF Sv39Inv, MapMega, NoGigaAbove, Entry2, E2
  <2>3. PICK n, r, t : \E ok \in BOOLEAN :
          /\ Descend(At(mem, pool, Root, TRUE), vpn2(va)) = At(n, r, t, ok)
          /\ Sound(n, r) /\ SameTrans(mem, n)
          /\ ok => T2(n, va) /\ E2(n, va).addr = t /\ (n = mem \/ E1(n, va) = ZeroEntry)
    BY <2>1, <2>2, FirstDescent
  <2>4. PICK ok \in BOOLEAN :
          /\ Descend(At(mem, pool, Root, TRUE), vpn2(va)) = At(n, r, t, ok)
          /\ Sound(n, r) /\ SameTrans(mem, n)
          /\ ok => T2(n, va) /\ E2(n, va).addr = t /\ (n = mem \/ E1(n, va) = ZeroEntry)
    BY <2>3
  <2>5. Start = At(mem, pool, Root, TRUE)
    BY DEF Start, At
  <2>6. SetLeaf(At(n, r, t, ok), vpn1(va), pa, f)
    BY <1>2, <2>4, <2>5
  <2>7. ok /\ ~riscv_sv39_pte_valid(n[t][vpn1(va)]) =>
          /\ t = LastPage(n, va) /\ vpn1(va) = LastIndex(n, va)
          /\ Mega = LastSize(n, va)
    BY <2>4 DEF LastPage, LastIndex, LastSize, T1, Ptr
  <2> QED
    BY <2>1, <2>4, <2>6, <2>7, LeafStep
<1> QED
  BY <1>1, <1>2 DEF MapMega, riscv_sv39_map_megapage

\* riscv_sv39_map_small_page.
LEMMA MapSmallStep ==
  ASSUME PagesContract, Sv39Inv, NEW va \in Vas, NEW pa \in Pas, NEW f \in Flags,
         MapSmall(va, pa, f)
  PROVE  Sv39Inv' /\ Outcome(Maps(va, pa, Small))
<1>1. CASE Fail(EC_RISCV_SV39_UNALIGNED_ADDR)
  BY <1>1, FailStep DEF Outcome
<1>2. CASE /\ ~Unaligned(va, pa, Small)
           /\ SetLeaf(Descend(Descend(Start, vpn2(va)), vpn1(va)), vpn0(va), pa, f)
  <2>1. va \in VirtualAddresses /\ pa \in Nat /\ pa % Small = 0
    BY <1>2, Aligned, Sv39Assumption DEF VirtualAddresses
  <2>2. Sound(mem, pool) /\ ~riscv_sv39_pte_leaf(E2(mem, va))
    BY DEF Sv39Inv, MapSmall, NoGigaAbove, Entry2, E2
  <2>3. T2(mem, va) => ~riscv_sv39_pte_leaf(E1(mem, va))
    BY DEF MapSmall, NoMegaAbove, Table2, Entry2, Entry1, E1, E2, T2, Ptr,
           riscv_sv39_pte_get_address
  <2>4. PICK n, r, t : \E ok \in BOOLEAN :
          /\ Descend(At(mem, pool, Root, TRUE), vpn2(va)) = At(n, r, t, ok)
          /\ Sound(n, r) /\ SameTrans(mem, n)
          /\ ok => T2(n, va) /\ E2(n, va).addr = t /\ (n = mem \/ E1(n, va) = ZeroEntry)
    BY <2>1, <2>2, FirstDescent
  <2>5. PICK ok \in BOOLEAN :
          /\ Descend(At(mem, pool, Root, TRUE), vpn2(va)) = At(n, r, t, ok)
          /\ Sound(n, r) /\ SameTrans(mem, n)
          /\ ok => T2(n, va) /\ E2(n, va).addr = t /\ (n = mem \/ E1(n, va) = ZeroEntry)
    BY <2>4
  <2>6. Start = At(mem, pool, Root, TRUE)
    BY DEF Start, At
  <2>7. SetLeaf(Descend(At(n, r, t, ok), vpn1(va)), vpn0(va), pa, f)
    BY <1>2, <2>5, <2>6
  <2>8. CASE ~ok
    <3>1. Descend(At(n, r, t, ok), vpn1(va)) = At(n, r, t, FALSE)
      BY <2>8, DescendCases
    <3>2. SetLeaf(At(n, r, t, FALSE), vpn0(va), pa, f)
      BY <2>7, <3>1
    <3> QED
      BY <2>1, <2>5, <3>2, LeafStep
  <2>9. CASE ok
    <3>1. T2(n, va) /\ E2(n, va).addr = t
      BY <2>5, <2>9
    <3>2. ~riscv_sv39_pte_leaf(E1(n, va))
      <4>1. ~riscv_sv39_pte_leaf(ZeroEntry)
        BY DEF riscv_sv39_pte_leaf, ZeroEntry
      <4> QED
        BY <4>1, <2>3, <2>5, <2>9
    <3>3. PICK m, q, u : \E on \in BOOLEAN :
            /\ Descend(At(n, r, E2(n, va).addr, TRUE), vpn1(va)) = At(m, q, u, on)
            /\ Sound(m, q) /\ SameTrans(n, m)
            /\ on => T1(m, va) /\ E1(m, va).addr = u
      BY <2>1, <2>5, <3>1, <3>2, SecondDescent
    <3>4. PICK on \in BOOLEAN :
            /\ Descend(At(n, r, E2(n, va).addr, TRUE), vpn1(va)) = At(m, q, u, on)
            /\ Sound(m, q) /\ SameTrans(n, m)
            /\ on => T1(m, va) /\ E1(m, va).addr = u
      BY <3>3
    <3>5. SameTrans(mem, m)
      BY <2>5, <3>4 DEF SameTrans
    <3>6. At(n, r, t, ok) = At(n, r, E2(n, va).addr, TRUE)
      BY <2>9, <3>1
    <3>7. SetLeaf(At(m, q, u, on), vpn0(va), pa, f)
      BY <2>7, <3>4, <3>6
    <3>8. on /\ ~riscv_sv39_pte_valid(m[u][vpn0(va)]) =>
            /\ u = LastPage(m, va) /\ vpn0(va) = LastIndex(m, va)
            /\ Small = LastSize(m, va)
      BY <3>4 DEF LastPage, LastIndex, LastSize, T1
    <3> QED
      BY <2>1, <3>4, <3>5, <3>7, <3>8, LeafStep
  <2> QED
    BY <2>8, <2>9
<1> QED
  BY <1>1, <1>2 DEF MapSmall, riscv_sv39_map_small_page

\* riscv_sv39_unmap_small_page.
LEMMA UnmapStep ==
  ASSUME PagesContract, Sv39Inv, NEW va \in Vas, riscv_sv39_unmap_small_page(va)
  PROVE  Sv39Inv' /\ Outcome(Unmaps(va))
<1>1. CASE \/ Fail(EC_RISCV_SV39_UNALIGNED_ADDR) \/ Fail(EC_RISCV_SV39_NO_MAPPING)
           \/ Fail(EC_RISCV_SV39_MAPPING_EXISTS)
  BY <1>1, FailStep DEF Outcome
<1>2. CASE /\ IS_ALIGNED(va, Small) /\ Table1(va) /\ riscv_sv39_pte_valid(Entry0(va))
           /\ ClearEntry(va)
           /\ Return(EC_SUCCESS, riscv_sv39_pte_get_address(Entry0(va)))
           /\ UNCHANGED pool
  <2>1. va \in VirtualAddresses /\ va \in Nat /\ va % Small = 0
    <3>1. va \in VirtualAddresses
      BY Sv39Assumption DEF VirtualAddresses
    <3> QED
      BY <3>1, <1>2, VpnIndex DEF IS_ALIGNED
  <2>2. T1(mem, va) /\ T2(mem, va)
    BY <1>2 DEF T1, T2, Ptr, E2, Table1, Table2, Entry1, Entry2, riscv_sv39_pte_get_address
  <2>3. PICK p, i, e : p = E1(mem, va).addr /\ i = vpn0(va) /\ e = mem[p][i]
    OBVIOUS
  <2>4. p = LastPage(mem, va) /\ i = LastIndex(mem, va) /\ LastSize(mem, va) = Small
    BY <2>2, <2>3 DEF LastPage, LastIndex, LastSize
  <2>5. Sound(mem, pool)
    BY DEF Sv39Inv
  <2>6. ZeroEntry \in Pte /\ ~riscv_sv39_pte_valid(ZeroEntry)
    BY NewEntries, Sizes
  <2>7. /\ Sound(Put(mem, p, i, ZeroEntry), pool)
        /\ \A v \in VirtualAddresses :
             Trans(Put(mem, p, i, ZeroEntry), v) =
               IF v \in PageOf(va, LastSize(mem, va))
                 THEN LeafOf(ZeroEntry, v, LastSize(mem, va)) ELSE Trans(mem, v)
    BY <2>1, <2>4, <2>5, <2>6, PutLeaf
  <2>8. mem' = Put(mem, p, i, ZeroEntry) /\ pool' = pool
    BY <1>2, <2>3 DEF ClearEntry, Put, Entry1, Entry2, E1, E2, riscv_sv39_pte_get_address
  <2>9. e = Entry0(va)
    BY <2>3 DEF Entry0, Entry1, Entry2, E1, E2, riscv_sv39_pte_get_address
  <2>10. /\ p \in Nodes(pool) /\ i \in Index /\ ~Ptr(mem, p, i)
    BY <2>1, <2>4, <2>5, Walk
  <2>11. e.addr \in Nat /\ riscv_sv39_pte_valid(e) /\ riscv_sv39_pte_leaf(e)
    <3>1. e \in Pte
      BY <2>3, <2>5, <2>10, NodesArePages DEF Sound, Typed, Memory
    <3> QED
      BY <3>1, <2>3, <2>9, <2>10, <1>2 DEF Ptr, Pte
  <2>12. error_is_ok(EC_SUCCESS) /\ EC_SUCCESS \in 0..(2 ^ WordBits - 1)
    BY DEF PagesContract, CodesAreErrors
  <2>13. /\ ret'.err = EC_SUCCESS /\ ret'.pa = e.addr
         /\ ret' \in [err : 0..(2 ^ WordBits - 1), pa : Nat]
    BY <1>2, <2>9, <2>11, <2>12 DEF Return, riscv_sv39_pte_get_address
  <2>14. Sv39Inv'
    BY <2>7, <2>8, <2>13 DEF Sv39Inv
  <2>15. ret'.pa = Translate(va)
    <3>1. Trans(mem, va) = e.addr + (va % Small)
      BY <2>3, <2>4, <2>11 DEF Trans, LeafOf
    <3>2. Trans(mem, va) = e.addr
      BY <3>1, <2>1, <2>11
    <3> QED
      BY <3>2, <2>1, <2>13, TranslateIs
  <2>16. \A v \in VirtualAddresses :
           Trans(mem', v) = IF v \in PageOf(va, Small) THEN Unmapped ELSE Trans(mem, v)
    <3>1. \A v, size : LeafOf(ZeroEntry, v, size) = Unmapped
      BY <2>6 DEF LeafOf
    <3> QED
      BY <3>1, <2>4, <2>7, <2>8
  <2>17. Unmaps(va)
    BY <2>15, <2>16, TranslateIs DEF Unmaps
  <2> QED
    BY <2>12, <2>13, <2>14, <2>17 DEF Outcome
<1> QED
  BY <1>1, <1>2 DEF riscv_sv39_unmap_small_page

\* Zeroed memory holds the root and no other table.
LEMMA Sv39Start ==
  ASSUME PagesContract, Init PROVE Sv39Inv
<1>1. mem = [p \in AllPages |-> ZeroTable] /\ pool = TablePages
      /\ ret = [err |-> EC_SUCCESS, pa |-> 0]
  BY DEF Init
<1>2. TablePages \in Seq(Range(TablePages))
  BY Sv39Assumption DEF Range
<1>3. Taken(pool) = {} /\ Nodes(pool) = {Root} /\ Root \in AllPages
  BY <1>1 DEF Taken, Nodes, AllPages
<1>4. /\ ZeroEntry \in Pte /\ ZeroTable \in [Index -> Pte]
      /\ ~riscv_sv39_pte_valid(ZeroEntry)
  BY NewEntries, Sizes
<1>5. \A p \in AllPages, i \in Index : mem[p][i] = ZeroEntry
  BY <1>1 DEF ZeroTable, Index
<1>6. \A p \in AllPages, i \in Index : ~Ptr(mem, p, i)
  BY <1>4, <1>5 DEF Ptr
<1>7. Typed(mem, pool)
  BY <1>1, <1>2, <1>4 DEF Typed, Memory, PagesContract, PagesApart
<1>8. Clean(mem, pool)
  BY <1>1, <1>5 DEF Clean
<1>9. Tree(mem, pool)
  BY <1>3, <1>6 DEF Tree
<1>10. Shallow(mem)
  BY <1>3, <1>6 DEF Shallow
<1>11. ret \in [err : 0..(2 ^ WordBits - 1), pa : Nat]
  BY <1>1 DEF PagesContract, CodesAreErrors
<1> QED
  BY <1>7, <1>8, <1>9, <1>10, <1>11 DEF Sv39Inv, Sound

\* Every call keeps the tables sound, or does nothing.
LEMMA Sv39Step ==
  ASSUME PagesContract, Sv39Inv, [ContractNext]_vars PROVE Sv39Inv'
<1>1. CASE ContractNext
  <2>1. ASSUME NEW va \in Vas, NEW pa \in Pas, NEW f \in Flags,
               MapSmall(va, pa, f) \/ MapMega(va, pa, f) \/ MapGiga(va, pa, f)
        PROVE  Sv39Inv'
    BY <2>1, MapSmallStep, MapMegaStep, MapGigaStep
  <2>2. ASSUME NEW va \in Vas, riscv_sv39_unmap_small_page(va) PROVE Sv39Inv'
    BY <2>2, UnmapStep
  <2> QED
    BY <1>1, <2>1, <2>2 DEF ContractNext
<1>2. CASE UNCHANGED vars
  BY <1>2 DEF vars, Sv39Inv
<1> QED
  BY <1>1, <1>2

(***************************************************************************)
(* Whatever is mapped and unmapped, in whatever order, and whenever memory *)
(* runs out: the tables are a tree of three levels, as long as no caller   *)
(* maps below a larger page.                                               *)
(***************************************************************************)
THEOREM Sv39Safety == ASSUME PagesContract PROVE ContractSpec => []Sv39Inv
<1>1. Init => Sv39Inv
  BY Sv39Start
<1>2. Sv39Inv /\ [ContractNext]_vars => Sv39Inv'
  BY Sv39Step
<1> QED
  BY <1>1, <1>2, PTL DEF ContractSpec

(***************************************************************************)
(* Entries, the pages left and the results of the calls keep their types;  *)
(* an address in an entry is always that of a page.                        *)
(***************************************************************************)
THEOREM PageTablesTyped == ASSUME PagesContract PROVE ContractSpec => []TypeOK
<1>1. Sv39Inv => TypeOK
  <2> SUFFICES ASSUME Sv39Inv PROVE TypeOK
    OBVIOUS
  <2>1. mem \in Memory /\ pool \in Seq(Range(TablePages))
    BY DEF Sv39Inv, Sound, Typed
  <2>2. Range(TablePages) \subseteq Nat
    BY Sv39Assumption DEF Range
  <2>3. pool \in Seq(Nat)
    BY <2>1, <2>2
  <2> QED
    BY <2>1, <2>3 DEF Sv39Inv, TypeOK, Index, Memory
<1> QED
  BY <1>1, Sv39Safety, PTL

(***************************************************************************)
(* The tables form a tree and no page is lost, also when a mapping call    *)
(* fails after it has made tables.                                         *)
(***************************************************************************)
THEOREM TablesStayTree == ASSUME PagesContract PROVE ContractSpec => []TablesFormTree
<1>1. Sv39Inv => TablesFormTree
  <2> SUFFICES ASSUME Sv39Inv PROVE TablesFormTree
    OBVIOUS
  <2> DEFINE slots == {s \in ({Root} \union Tables) \X (0..(Entries - 1)) : Pointer(s[1], s[2])}
             target(s) == mem[s[1]][s[2]].addr
  <2>1. Tables = Taken(pool) /\ {Root} \union Tables = Nodes(pool)
    BY DEF Tables, Taken, Nodes
  <2>2. Tree(mem, pool)
    BY DEF Sv39Inv, Sound
  <2>3. \A p, i : Pointer(p, i) <=> Ptr(mem, p, i)
    BY DEF Pointer, Ptr
  <2>4. ASSUME NEW s \in slots
        PROVE  /\ s[1] \in Nodes(pool) /\ s[2] \in Index /\ Ptr(mem, s[1], s[2])
               /\ s = <<s[1], s[2]>>
    BY <2>1, <2>3 DEF Index
  <2>5. ASSUME NEW p \in Nodes(pool), NEW i \in Index, Ptr(mem, p, i)
        PROVE  <<p, i>> \in slots /\ target(<<p, i>>) = mem[p][i].addr
    BY <2>1, <2>3, <2>5 DEF Index
  <2> HIDE DEF slots
  <2>6. ASSUME NEW s \in slots PROVE target(s) \in Tables
    BY <2>1, <2>2, <2>4 DEF Tree
  <2>7. ASSUME NEW t \in Tables PROVE \E s \in slots : target(s) = t
    <3>1. PICK p \in Nodes(pool), i \in Index : Ptr(mem, p, i) /\ mem[p][i].addr = t
      BY <2>1, <2>2 DEF Tree
    <3> QED
      BY <3>1, <2>5
  <2>8. ASSUME NEW s \in slots, NEW t \in slots, target(s) = target(t) PROVE s = t
    <3>1. s[1] = t[1] /\ s[2] = t[2]
      BY <2>2, <2>4, <2>8 DEF Tree
    <3> QED
      BY <3>1, <2>4
  <2>9. {target(s) : s \in slots} = Tables
    BY <2>6, <2>7
  <2> QED
    BY <2>8, <2>9 DEF TablesFormTree, slots
<1> QED
  BY <1>1, Sv39Safety, PTL

(***************************************************************************)
(* riscv_sv39_virt_to_phys agrees with the architecture where nothing is   *)
(* mapped, in small pages, in the first small page of larger ones, and     *)
(* nowhere else.                                                           *)
(***************************************************************************)
THEOREM VirtToPhysReach ==
  ASSUME PagesContract PROVE ContractSpec => []VirtToPhysInFirstPage
<1>1. Sv39Inv => VirtToPhysInFirstPage
  <2> SUFFICES ASSUME Sv39Inv, NEW v \in VirtualAddresses
               PROVE  IF Translate(v) = Unmapped THEN riscv_sv39_virt_to_phys(v) = 0
                      ELSE riscv_sv39_virt_to_phys(v) = Translate(v)
                             <=> v % LeafSize(v) < Small
    BY DEF VirtToPhysInFirstPage
  <2>1. LeafSize(v) = LastSize(mem, v) /\ LastSize(mem, v) \in {Small, Mega, Giga}
    BY DEF LeafSize, LastSize, T2, T1, E2, Ptr, Table2, Table1, Entry2, Entry1,
           riscv_sv39_pte_get_address
  <2>2. PICK e : e = mem[LastPage(mem, v)][LastIndex(mem, v)]
    OBVIOUS
  <2>3. riscv_sv39_virt_to_phys(v) =
          IF riscv_sv39_pte_valid(e) /\ riscv_sv39_pte_leaf(e) THEN e.addr + (v % Small)
          ELSE 0
    BY <2>2 DEF riscv_sv39_virt_to_phys, LastPage, LastIndex, T2, T1, E2, E1, Ptr,
                Table2, Table1, Entry2, Entry1, Entry0, riscv_sv39_pte_get_address
  <2>4. Translate(v) = LeafOf(e, v, LeafSize(v))
    BY <2>1, <2>2, TranslateIs DEF Trans
  <2>5. e.addr \in Nat
    <3>1. LastPage(mem, v) \in AllPages /\ LastIndex(mem, v) \in Index
      BY Walk, NodesArePages DEF Sv39Inv
    <3>2. e \in Pte
      BY <3>1, <2>2 DEF Sv39Inv, Sound, Typed, Memory
    <3> QED
      BY <3>2 DEF Pte
  <2>6. v \in Nat /\ v % LeafSize(v) \in Nat /\ v % Small \in Nat
    BY <2>1, VpnIndex, Sizes, Division
  <2>7. v % LeafSize(v) = v % Small <=> v % LeafSize(v) < Small
    BY <2>1, <2>6, FirstSmallPage
  <2>8. CASE riscv_sv39_pte_valid(e) /\ riscv_sv39_pte_leaf(e)
    <3>1. /\ Translate(v) = e.addr + (v % LeafSize(v))
          /\ riscv_sv39_virt_to_phys(v) = e.addr + (v % Small)
      BY <2>3, <2>4, <2>8 DEF LeafOf
    <3> QED
      BY <3>1, <2>5, <2>6, <2>7 DEF Unmapped
  <2>9. CASE ~(riscv_sv39_pte_valid(e) /\ riscv_sv39_pte_leaf(e))
    BY <2>3, <2>4, <2>9 DEF LeafOf
  <2> QED
    BY <2>8, <2>9
<1> QED
  BY <1>1, Sv39Safety, PTL

(***************************************************************************)
(* Every call changes exactly the translations it was asked to change, and *)
(* a call that fails changes none.                                         *)
(***************************************************************************)
THEOREM TranslationsAreExact == ASSUME PagesContract PROVE ContractSpec => TranslationsExact
<1> DEFINE Exact ==
      /\ \A va \in Vas, pa \in Pas, f \in Flags :
           /\ MapSmall(va, pa, f) => Outcome(Maps(va, pa, Small))
           /\ MapMega(va, pa, f)  => Outcome(Maps(va, pa, Mega))
           /\ MapGiga(va, pa, f)  => Outcome(Maps(va, pa, Giga))
      /\ \A va \in Vas : riscv_sv39_unmap_small_page(va) => Outcome(Unmaps(va))
<1>1. Sv39Inv => Exact
  <2> SUFFICES ASSUME Sv39Inv PROVE Exact
    OBVIOUS
  <2>1. ASSUME NEW va \in Vas, NEW pa \in Pas, NEW f \in Flags
        PROVE  /\ MapSmall(va, pa, f) => Outcome(Maps(va, pa, Small))
               /\ MapMega(va, pa, f)  => Outcome(Maps(va, pa, Mega))
               /\ MapGiga(va, pa, f)  => Outcome(Maps(va, pa, Giga))
    BY MapSmallStep, MapMegaStep, MapGigaStep
  <2>2. ASSUME NEW va \in Vas, riscv_sv39_unmap_small_page(va) PROVE Outcome(Unmaps(va))
    BY <2>2, UnmapStep
  <2> QED
    BY <2>1, <2>2
<1>2. Sv39Inv => [Exact]_vars
  BY <1>1
<1> QED
  BY <1>2, Sv39Safety, PTL DEF TranslationsExact
=============================================================================
