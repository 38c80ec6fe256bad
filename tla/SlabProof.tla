----------------------------- MODULE SlabProof -----------------------------
(***************************************************************************)
(* Theorems about the arenas of types/slab.c, for every object size, every *)
(* set of buffers that hold whole blocks, and every order of calls.        *)
(***************************************************************************)
EXTENDS Slab, FiniteSetTheorems, SequenceTheorems, TLAPS

(***************************************************************************)
(* What slab.c needs from its callers: whole blocks in every buffer, and   *)
(* buffers of which no two share a byte.                                   *)
(***************************************************************************)
ArenaContract == ExactGeometry /\ BuffersDisjoint

\* b is one of the blocks region r is cut into.
Cell(b, r) ==
  /\ b \in Nat
  /\ FirstBlock(r.buffer) <= b
  /\ b + block_size <= r.region_end
  /\ (r.region_end - b) % block_size = 0

\* A region is one of the callers' buffers, bumped by whole blocks.
SoundRegion(r) ==
  /\ r \in SlabRegion
  /\ \E b \in AllBuffers :
       /\ LargeEnough(b)
       /\ r.buffer = b.buffer /\ r.size = b.size
       /\ r.region_end = RegionEnd(b.buffer, b.size)
  /\ FirstBlock(r.buffer) <= r.current_offset
  /\ r.current_offset <= r.region_end
  /\ (r.region_end - r.current_offset) % block_size = 0

\* The list o of regions with current_region at index c.
SoundOrder(o, c) ==
  /\ o \in Seq(SlabRegion)
  /\ c \in 0..Len(o)
  /\ c = 0 => Len(o) = 0
  /\ \A i \in 1..Len(o) : SoundRegion(o[i])
  /\ \A i, j \in 1..Len(o) : o[i].buffer = o[j].buffer => i = j
  /\ \A i \in 1..Len(o) : i < c => Full(o[i])
  /\ \A i \in 1..Len(o) : i > c => ~Full(o[i])

\* The blocks of list o that were never handed out.
Fresh(o) == UNION {Unbumped(o[i]) : i \in 1..Len(o)}

\* Block b was handed out from a region of list o.
Placed(b, o) ==
  \E i \in 1..Len(o) : Cell(b, o[i]) /\ b < o[i].current_offset

\* The blocks slab_free put on block_list.
Listed == {block_list[i] : i \in 1..Len(block_list)}

\* Every block is listed once, held once, or fresh, and the counters say so.
Accounts ==
  /\ \A i, j \in 1..Len(block_list) : block_list[i] = block_list[j] => i = j
  /\ Listed \intersect live = {}
  /\ \A b \in Listed \union live : Placed(b, order)
  /\ IsFiniteSet(FreeSet) /\ IsFiniteSet(live)
  /\ CountsExact

\* The inductive invariant: the comment of struct slab_alloc alone is not one,
\* for what slab_allocate does next is decided by free_blocks.
SlabInv == TypeOK /\ SoundOrder(order, current) /\ Accounts /\ NextRegionExists

-----------------------------------------------------------------------------
\* A block has a positive size, whatever the object.
LEMMA BlockSize == block_size \in Nat \ {0}
  BY SlabAssumption DEF block_size, SLAB_BLOCK_SIZE

\* A distance is a whole number of blocks, that many times the block.
LEMMA WholeBlocks ==
  ASSUME NEW d \in Nat \ {0}, NEW n \in Nat, n % d = 0
  PROVE  /\ n \div d \in Nat
         /\ n = (n \div d) * d
  OBVIOUS

\* A positive whole distance is at least a block long.
LEMMA AtLeastOne ==
  ASSUME NEW d \in Nat \ {0}, NEW n \in Nat \ {0}, n % d = 0
  PROVE  n >= d
  OBVIOUS

\* One block less is one less.
LEMMA OneLess ==
  ASSUME NEW d \in Nat \ {0}, NEW n \in Nat \ {0}, n % d = 0
  PROVE  /\ n - d \in Nat
         /\ (n - d) % d = 0
         /\ (n - d) \div d = (n \div d) - 1
  OBVIOUS

\* Multiples of a block are whole.
LEMMA ManyTimes ==
  ASSUME NEW d \in Nat \ {0}, NEW k \in Nat
  PROVE  /\ k * d \in Nat
         /\ (k * d) % d = 0
         /\ (k * d) \div d = k
  OBVIOUS

\* The difference of two whole distances is whole.
LEMMA Difference ==
  ASSUME NEW d \in Nat \ {0}, NEW m \in Nat, NEW n \in Nat,
         m % d = 0, n % d = 0, m <= n
  PROVE  (n - m) % d = 0
<1>1. PICK a \in Nat, b \in Nat : m = a * d /\ n = b * d
  BY WholeBlocks
<1>2. a <= b
  <2>1. ASSUME b + 1 <= a PROVE FALSE
    <3>1. PICK e \in Nat : a = b + 1 + e
      BY <2>1
    <3>2. a * d = b * d + d + e * d
      BY <3>1
    <3> QED
      BY <3>2, <1>1, ManyTimes
  <2> QED
    BY <2>1
<1>3. PICK e \in Nat : b = a + e
  BY <1>2
<1>4. n - m = e * d
  BY <1>1, <1>3
<1> QED
  BY <1>4, ManyTimes
\* Counting blocks and measuring them order in the same way.
LEMMA FewerBlocks ==
  ASSUME NEW d \in Nat \ {0}, NEW a \in Nat, NEW b \in Nat
  PROVE  a + 1 <= b <=> a * d + d <= b * d
<1>1. ASSUME a + 1 <= b PROVE a * d + d <= b * d
  <2>1. PICK e \in Nat : b = a + 1 + e
    BY <1>1
  <2>2. b * d = a * d + d + e * d
    BY <2>1
  <2> QED
    BY <2>2, ManyTimes
<1>2. ASSUME b <= a PROVE ~(a * d + d <= b * d)
  <2>1. PICK e \in Nat : a = b + e
    BY <1>2
  <2>2. a * d = b * d + e * d
    BY <2>1
  <2> QED
    BY <2>2, ManyTimes
<1> QED
  BY <1>1, <1>2

-----------------------------------------------------------------------------
(***************************************************************************)
(* One region.                                                             *)
(***************************************************************************)

\* What the geometry says of a sound region.
LEMMA SoundFacts ==
  ASSUME ArenaContract, NEW r, SoundRegion(r)
  PROVE  /\ r.buffer \in Nat /\ r.size \in Nat
         /\ r.current_offset \in Nat /\ r.region_end \in Nat
         /\ FirstBlock(r.buffer) \in Nat
         /\ r.buffer + HeaderSize <= FirstBlock(r.buffer)
         /\ FirstBlock(r.buffer) <= r.current_offset
         /\ r.current_offset <= r.region_end
         /\ r.region_end <= r.buffer + r.size
         /\ 0 < r.size
         /\ r.region_end - r.current_offset \in Nat
         /\ (r.region_end - r.current_offset) % block_size = 0
<1>1. PICK b \in AllBuffers :
        /\ LargeEnough(b)
        /\ r.buffer = b.buffer /\ r.size = b.size
        /\ r.region_end = RegionEnd(b.buffer, b.size)
  BY DEF SoundRegion
<1>2. /\ FirstBlock(b.buffer) \in Nat /\ RegionEnd(b.buffer, b.size) \in Nat
      /\ b.buffer + HeaderSize <= FirstBlock(b.buffer)
      /\ FirstBlock(b.buffer) < RegionEnd(b.buffer, b.size)
      /\ RegionEnd(b.buffer, b.size) <= b.buffer + b.size
  BY <1>1 DEF ArenaContract, ExactGeometry, AllBuffers
<1>3. /\ r.buffer \in Nat /\ r.size \in Nat
      /\ r.current_offset \in Nat /\ r.region_end \in Nat
      /\ FirstBlock(r.buffer) <= r.current_offset
      /\ r.current_offset <= r.region_end
      /\ (r.region_end - r.current_offset) % block_size = 0
  BY DEF SoundRegion, SlabRegion
<1> QED
  BY <1>1, <1>2, <1>3, SlabAssumption

\* The blocks not bumped yet are the cells from current_offset on.
LEMMA UnbumpedMembers ==
  ASSUME ArenaContract, NEW r, SoundRegion(r), NEW x
  PROVE  x \in Unbumped(r) <=> Cell(x, r) /\ r.current_offset <= x
<1> DEFINE off == r.current_offset
           end == r.region_end
           d   == block_size
           n   == Slots(r)
<1>1. /\ off \in Nat /\ end \in Nat /\ FirstBlock(r.buffer) \in Nat
      /\ FirstBlock(r.buffer) <= off /\ off <= end
      /\ end - off \in Nat /\ (end - off) % d = 0
  BY SoundFacts
<1>2. d \in Nat \ {0}
  BY BlockSize
<1>3. n \in Nat /\ end - off = n * d
  BY <1>1, <1>2, WholeBlocks DEF Slots
<1>4. x \in Unbumped(r) <=> \E k \in 0..(n - 1) : x = off + k * d
  BY DEF Unbumped
<1>5. Cell(x, r) <=> /\ x \in Nat
                     /\ FirstBlock(r.buffer) <= x
                     /\ x + d <= end
                     /\ (end - x) % d = 0
  BY DEF Cell
<1> HIDE DEF off, end, d, n
<1>6. ASSUME NEW k \in 0..(n - 1), x = off + k * d
      PROVE  Cell(x, r) /\ off <= x
  <2>1. k \in Nat /\ k * d \in Nat
    BY <1>2, <1>3, ManyTimes
  <2>2. PICK e \in Nat : n = k + 1 + e
    BY <2>1, <1>3, <1>6
  <2>3. n * d = k * d + (e + 1) * d /\ (e + 1) * d = e * d + d
    BY <2>1, <2>2, <1>2
  <2>4. e * d \in Nat /\ (e + 1) * d \in Nat /\ ((e + 1) * d) % d = 0
    BY <1>2, ManyTimes, e + 1 \in Nat
  <2>5. end - x = (e + 1) * d
    BY <2>1, <2>3, <2>4, <1>1, <1>3, <1>6
  <2> QED
    BY <2>1, <2>3, <2>4, <2>5, <1>1, <1>2, <1>5, <1>6
<1>7. ASSUME Cell(x, r), off <= x
      PROVE  \E k \in 0..(n - 1) : x = off + k * d
  <2>1. x \in Nat /\ x + d <= end /\ (end - x) % d = 0
    BY <1>5, <1>7
  <2>2. end - x \in Nat /\ end - x <= end - off /\ (end - off) - (end - x) = x - off
    BY <2>1, <1>1, <1>2, <1>7
  <2>3. (x - off) % d = 0 /\ x - off \in Nat
    <3>1. PICK m \in Nat, q \in Nat : m = end - x /\ q = end - off
      BY <2>2, <1>1
    <3>2. (q - m) % d = 0
      BY <3>1, <2>1, <2>2, <1>1, <1>2, Difference
    <3> QED
      BY <3>1, <3>2, <2>1, <2>2, <1>1, <1>7
  <2>4. PICK k \in Nat : x - off = k * d
    BY <2>3, <1>2, WholeBlocks
  <2>5. k * d \in Nat /\ n * d \in Nat
    BY <1>2, <1>3, ManyTimes
  <2>6. x = off + k * d
    BY <2>1, <2>4, <2>5, <1>1
  <2>7. k * d + d <= n * d
    BY <2>1, <2>5, <2>6, <1>1, <1>2, <1>3
  <2>8. k + 1 <= n
    BY <2>7, <1>2, <1>3, FewerBlocks
  <2> QED
    BY <2>6, <2>8, <1>3
<1> QED
  BY <1>4, <1>6, <1>7 DEF off

\* A region has as many blocks left as slab_grow counts.
LEMMA UnbumpedCount ==
  ASSUME ArenaContract, NEW r, SoundRegion(r)
  PROVE  /\ IsFiniteSet(Unbumped(r))
         /\ Slots(r) \in Nat
         /\ Cardinality(Unbumped(r)) = Slots(r)
<1> DEFINE off == r.current_offset
           d   == block_size
           n   == Slots(r)
           S   == 0..(n - 1)
           T   == Unbumped(r)
           f   == [k \in S |-> off + k * d]
<1>1. off \in Nat /\ r.region_end - off \in Nat /\ (r.region_end - off) % d = 0
  BY SoundFacts
<1>2. d \in Nat \ {0}
  BY BlockSize
<1>3. n \in Nat
  BY <1>1, <1>2, WholeBlocks DEF Slots
<1>4. T = {off + k * d : k \in S}
  BY DEF Unbumped
<1> HIDE DEF off, d, n, T
<1>5. f \in Surjection(S, T)
  BY <1>4 DEF Surjection
<1>6. ASSUME NEW j \in S, NEW k \in S, j < k PROVE off + j * d # off + k * d
  <2>1. j \in Nat /\ k \in Nat /\ j + 1 <= k
    BY <1>3, <1>6
  <2>2. j * d \in Nat /\ k * d \in Nat /\ j * d + d <= k * d
    BY <2>1, <1>2, ManyTimes, FewerBlocks
  <2> QED
    BY <2>2, <1>1, <1>2
<1>7. f \in Injection(S, T)
  <2>1. ASSUME NEW j \in S, NEW k \in S, f[j] = f[k] PROVE j = k
    <3>1. j \in Nat /\ k \in Nat
      BY <1>3
    <3> QED
      BY <3>1, <2>1, <1>6
  <2> QED
    BY <2>1, <1>5 DEF Surjection, Injection, IsInjective
<1>8. IsFiniteSet(S) /\ Cardinality(S) = n
  BY <1>3, FS_Interval
<1> QED
  BY <1>3, <1>5, <1>7, <1>8, FS_Surjection DEF T, n

\* A region is full when it has no block left.
LEMMA FullEmpty ==
  ASSUME ArenaContract, NEW r, SoundRegion(r)
  PROVE  /\ Full(r) => Unbumped(r) = {}
         /\ ~Full(r) => Cell(r.current_offset, r) /\ r.current_offset \in Unbumped(r)
<1> DEFINE off == r.current_offset
           end == r.region_end
           d   == block_size
<1>1. /\ off \in Nat /\ end \in Nat /\ FirstBlock(r.buffer) \in Nat
      /\ FirstBlock(r.buffer) <= off /\ off <= end
      /\ end - off \in Nat /\ (end - off) % d = 0
  BY SoundFacts
<1>2. d \in Nat \ {0}
  BY BlockSize
<1>3. Full(r) <=> off = end
  BY DEF Full
<1>4. \A x : Cell(x, r) <=> /\ x \in Nat
                            /\ FirstBlock(r.buffer) <= x
                            /\ x + d <= end
                            /\ (end - x) % d = 0
  BY DEF Cell
<1>5. \A x : x \in Unbumped(r) <=> Cell(x, r) /\ off <= x
  BY UnbumpedMembers
<1> HIDE DEF off, end, d
<1>6. ASSUME off = end, NEW x \in Unbumped(r) PROVE FALSE
  BY <1>1, <1>2, <1>4, <1>5, <1>6
<1>7. ASSUME off # end PROVE Cell(off, r)
  <2>1. end - off >= d
    BY <1>1, <1>2, <1>7, AtLeastOne
  <2> QED
    BY <2>1, <1>1, <1>2, <1>4
<1> QED
  BY <1>1, <1>3, <1>5, <1>6, <1>7 DEF off

\* Bumping a region that is not full takes its first block and no other.
LEMMA BumpRegion ==
  ASSUME ArenaContract, NEW r, SoundRegion(r), ~Full(r),
         NEW s, s = [r EXCEPT !.current_offset = @ + block_size]
  PROVE  /\ SoundRegion(s)
         /\ s.buffer = r.buffer
         /\ s.current_offset = r.current_offset + block_size
         /\ \A x : Cell(x, s) <=> Cell(x, r)
         /\ Unbumped(s) = Unbumped(r) \ {r.current_offset}
<1> DEFINE off == r.current_offset
           end == r.region_end
           d   == block_size
<1>1. /\ off \in Nat /\ end \in Nat /\ FirstBlock(r.buffer) \in Nat
      /\ FirstBlock(r.buffer) <= off /\ off <= end
      /\ end - off \in Nat /\ (end - off) % d = 0
  BY SoundFacts
<1>2. d \in Nat \ {0}
  BY BlockSize
<1>3. off # end
  BY DEF Full
<1>4. /\ s = [buffer |-> r.buffer, size |-> r.size, current_offset |-> off + d,
              region_end |-> end]
      /\ r.buffer \in Nat /\ r.size \in Nat
  BY DEF SoundRegion, SlabRegion
<1>5. \A x : Cell(x, s) <=> Cell(x, r)
  BY <1>4 DEF Cell
<1>6. s.buffer = r.buffer /\ s.size = r.size /\ s.current_offset = off + d
      /\ s.region_end = end
  BY <1>4
<1>7. end - off >= d /\ (end - off) - d \in Nat /\ ((end - off) - d) % d = 0
  <2> HIDE DEF off, end, d
  <2>1. PICK q \in Nat \ {0} : q = end - off
    BY <1>1, <1>3
  <2> QED
    BY <2>1, <1>1, <1>2, AtLeastOne, OneLess
<1>8. /\ off + d \in Nat /\ off + d <= end /\ FirstBlock(r.buffer) <= off + d
      /\ end - (off + d) = (end - off) - d
  <2> HIDE DEF off, end, d
  <2> QED
    BY <1>1, <1>2, <1>7
<1>9. SoundRegion(s)
  <2>1. s \in SlabRegion
    BY <1>1, <1>4, <1>8 DEF SlabRegion
  <2>2. \E b \in AllBuffers :
          /\ LargeEnough(b)
          /\ s.buffer = b.buffer /\ s.size = b.size
          /\ s.region_end = RegionEnd(b.buffer, b.size)
    BY <1>6 DEF SoundRegion
  <2>3. (end - (off + d)) % d = 0
    BY <1>7, <1>8
  <2> HIDE DEF off, end, d
  <2>4. /\ FirstBlock(s.buffer) <= s.current_offset
        /\ s.current_offset <= s.region_end
        /\ (s.region_end - s.current_offset) % d = 0
    BY <1>6, <1>8, <2>3
  <2> QED
    BY <2>1, <2>2, <2>4 DEF SoundRegion, d
<1>10. ASSUME NEW x, Cell(x, r), off <= x, x # off PROVE off + d <= x
  <2>1. x \in Nat /\ x + d <= end /\ (end - x) % d = 0
    BY <1>10 DEF Cell
  <2> HIDE DEF off, end, d
  <2>2. PICK m \in Nat, q \in Nat : m = end - x /\ q = end - off
    BY <2>1, <1>1, <1>2
  <2>3. m <= q /\ q - m = x - off /\ x - off \in Nat \ {0}
    BY <2>1, <2>2, <1>1, <1>10
  <2>4. (x - off) % d = 0
    BY <2>1, <2>2, <2>3, <1>1, <1>2, Difference
  <2>5. x - off >= d
    BY <2>3, <2>4, <1>2, AtLeastOne
  <2> QED
    BY <2>1, <2>5, <1>1, <1>2
<1>11. \A x : x \in Unbumped(s) <=> Cell(x, s) /\ off + d <= x
  BY <1>6, <1>9, UnbumpedMembers
<1>12. \A x : x \in Unbumped(r) <=> Cell(x, r) /\ off <= x
  BY UnbumpedMembers
<1>13. \A x : Cell(x, r) => x \in Nat
  BY DEF Cell
<1>14. ASSUME NEW x PROVE x \in Unbumped(s) <=> x \in Unbumped(r) /\ x # off
  <2> HIDE DEF off, d, end
  <2> QED
    BY <1>1, <1>2, <1>5, <1>10, <1>11, <1>12, <1>13
<1>15. Unbumped(s) = Unbumped(r) \ {off}
  BY <1>14
<1> QED
  BY <1>5, <1>6, <1>9, <1>15

\* The region slab_grow makes of a buffer is sound and has a block.
LEMMA NewRegionSound ==
  ASSUME ArenaContract, NEW b \in AllBuffers, LargeEnough(b)
  PROVE  /\ SoundRegion(NewRegion(b))
         /\ ~Full(NewRegion(b))
         /\ NewRegion(b).buffer = b.buffer
<1>1. /\ FirstBlock(b.buffer) \in Nat /\ RegionEnd(b.buffer, b.size) \in Nat
      /\ FirstBlock(b.buffer) < RegionEnd(b.buffer, b.size)
      /\ (RegionEnd(b.buffer, b.size) - FirstBlock(b.buffer)) % block_size = 0
  BY DEF ArenaContract, ExactGeometry, AllBuffers
<1>2. b.buffer \in Nat /\ b.size \in Nat
  BY SlabAssumption DEF AllBuffers
<1> QED
  BY <1>1, <1>2 DEF SoundRegion, NewRegion, Full, SlabRegion

\* Two sound regions are the same buffer or share no byte.
LEMMA RegionsSeparate ==
  ASSUME ArenaContract, NEW r, NEW s, SoundRegion(r), SoundRegion(s)
  PROVE  \/ /\ r.buffer = s.buffer /\ r.region_end = s.region_end
         \/ /\ r.buffer # s.buffer
            /\ \/ r.region_end <= s.buffer
               \/ s.region_end <= r.buffer
<1>1. PICK b \in AllBuffers :
        /\ LargeEnough(b)
        /\ r.buffer = b.buffer /\ r.size = b.size
        /\ r.region_end = RegionEnd(b.buffer, b.size)
  BY DEF SoundRegion
<1>2. PICK c \in AllBuffers :
        /\ LargeEnough(c)
        /\ s.buffer = c.buffer /\ s.size = c.size
        /\ s.region_end = RegionEnd(c.buffer, c.size)
  BY DEF SoundRegion
<1>3. CASE b = c
  BY <1>1, <1>2, <1>3
<1>4. CASE b # c
  <2>1. r.buffer + r.size <= s.buffer \/ s.buffer + s.size <= r.buffer
    BY <1>1, <1>2, <1>4 DEF ArenaContract, BuffersDisjoint, AllBuffers
  <2>2. /\ r.buffer \in Nat /\ r.size \in Nat /\ 0 < r.size
        /\ r.region_end \in Nat /\ r.region_end <= r.buffer + r.size
    BY SoundFacts
  <2>3. /\ s.buffer \in Nat /\ s.size \in Nat /\ 0 < s.size
        /\ s.region_end \in Nat /\ s.region_end <= s.buffer + s.size
    BY SoundFacts
  <2> QED
    BY <2>1, <2>2, <2>3
<1> QED
  BY <1>3, <1>4

\* A block lies behind the header and inside the buffer.
LEMMA CellInside ==
  ASSUME ArenaContract, NEW r, SoundRegion(r), NEW x, Cell(x, r)
  PROVE  /\ x \in Nat /\ r.buffer <= x /\ x + block_size <= r.region_end
         /\ InRegion(x, r)
         /\ OwnedByArena(x)
<1>1. /\ r.buffer \in Nat /\ r.size \in Nat /\ r.region_end \in Nat
      /\ FirstBlock(r.buffer) \in Nat
      /\ r.buffer + HeaderSize <= FirstBlock(r.buffer)
      /\ r.region_end <= r.buffer + r.size
  BY SoundFacts
<1>2. /\ x \in Nat
      /\ FirstBlock(r.buffer) <= x
      /\ x + block_size <= r.region_end
  BY DEF Cell
<1>3. r.buffer <= x /\ InRegion(x, r)
  BY <1>1, <1>2, BlockSize, SlabAssumption DEF InRegion
<1>4. \E b \in AllBuffers : r.buffer = b.buffer /\ r.size = b.size
  BY DEF SoundRegion
<1> QED
  BY <1>2, <1>3, <1>4 DEF OwnedByArena, InRegion

\* Blocks of an arena never overlap, and a block belongs to one region.
LEMMA CellsApart ==
  ASSUME ArenaContract, NEW r, NEW s, SoundRegion(r), SoundRegion(s),
         NEW x, NEW y, Cell(x, r), Cell(y, s)
  PROVE  /\ x < y => x + block_size <= y
         /\ x = y => r.buffer = s.buffer
<1>1. x \in Nat /\ r.buffer <= x /\ x + block_size <= r.region_end
  BY CellInside
<1>2. y \in Nat /\ s.buffer <= y /\ y + block_size <= s.region_end
  BY CellInside
<1>3. /\ r.buffer \in Nat /\ r.region_end \in Nat
      /\ s.buffer \in Nat /\ s.region_end \in Nat
  BY SoundFacts
<1>4. CASE r.buffer = s.buffer /\ r.region_end = s.region_end
  <2> SUFFICES ASSUME x < y PROVE x + block_size <= y
    BY <1>4
  <2>1. /\ (r.region_end - x) % block_size = 0
        /\ (r.region_end - y) % block_size = 0
    BY <1>4 DEF Cell
  <2>2. PICK m \in Nat, q \in Nat : m = r.region_end - y /\ q = r.region_end - x
    BY <1>1, <1>2, <1>3, <1>4, BlockSize
  <2>3. m <= q /\ q - m = y - x /\ y - x \in Nat \ {0}
    BY <2>2, <1>1, <1>2, <1>3
  <2>4. (y - x) % block_size = 0
    BY <2>1, <2>2, <2>3, BlockSize, Difference
  <2>5. y - x >= block_size
    BY <2>3, <2>4, BlockSize, AtLeastOne
  <2> QED
    BY <2>5, <1>1, <1>2, BlockSize
<1>5. CASE r.buffer # s.buffer
  <2>1. r.region_end <= s.buffer \/ s.region_end <= r.buffer
    BY <1>5, RegionsSeparate
  <2> QED
    BY <2>1, <1>1, <1>2, <1>3, BlockSize
<1> QED
  BY <1>4, <1>5, RegionsSeparate

-----------------------------------------------------------------------------
(***************************************************************************)
(* The list of regions.                                                    *)
(***************************************************************************)

\* The fresh blocks of a list, region by region.
LEMMA FreshMembers ==
  ASSUME NEW o
  PROVE  \A x : x \in Fresh(o) <=> \E i \in 1..Len(o) : x \in Unbumped(o[i])
  BY DEF Fresh

\* A block that was handed out is not fresh.
LEMMA PlacedNotFresh ==
  ASSUME ArenaContract, NEW o, NEW c, SoundOrder(o, c), NEW x, Placed(x, o)
  PROVE  x \notin Fresh(o)
<1>1. PICK i \in 1..Len(o) : Cell(x, o[i]) /\ x < o[i].current_offset
  BY DEF Placed
<1> SUFFICES ASSUME NEW j \in 1..Len(o), x \in Unbumped(o[j])
             PROVE  FALSE
  BY FreshMembers
<1>2. SoundRegion(o[i]) /\ SoundRegion(o[j])
  BY DEF SoundOrder
<1>3. Cell(x, o[j]) /\ o[j].current_offset <= x
  BY <1>2, UnbumpedMembers
<1>4. i = j
  BY <1>1, <1>2, <1>3, CellsApart DEF SoundOrder
<1>5. x \in Nat /\ o[i].current_offset \in Nat
  BY <1>1, <1>2, SoundFacts DEF Cell
<1> QED
  BY <1>1, <1>3, <1>4, <1>5

\* Every block of an arena, fresh or handed out, is a cell of one region.
LEMMA BlocksAreCells ==
  ASSUME ArenaContract, NEW o, NEW c, SoundOrder(o, c), NEW x,
         x \in Fresh(o) \/ Placed(x, o)
  PROVE  \E i \in 1..Len(o) : SoundRegion(o[i]) /\ Cell(x, o[i])
<1>1. CASE Placed(x, o)
  BY <1>1 DEF Placed, SoundOrder
<1>2. CASE x \in Fresh(o)
  <2>1. PICK i \in 1..Len(o) : x \in Unbumped(o[i])
    BY <1>2, FreshMembers
  <2>2. SoundRegion(o[i])
    BY DEF SoundOrder
  <2> QED
    BY <2>1, <2>2, UnbumpedMembers
<1> QED
  BY <1>1, <1>2

\* A list whose current region is its last and is full has nothing fresh;
\* and a list with nothing fresh is like that.
LEMMA NothingFresh ==
  ASSUME ArenaContract, NEW o, NEW c, SoundOrder(o, c)
  PROVE  Fresh(o) = {} <=> c = Len(o) /\ (c = 0 \/ Full(o[c]))
<1>1. c \in 0..Len(o) /\ Len(o) \in Nat /\ (c = 0 => Len(o) = 0)
  BY DEF SoundOrder
<1>2. \A i \in 1..Len(o) : /\ SoundRegion(o[i])
                           /\ i < c => Full(o[i])
                           /\ i > c => ~Full(o[i])
  BY DEF SoundOrder
<1>3. ASSUME c = Len(o), c = 0 \/ Full(o[c]), NEW x \in Fresh(o)
      PROVE  FALSE
  <2>1. PICK i \in 1..Len(o) : x \in Unbumped(o[i])
    BY FreshMembers
  <2>2. Full(o[i])
    BY <1>1, <1>2, <1>3
  <2> QED
    BY <2>1, <2>2, <1>2, FullEmpty
<1>4. ASSUME Fresh(o) = {}, NEW i \in 1..Len(o)
      PROVE  Full(o[i])
  <2>1. Unbumped(o[i]) = {}
    BY <1>4, FreshMembers
  <2> QED
    BY <2>1, <1>2, FullEmpty
<1>5. ASSUME Fresh(o) = {}
      PROVE  c = Len(o) /\ (c = 0 \/ Full(o[c]))
  <2>1. CASE c < Len(o)
    <3>1. c + 1 \in 1..Len(o)
      BY <2>1, <1>1
    <3> QED
      BY <3>1, <1>1, <1>2, <1>4, <1>5
  <2>2. CASE c = Len(o)
    BY <2>2, <1>1, <1>4, <1>5
  <2> QED
    BY <2>1, <2>2, <1>1
<1> QED
  BY <1>3, <1>5

\* List o with r behind its element c.
Inserted(o, c, r) == SubSeq(o, 1, c) \o <<r>> \o SubSeq(o, c + 1, Len(o))

\* slab_grow puts one element into the list and moves no other.
LEMMA InsertedElements ==
  ASSUME NEW S, NEW o \in Seq(S), NEW c \in 0..Len(o), NEW r \in S
  PROVE  /\ Inserted(o, c, r) \in Seq(S)
         /\ Len(Inserted(o, c, r)) = Len(o) + 1
         /\ \A i \in 1..(Len(o) + 1) :
              Inserted(o, c, r)[i] =
                IF i <= c THEN o[i] ELSE IF i = c + 1 THEN r ELSE o[i - 1]
<1>1. PICK n \in Nat : n = Len(o)
  OBVIOUS
<1>2. c \in Nat /\ c <= n
  BY <1>1
<1>3. PICK a : a = SubSeq(o, 1, c)
  OBVIOUS
<1>4. PICK z : z = SubSeq(o, c + 1, Len(o))
  OBVIOUS
<1>5. /\ a \in Seq(S) /\ Len(a) = c
      /\ \A i \in 1..c : a[i] = o[i]
  BY <1>1, <1>2, <1>3
<1>6. /\ z \in Seq(S) /\ Len(z) = n - c
      /\ \A i \in 1..(n - c) : z[i] = o[c + i]
  BY <1>1, <1>2, <1>4
<1>7. PICK h : h = a \o <<r>>
  OBVIOUS
<1>8. /\ h \in Seq(S) /\ Len(h) = c + 1
      /\ \A i \in 1..(c + 1) : h[i] = IF i <= c THEN o[i] ELSE r
  BY <1>2, <1>5, <1>7
<1>9. PICK g : g = Inserted(o, c, r)
  OBVIOUS
<1>10. g = h \o z
  BY <1>3, <1>4, <1>7, <1>9 DEF Inserted
<1>11. /\ g \in Seq(S)
       /\ Len(g) = (c + 1) + (n - c)
       /\ \A i \in 1..((c + 1) + (n - c)) :
            g[i] = IF i <= c + 1 THEN h[i] ELSE z[i - (c + 1)]
  <2>1. /\ h \o z \in Seq(S)
        /\ Len(h \o z) = Len(h) + Len(z)
        /\ \A i \in 1 .. Len(h) + Len(z) :
             (h \o z)[i] = IF i <= Len(h) THEN h[i] ELSE z[i - Len(h)]
    BY <1>6, <1>8, ConcatProperties
  <2>2. /\ g \in Seq(S)
        /\ Len(g) = Len(h) + Len(z)
        /\ \A i \in 1 .. Len(h) + Len(z) :
             g[i] = IF i <= Len(h) THEN h[i] ELSE z[i - Len(h)]
    BY <2>1, <1>10
  <2>3. Len(h) = c + 1 /\ Len(z) = n - c
    BY <1>6, <1>8
  <2> QED
    BY <2>2, <2>3
<1>12. (c + 1) + (n - c) = n + 1
  BY <1>2
<1>13. ASSUME NEW i \in 1..(n + 1)
       PROVE  g[i] = IF i <= c THEN o[i] ELSE IF i = c + 1 THEN r ELSE o[i - 1]
  <2>1. g[i] = IF i <= c + 1 THEN h[i] ELSE z[i - (c + 1)]
    BY <1>11, <1>12
  <2>2. CASE i <= c + 1
    BY <2>1, <2>2, <1>2, <1>8
  <2>3. CASE i > c + 1
    <3>1. i - (c + 1) \in 1..(n - c) /\ c + (i - (c + 1)) = i - 1
      BY <2>3, <1>2
    <3>2. z[i - (c + 1)] = o[i - 1]
      BY <3>1, <1>6
    <3> QED
      BY <3>2, <2>1, <2>3, <1>2
  <2>4. i \in Nat /\ (i <= c + 1 \/ i > c + 1)
    BY <1>2
  <2> QED
    BY <2>2, <2>3, <2>4
<1> QED
  BY <1>1, <1>9, <1>11, <1>12, <1>13

\* slab_grow keeps the list sound; what it adds is the new region's blocks.
LEMMA GrowOrder ==
  ASSUME ArenaContract, NEW o, NEW c, SoundOrder(o, c),
         NEW b \in AllBuffers, LargeEnough(b),
         \A i \in 1..Len(o) : o[i].buffer # b.buffer,
         NEW e, e = IF c = 0 \/ Full(o[c]) THEN c + 1 ELSE c
  PROVE  /\ SoundOrder(Inserted(o, c, NewRegion(b)), e)
         /\ Fresh(Inserted(o, c, NewRegion(b))) = Fresh(o) \union Unbumped(NewRegion(b))
         /\ Fresh(o) \intersect Unbumped(NewRegion(b)) = {}
         /\ \A x : Placed(x, o) => Placed(x, Inserted(o, c, NewRegion(b)))
         /\ e \in 1..Len(Inserted(o, c, NewRegion(b)))
         /\ e = c + 1 => Inserted(o, c, NewRegion(b))[e] = NewRegion(b)
<1>1. PICK r : r = NewRegion(b)
  OBVIOUS
<1>2. SoundRegion(r) /\ ~Full(r) /\ r.buffer = b.buffer /\ r \in SlabRegion
  BY <1>1, NewRegionSound DEF SoundRegion
<1>3. PICK n \in Nat : n = Len(o)
  BY DEF SoundOrder
<1>4. /\ o \in Seq(SlabRegion) /\ c \in 0..n /\ c \in Nat /\ c <= n
      /\ c = 0 => n = 0
      /\ \A i \in 1..n : SoundRegion(o[i])
      /\ \A i, j \in 1..n : o[i].buffer = o[j].buffer => i = j
      /\ \A i \in 1..n : i < c => Full(o[i])
      /\ \A i \in 1..n : i > c => ~Full(o[i])
  BY <1>3 DEF SoundOrder
<1>5. PICK g : g = Inserted(o, c, r)
  OBVIOUS
<1>6. /\ g \in Seq(SlabRegion)
      /\ Len(g) = n + 1
      /\ \A i \in 1..(n + 1) :
           g[i] = IF i <= c THEN o[i] ELSE IF i = c + 1 THEN r ELSE o[i - 1]
  <2>1. /\ Inserted(o, c, r) \in Seq(SlabRegion)
        /\ Len(Inserted(o, c, r)) = Len(o) + 1
        /\ \A i \in 1..(Len(o) + 1) :
             Inserted(o, c, r)[i] =
               IF i <= c THEN o[i] ELSE IF i = c + 1 THEN r ELSE o[i - 1]
    <3>1. o \in Seq(SlabRegion) /\ c \in 0..Len(o) /\ r \in SlabRegion
      BY <1>2, <1>3, <1>4
    <3> QED
      BY <3>1, InsertedElements
  <2> QED
    BY <2>1, <1>3, <1>5
<1>7. /\ \A i \in 1..c : i \in 1..n /\ g[i] = o[i]
      /\ g[c + 1] = r
      /\ \A i \in (c + 2)..(n + 1) : i - 1 \in 1..n /\ i - 1 > c /\ g[i] = o[i - 1]
  <2>1. ASSUME NEW i \in 1..c PROVE i \in 1..n /\ g[i] = o[i]
    <3>1. i \in 1..(n + 1) /\ i <= c /\ i \in 1..n
      BY <1>4
    <3> QED
      BY <3>1, <1>6
  <2>2. g[c + 1] = r
    <3>1. c + 1 \in 1..(n + 1) /\ ~(c + 1 <= c)
      BY <1>4
    <3> QED
      BY <3>1, <1>6
  <2>3. ASSUME NEW i \in (c + 2)..(n + 1)
        PROVE  i - 1 \in 1..n /\ i - 1 > c /\ g[i] = o[i - 1]
    <3>1. /\ i \in 1..(n + 1) /\ ~(i <= c) /\ i # c + 1
          /\ i - 1 \in 1..n /\ i - 1 > c
      BY <1>4
    <3> QED
      BY <3>1, <1>6
  <2> QED
    BY <2>1, <2>2, <2>3
<1>8. \A i \in 1..(n + 1) : i \in 1..c \/ i = c + 1 \/ i \in (c + 2)..(n + 1)
  BY <1>4
<1>9. \A i \in 1..n : \E j \in 1..(n + 1) : g[j] = o[i]
  <2> SUFFICES ASSUME NEW i \in 1..n PROVE \E j \in 1..(n + 1) : g[j] = o[i]
    OBVIOUS
  <2>1. CASE i <= c
    BY <2>1, <1>4, <1>7
  <2>2. CASE i > c
    <3>1. i + 1 \in (c + 2)..(n + 1) /\ (i + 1) - 1 = i /\ i + 1 \in 1..(n + 1)
      BY <2>2, <1>4
    <3> QED
      BY <3>1, <1>7
  <2> QED
    BY <2>1, <2>2, <1>4
<1>10. \A j \in 1..(n + 1) : g[j] = r \/ \E i \in 1..n : g[j] = o[i]
  BY <1>7, <1>8
<1>11. SoundOrder(g, e)
  <2>1. e \in 1..(n + 1) /\ (e = c \/ e = c + 1)
    BY <1>4
  <2>2. \A i \in 1..(n + 1) : SoundRegion(g[i])
    BY <1>2, <1>4, <1>10
  <2>3. ASSUME NEW i \in 1..(n + 1), NEW j \in 1..(n + 1), g[i].buffer = g[j].buffer
        PROVE  i = j
    <3>1. \A k \in 1..n : o[k].buffer # r.buffer
      BY <1>2, <1>3
    <3>2. CASE i = c + 1
      BY <3>1, <3>2, <2>3, <1>7, <1>8
    <3>3. CASE j = c + 1
      BY <3>1, <3>3, <2>3, <1>7, <1>8
    <3>4. CASE i # c + 1 /\ j # c + 1
      <4>1. PICK p \in 1..n :
              g[i] = o[p] /\ ((p = i /\ i <= c) \/ (p = i - 1 /\ i > c + 1))
        <5>1. CASE i \in 1..c
          <6>1. i <= c /\ i \in 1..n /\ g[i] = o[i]
            BY <5>1, <1>4, <1>7
          <6> QED
            BY <6>1
        <5>2. CASE i \in (c + 2)..(n + 1)
          <6>1. i > c + 1
            BY <5>2, <1>4
          <6> QED
            BY <5>2, <6>1, <1>7
        <5> QED
          BY <5>1, <5>2, <3>4, <1>8
      <4>2. PICK q \in 1..n :
              g[j] = o[q] /\ ((q = j /\ j <= c) \/ (q = j - 1 /\ j > c + 1))
        <5>1. CASE j \in 1..c
          <6>1. j <= c /\ j \in 1..n /\ g[j] = o[j]
            BY <5>1, <1>4, <1>7
          <6> QED
            BY <6>1
        <5>2. CASE j \in (c + 2)..(n + 1)
          <6>1. j > c + 1
            BY <5>2, <1>4
          <6> QED
            BY <5>2, <6>1, <1>7
        <5> QED
          BY <5>1, <5>2, <3>4, <1>8
      <4>3. p = q
        BY <4>1, <4>2, <2>3, <1>4
      <4> QED
        BY <4>1, <4>2, <4>3, <1>4
    <3> QED
      BY <3>2, <3>3, <3>4
  <2>4. ASSUME NEW i \in 1..(n + 1), i < e PROVE Full(g[i])
    <3>1. i \in 1..c
      BY <2>1, <2>4, <1>4
    <3>2. i < c \/ (i = c /\ c # 0 /\ e # c)
      BY <3>1, <2>1, <2>4, <1>4
    <3> QED
      BY <3>1, <3>2, <1>4, <1>7
  <2>5. ASSUME NEW i \in 1..(n + 1), i > e PROVE ~Full(g[i])
    <3>1. i = c + 1 \/ i \in (c + 2)..(n + 1)
      BY <2>1, <2>5, <1>4
    <3> QED
      BY <3>1, <1>2, <1>4, <1>7
  <2> QED
    BY <2>1, <2>2, <2>3, <2>4, <2>5, <1>6 DEF SoundOrder
<1>12. Fresh(g) = Fresh(o) \union Unbumped(r)
  <2>1. \A x : x \in Fresh(g) <=> \E i \in 1..(n + 1) : x \in Unbumped(g[i])
    BY <1>6, FreshMembers
  <2>2. \A x : x \in Fresh(o) <=> \E i \in 1..n : x \in Unbumped(o[i])
    BY <1>3, FreshMembers
  <2>3. c + 1 \in 1..(n + 1)
    BY <1>4
  <2>4. ASSUME NEW x \in Fresh(g) PROVE x \in Fresh(o) \union Unbumped(r)
    BY <2>1, <2>2, <1>10
  <2>5. ASSUME NEW x \in Fresh(o) \union Unbumped(r) PROVE x \in Fresh(g)
    BY <2>1, <2>2, <2>3, <1>7, <1>9
  <2> QED
    BY <2>4, <2>5
<1>13. ASSUME NEW x, x \in Fresh(o), x \in Unbumped(r) PROVE FALSE
  <2>1. PICK i \in 1..n : SoundRegion(o[i]) /\ Cell(x, o[i])
    BY <1>3, <1>13, BlocksAreCells
  <2>2. Cell(x, r)
    BY <1>2, <1>13, UnbumpedMembers
  <2> QED
    BY <2>1, <2>2, <1>2, <1>3, CellsApart
<1>14. ASSUME NEW x, Placed(x, o) PROVE Placed(x, g)
  BY <1>3, <1>6, <1>9, <1>14 DEF Placed
<1>15. e \in 1..Len(g) /\ (e = c + 1 => g[e] = r)
  BY <1>4, <1>6, <1>7
<1>16. Inserted(o, c, NewRegion(b)) = g
  BY <1>1, <1>5
<1> QED
  BY <1>1, <1>11, <1>12, <1>13, <1>14, <1>15, <1>16

\* List o after its region d gave a block.
Bumped(o, d) == [o EXCEPT ![d].current_offset = @ + block_size]

\* Bumping the first region that is not full takes one fresh block.
LEMMA BumpOrder ==
  ASSUME ArenaContract, NEW o, NEW c, SoundOrder(o, c),
         NEW d \in 1..Len(o), (d = c /\ ~Full(o[c])) \/ (d = c + 1 /\ Full(o[c]))
  PROVE  /\ SoundOrder(Bumped(o, d), d)
         /\ o[d].current_offset \in Fresh(o)
         /\ Fresh(Bumped(o, d)) = Fresh(o) \ {o[d].current_offset}
         /\ \A x : Placed(x, o) => Placed(x, Bumped(o, d))
         /\ Placed(o[d].current_offset, Bumped(o, d))
<1>0. PICK p : p = Bumped(o, d)
  OBVIOUS
<1>1. PICK n \in Nat : n = Len(o)
  BY DEF SoundOrder
<1>2. /\ o \in Seq(SlabRegion) /\ c \in 0..n /\ c \in Nat
      /\ c = 0 => n = 0
      /\ \A i \in 1..n : SoundRegion(o[i])
      /\ \A i, j \in 1..n : o[i].buffer = o[j].buffer => i = j
      /\ \A i \in 1..n : i < c => Full(o[i])
      /\ \A i \in 1..n : i > c => ~Full(o[i])
  BY <1>1 DEF SoundOrder
<1>3. PICK r : r = o[d]
  OBVIOUS
<1>4. PICK s : s = [r EXCEPT !.current_offset = @ + block_size]
  OBVIOUS
<1>5. d \in 1..n /\ SoundRegion(r) /\ ~Full(r)
  BY <1>1, <1>2, <1>3
<1>6. /\ SoundRegion(s)
      /\ s.buffer = r.buffer
      /\ s.current_offset = r.current_offset + block_size
      /\ \A x : Cell(x, s) <=> Cell(x, r)
      /\ Unbumped(s) = Unbumped(r) \ {r.current_offset}
  BY <1>4, <1>5, BumpRegion
<1>7. s \in SlabRegion
  BY <1>6 DEF SoundRegion
<1>8. /\ p \in Seq(SlabRegion) /\ Len(p) = n
      /\ p[d] = s
      /\ \A i \in 1..n : i # d => p[i] = o[i]
  <2>1. p = [o EXCEPT ![d] = s]
    BY <1>0, <1>3, <1>4 DEF Bumped
  <2> QED
    BY <2>1, <1>1, <1>2, <1>5, <1>7
<1>9. r.current_offset \in Nat /\ Cell(r.current_offset, r)
      /\ r.current_offset \in Unbumped(r)
  BY <1>5, SoundFacts, FullEmpty
<1>10. SoundOrder(p, d)
  <2>1. \A i \in 1..n : SoundRegion(p[i]) /\ p[i].buffer = o[i].buffer
    BY <1>2, <1>3, <1>6, <1>8
  <2>2. ASSUME NEW i \in 1..n, i < d PROVE Full(p[i])
    <3>1. i # d /\ (i < c \/ (i = c /\ Full(o[c])))
      BY <2>2, <1>2, <1>5
    <3> QED
      BY <3>1, <1>2, <1>8
  <2>3. ASSUME NEW i \in 1..n, i > d PROVE ~Full(p[i])
    <3>1. i # d /\ i > c
      BY <2>3, <1>2, <1>5
    <3> QED
      BY <3>1, <1>2, <1>8
  <2>4. d \in 0..n /\ d # 0
    BY <1>5
  <2>5. \A i, j \in 1..n : p[i].buffer = p[j].buffer => i = j
    BY <2>1, <1>2
  <2> QED
    BY <2>1, <2>2, <2>3, <2>4, <2>5, <1>8 DEF SoundOrder
<1>11. r.current_offset \in Fresh(o)
  BY <1>1, <1>3, <1>5, <1>9, FreshMembers
<1>12. \A x : x \in Fresh(p) <=> x \in Fresh(o) /\ x # r.current_offset
  <2>1. \A x : x \in Fresh(p) <=> \E i \in 1..n : x \in Unbumped(p[i])
    BY <1>8, FreshMembers
  <2>2. \A x : x \in Fresh(o) <=> \E i \in 1..n : x \in Unbumped(o[i])
    BY <1>1, FreshMembers
  <2>3. ASSUME NEW i \in 1..n, i # d PROVE r.current_offset \notin Unbumped(o[i])
    <3> SUFFICES ASSUME r.current_offset \in Unbumped(o[i]) PROVE FALSE
      OBVIOUS
    <3>1. SoundRegion(o[i])
      BY <1>2
    <3>2. Cell(r.current_offset, o[i])
      BY <3>1, UnbumpedMembers
    <3>3. o[i].buffer = o[d].buffer
      BY <3>1, <3>2, <1>3, <1>5, <1>9, CellsApart
    <3> QED
      BY <3>3, <2>3, <1>2, <1>5
  <2>4. \A i \in 1..n : Unbumped(p[i]) = Unbumped(o[i]) \ {r.current_offset}
    BY <2>3, <1>3, <1>6, <1>8
  <2>5. ASSUME NEW x, x \in Fresh(p)
        PROVE  x \in Fresh(o) /\ x # r.current_offset
    <3>1. PICK i \in 1..n : x \in Unbumped(p[i])
      BY <2>5, <2>1
    <3>2. x \in Unbumped(o[i]) \ {r.current_offset}
      BY <3>1, <2>4
    <3> QED
      BY <3>2, <2>2
  <2>6. ASSUME NEW x, x \in Fresh(o), x # r.current_offset
        PROVE  x \in Fresh(p)
    <3>1. PICK i \in 1..n : x \in Unbumped(o[i])
      BY <2>6, <2>2
    <3>2. x \in Unbumped(p[i])
      BY <3>1, <2>6, <2>4
    <3> QED
      BY <3>2, <2>1
  <2> QED
    BY <2>5, <2>6
<1>13. Fresh(p) = Fresh(o) \ {r.current_offset}
  BY <1>12
<1>14. ASSUME NEW x, Placed(x, o) PROVE Placed(x, p)
  <2>1. PICK i \in 1..n : Cell(x, o[i]) /\ x < o[i].current_offset
    BY <1>1, <1>14 DEF Placed
  <2>2. x \in Nat
    BY <2>1 DEF Cell
  <2>3. Cell(x, p[i]) /\ x < p[i].current_offset
    BY <2>1, <2>2, <1>3, <1>6, <1>8, <1>9, BlockSize
  <2> QED
    BY <2>3, <1>8 DEF Placed
<1>15. Placed(r.current_offset, p)
  <2>1. Cell(r.current_offset, p[d]) /\ r.current_offset < p[d].current_offset
    <3>1. r.current_offset < r.current_offset + block_size
      BY <1>9, BlockSize
    <3> QED
      BY <3>1, <1>6, <1>8, <1>9
  <2> QED
    BY <2>1, <1>5, <1>8 DEF Placed
<1> QED
  BY <1>0, <1>3, <1>10, <1>11, <1>13, <1>14, <1>15

-----------------------------------------------------------------------------
(***************************************************************************)
(* The steps.                                                              *)
(***************************************************************************)

\* The free blocks are the listed and the fresh ones.
LEMMA FreeSplit ==
  /\ FreeSet = Listed \union Fresh(order)
  /\ FreeSet' = Listed' \union Fresh(order')
  BY DEF FreeSet, Listed, Fresh

\* No block is free and held.
LEMMA FreeNotLive ==
  ASSUME ArenaContract, SlabInv
  PROVE  FreeSet \intersect live = {}
<1>1. \A b \in live : b \notin Fresh(order)
  BY PlacedNotFresh DEF SlabInv, Accounts
<1> QED
  BY <1>1, FreeSplit DEF SlabInv, Accounts

\* Moving a block from one set to the other keeps the sum.
LEMMA MoveBlock ==
  ASSUME NEW F, NEW L, IsFiniteSet(F), IsFiniteSet(L), NEW b \in F, b \notin L
  PROVE  /\ IsFiniteSet(F \ {b}) /\ IsFiniteSet(L \union {b})
         /\ Cardinality(F) \in Nat \ {0} /\ Cardinality(L) \in Nat
         /\ Cardinality(F \ {b}) = Cardinality(F) - 1
         /\ Cardinality(L \union {b}) = Cardinality(L) + 1
<1>1. IsFiniteSet(F \ {b}) /\ Cardinality(F \ {b}) = Cardinality(F) - 1
  BY FS_RemoveElement
<1>2. IsFiniteSet(L \union {b}) /\ Cardinality(L \union {b}) = Cardinality(L) + 1
  BY FS_AddElement
<1>3. Cardinality(F) \in Nat /\ Cardinality(L) \in Nat
  BY FS_CardinalityType
<1>4. Cardinality(F) # 0
  BY FS_EmptySet
<1> QED
  BY <1>1, <1>2, <1>3, <1>4

\* The counters after a block is handed out.
LEMMA HandedOut ==
  ASSUME ArenaContract, SlabInv, NEW b \in FreeSet,
         FreeSet' = FreeSet \ {b}, live' = live \union {b},
         free_blocks' = free_blocks - 1, total_blocks' = total_blocks
  PROVE  /\ IsFiniteSet(FreeSet') /\ IsFiniteSet(live')
         /\ CountsExact'
         /\ free_blocks' \in Nat /\ total_blocks' \in Nat
<1>1. IsFiniteSet(FreeSet) /\ IsFiniteSet(live)
  BY DEF SlabInv, Accounts
<1>2. free_blocks = Cardinality(FreeSet) /\ total_blocks = free_blocks + Cardinality(live)
  BY DEF SlabInv, Accounts, CountsExact
<1>3. b \notin live
  BY FreeNotLive
<1>4. /\ IsFiniteSet(FreeSet') /\ IsFiniteSet(live')
      /\ Cardinality(FreeSet) \in Nat \ {0} /\ Cardinality(live) \in Nat
      /\ Cardinality(FreeSet') = Cardinality(FreeSet) - 1
      /\ Cardinality(live') = Cardinality(live) + 1
  BY <1>1, <1>3, MoveBlock
<1> QED
  BY <1>2, <1>4 DEF CountsExact

\* The counters after a block comes back.
LEMMA HandedBack ==
  ASSUME ArenaContract, SlabInv, NEW b \in live,
         FreeSet' = FreeSet \union {b}, live' = live \ {b},
         free_blocks' = free_blocks + 1, total_blocks' = total_blocks
  PROVE  /\ IsFiniteSet(FreeSet') /\ IsFiniteSet(live')
         /\ CountsExact'
         /\ free_blocks' \in Nat /\ total_blocks' \in Nat
<1>1. IsFiniteSet(FreeSet) /\ IsFiniteSet(live)
  BY DEF SlabInv, Accounts
<1>2. free_blocks = Cardinality(FreeSet) /\ total_blocks = free_blocks + Cardinality(live)
  BY DEF SlabInv, Accounts, CountsExact
<1>3. b \notin FreeSet
  BY FreeNotLive
<1>4. /\ IsFiniteSet(FreeSet') /\ IsFiniteSet(live')
      /\ Cardinality(live) \in Nat \ {0} /\ Cardinality(FreeSet) \in Nat
      /\ Cardinality(live') = Cardinality(live) - 1
      /\ Cardinality(FreeSet') = Cardinality(FreeSet) + 1
  BY <1>1, <1>3, MoveBlock
<1> QED
  BY <1>2, <1>4 DEF CountsExact

\* The counters after slab_grow.
LEMMA GrownCounts ==
  ASSUME NEW F, NEW U, IsFiniteSet(F), IsFiniteSet(U), F \intersect U = {}
  PROVE  /\ IsFiniteSet(F \union U)
         /\ Cardinality(F) \in Nat /\ Cardinality(U) \in Nat
         /\ Cardinality(F \union U) = Cardinality(F) + Cardinality(U)
<1>1. Cardinality(F) \in Nat /\ Cardinality(U) \in Nat
  BY FS_CardinalityType
<1>2. /\ IsFiniteSet(F \union U)
      /\ Cardinality(F \union U)
           = Cardinality(F) + Cardinality(U) - Cardinality(F \intersect U)
  BY FS_Union
<1>3. Cardinality(F \intersect U) = 0
  BY FS_EmptySet
<1> QED
  BY <1>1, <1>2, <1>3

-----------------------------------------------------------------------------
\* slab_allocate with a block on block_list: that block becomes live.
LEMMA TakeListedStep ==
  ASSUME ArenaContract, SlabInv, TakeListed
  PROVE  /\ SlabInv'
         /\ \E b \in FreeSet \ live :
              FreeSet' = FreeSet \ {b} /\ live' = live \union {b}
<1>1. /\ TypeOK /\ SoundOrder(order, current) /\ Accounts /\ NextRegionExists
  BY DEF SlabInv
<1>2. PICK h : h = Head(block_list)
  OBVIOUS
<1>3. /\ block_list \in Seq(Nat) /\ block_list # << >>
      /\ block_list' = Tail(block_list)
      /\ free_blocks' = free_blocks - 1
      /\ ret' = h /\ live' = live \union {h}
      /\ UNCHANGED <<state, auto_refill, order, current, total_blocks>>
  BY <1>1, <1>2 DEF TakeListed, TypeOK, Hand
<1>4. PICK n \in Nat \ {0} : n = Len(block_list)
  BY <1>3
<1>5. /\ block_list' \in Seq(Nat) /\ Len(block_list') = n - 1
      /\ \A i \in 1..(n - 1) : i + 1 \in 1..n /\ block_list'[i] = block_list[i + 1]
      /\ 1 \in 1..n /\ h = block_list[1] /\ h \in Nat
  BY <1>2, <1>3, <1>4
<1>6. \A i, j \in 1..n : block_list[i] = block_list[j] => i = j
  BY <1>1, <1>4 DEF Accounts
<1>7. \A i, j \in 1..(n - 1) : block_list'[i] = block_list'[j] => i = j
  <2> SUFFICES ASSUME NEW i \in 1..(n - 1), NEW j \in 1..(n - 1),
                      block_list'[i] = block_list'[j]
               PROVE  i = j
    OBVIOUS
  <2>1. i + 1 = j + 1
    BY <1>5, <1>6
  <2> QED
    BY <2>1
<1>8. Listed' = Listed \ {h} /\ h \in Listed
  <2>1. Listed = {block_list[i] : i \in 1..n}
    BY <1>4 DEF Listed
  <2>2. Listed' = {block_list'[i] : i \in 1..(n - 1)}
    BY <1>5 DEF Listed
  <2>3. ASSUME NEW i \in 1..(n - 1)
        PROVE  block_list'[i] \in Listed \ {h}
    <3>1. i + 1 # 1 /\ i + 1 \in 1..n
      BY <1>4
    <3>2. block_list'[i] = block_list[i + 1] /\ h = block_list[1] /\ 1 \in 1..n
      BY <1>5
    <3>3. block_list[i + 1] # h
      BY <3>1, <3>2, <1>6
    <3> QED
      BY <3>1, <3>2, <3>3, <2>1
  <2>4. ASSUME NEW x \in Listed, x # h PROVE x \in Listed'
    <3>1. PICK i \in 1..n : x = block_list[i]
      BY <2>1
    <3>2. i # 1
      BY <3>1, <2>4, <1>5
    <3>3. i - 1 \in 1..(n - 1) /\ (i - 1) + 1 = i
      BY <3>2, <1>4
    <3>4. block_list'[i - 1] = x
      BY <3>1, <3>3, <1>5
    <3> QED
      BY <3>3, <3>4, <2>2
  <2>5. h \in Listed
    BY <2>1, <1>5
  <2>6. \A x \in Listed' : x \in Listed \ {h}
    BY <2>2, <2>3
  <2> QED
    BY <2>4, <2>5, <2>6
<1>9. /\ h \notin live /\ h \notin Fresh(order)
  <2>1. Placed(h, order) /\ h \notin live
    BY <1>1, <1>8 DEF Accounts
  <2> QED
    BY <2>1, <1>1, PlacedNotFresh
<1>10. FreeSet' = FreeSet \ {h} /\ h \in FreeSet
  <2>1. order' = order
    BY <1>3
  <2> QED
    BY <2>1, <1>8, <1>9, FreeSplit
<1>11. /\ IsFiniteSet(FreeSet') /\ IsFiniteSet(live') /\ CountsExact'
       /\ free_blocks' \in Nat /\ total_blocks' \in Nat
  BY <1>3, <1>10, HandedOut
<1>12. Accounts'
  <2>1. Listed' \intersect live' = {}
    BY <1>1, <1>3, <1>8 DEF Accounts
  <2>2. \A b \in Listed' \union live' : Placed(b, order')
    BY <1>1, <1>3, <1>8 DEF Accounts
  <2>3. \A i, j \in 1..Len(block_list') : block_list'[i] = block_list'[j] => i = j
    BY <1>5, <1>7
  <2> QED
    BY <2>1, <2>2, <2>3, <1>11 DEF Accounts
<1>13. SoundOrder(order', current')
  BY <1>1, <1>3
<1>14. TypeOK' /\ NextRegionExists'
  BY <1>1, <1>3, <1>5, <1>11 DEF TypeOK, NextRegionExists
<1>15. SlabInv'
  BY <1>12, <1>13, <1>14 DEF SlabInv
<1> QED
  BY <1>3, <1>9, <1>10, <1>15

\* The state after region d of list o, with what else is free, gave a block.
LEMMA BumpedState ==
  ASSUME ArenaContract, TypeOK, NextRegionExists,
         NEW o, NEW c, SoundOrder(o, c), NEW d \in 1..Len(o),
         (d = c /\ ~Full(o[c])) \/ (d = c + 1 /\ Full(o[c])),
         BumpAt(o, d),
         block_list = << >>,
         \A b \in live : Placed(b, o),
         free_blocks' \in Nat, total_blocks' \in Nat,
         IsFiniteSet(FreeSet'), IsFiniteSet(live'), CountsExact'
  PROVE  SlabInv'
<1>1. /\ order' = Bumped(o, d)
      /\ current' = d /\ ret' = o[d].current_offset
      /\ live' = live \union {o[d].current_offset}
      /\ UNCHANGED <<state, auto_refill, block_list>>
  BY DEF BumpAt, Hand, Bumped
<1>2. /\ SoundOrder(order', current')
      /\ \A x : Placed(x, o) => Placed(x, order')
      /\ Placed(o[d].current_offset, order')
  BY <1>1, BumpOrder
<1>3. SoundRegion(o[d]) /\ o[d].current_offset \in Nat
  BY SoundFacts DEF SoundOrder
<1>4. Listed' = {} /\ block_list' = << >>
  BY <1>1 DEF Listed
<1>5. Accounts'
  <2>1. \A b \in Listed' \union live' : Placed(b, order')
    BY <1>1, <1>2, <1>4
  <2>2. \A i, j \in 1..Len(block_list') : block_list'[i] = block_list'[j] => i = j
    BY <1>4
  <2> QED
    BY <2>1, <2>2, <1>4 DEF Accounts
<1>6. order' \in Seq(SlabRegion) /\ current' \in 0..Len(order')
  BY <1>2 DEF SoundOrder
<1>7. TypeOK' /\ NextRegionExists'
  BY <1>1, <1>3, <1>6 DEF TypeOK, NextRegionExists
<1> QED
  BY <1>2, <1>5, <1>7 DEF SlabInv

\* slab_allocate with nothing listed and free_blocks above zero: current_region
\* or the next one has the block, and next_region is there when it is followed.
LEMMA TakeFreshStep ==
  ASSUME ArenaContract, SlabInv, TakeFresh
  PROVE  /\ SlabInv'
         /\ \E b \in FreeSet \ live :
              FreeSet' = FreeSet \ {b} /\ live' = live \union {b}
<1>1. /\ TypeOK /\ SoundOrder(order, current) /\ Accounts /\ NextRegionExists
  BY DEF SlabInv
<1>2. /\ block_list = << >> /\ free_blocks # 0
      /\ Bump(order, current, free_blocks, total_blocks)
  BY DEF TakeFresh
<1>3. Listed = {} /\ FreeSet = Fresh(order)
  BY <1>2, FreeSplit DEF Listed
<1>4. Fresh(order) # {}
  BY <1>1, <1>2, <1>3, FS_EmptySet DEF Accounts, CountsExact
<1>5. current \in 1..Len(order) /\ (Full(order[current]) => current < Len(order))
  BY <1>1, <1>4, NothingFresh DEF SoundOrder
<1>6. PICK d \in 1..Len(order) :
        /\ (d = current /\ ~Full(order[current])) \/ (d = current + 1 /\ Full(order[current]))
        /\ BumpAt(order, d)
        /\ free_blocks' = free_blocks - 1 /\ total_blocks' = total_blocks
  <2>1. CASE ~Full(order[current])
    BY <2>1, <1>2, <1>5 DEF Bump
  <2>2. CASE Full(order[current])
    <3>1. current < Len(order) /\ current + 1 \in 1..Len(order) /\ current # Len(order)
      BY <2>2, <1>5
    <3> QED
      BY <3>1, <2>2, <1>2 DEF Bump
  <2> QED
    BY <2>1, <2>2
<1>7. PICK b : b = order[d].current_offset
  OBVIOUS
<1>8. /\ order' = Bumped(order, d)
      /\ live' = live \union {b} /\ block_list' = << >>
  BY <1>2, <1>6, <1>7 DEF BumpAt, Hand, Bumped
<1>9. b \in Fresh(order) /\ Fresh(order') = Fresh(order) \ {b}
  <2>1. /\ order[d].current_offset \in Fresh(order)
        /\ Fresh(Bumped(order, d)) = Fresh(order) \ {order[d].current_offset}
    BY <1>1, <1>6, BumpOrder
  <2> QED
    BY <2>1, <1>7, <1>8
<1>10. b \in FreeSet /\ FreeSet' = FreeSet \ {b}
  <2>1. Listed' = {}
    BY <1>8 DEF Listed
  <2> QED
    BY <2>1, <1>3, <1>9, FreeSplit
<1>11. /\ IsFiniteSet(FreeSet') /\ IsFiniteSet(live') /\ CountsExact'
       /\ free_blocks' \in Nat /\ total_blocks' \in Nat
  BY <1>6, <1>8, <1>10, HandedOut
<1>12. \A x \in live : Placed(x, order)
  BY <1>1 DEF Accounts
<1>13. SlabInv'
  BY <1>1, <1>2, <1>6, <1>11, <1>12, BumpedState
<1> QED
  BY <1>8, <1>10, <1>13, FreeNotLive

\* What slab_grow does to the list and to the blocks it has.
LEMMA Growth ==
  ASSUME ArenaContract, SlabInv, NEW b \in AllBuffers, ~InUse(b), LargeEnough(b)
  PROVE  /\ SoundOrder(GrownOrder(b), GrownCurrent(b))
         /\ GrownCurrent(b) \in 1..Len(GrownOrder(b))
         /\ GrownCurrent(b) = current + 1
              => GrownOrder(b)[GrownCurrent(b)] = NewRegion(b)
         /\ Fresh(GrownOrder(b)) = Fresh(order) \union Unbumped(NewRegion(b))
         /\ FreeSet \intersect Unbumped(NewRegion(b)) = {}
         /\ \A x \in Listed \union live : Placed(x, GrownOrder(b))
         /\ IsFiniteSet(Unbumped(NewRegion(b)))
         /\ Slots(NewRegion(b)) \in Nat
         /\ Cardinality(Unbumped(NewRegion(b))) = Slots(NewRegion(b))
<1>1. SoundOrder(order, current) /\ Accounts
  BY DEF SlabInv
<1>2. \A i \in 1..Len(order) : order[i].buffer # b.buffer
  BY DEF InUse
<1>3. GrownOrder(b) = Inserted(order, current, NewRegion(b))
  BY DEF GrownOrder, Inserted
<1>4. GrownCurrent(b) = IF current = 0 \/ Full(order[current]) THEN current + 1 ELSE current
  BY DEF GrownCurrent
<1>5. PICK e : e = GrownCurrent(b)
  OBVIOUS
<1>6. /\ SoundOrder(GrownOrder(b), e)
      /\ Fresh(GrownOrder(b)) = Fresh(order) \union Unbumped(NewRegion(b))
      /\ Fresh(order) \intersect Unbumped(NewRegion(b)) = {}
      /\ \A x : Placed(x, order) => Placed(x, GrownOrder(b))
      /\ e \in 1..Len(GrownOrder(b))
      /\ e = current + 1 => GrownOrder(b)[e] = NewRegion(b)
  BY <1>1, <1>2, <1>3, <1>4, <1>5, GrowOrder
<1>7. \A x \in Listed \union live : Placed(x, GrownOrder(b))
  BY <1>1, <1>6 DEF Accounts
<1>8. \A x \in Unbumped(NewRegion(b)) : x \notin Listed
  <2> SUFFICES ASSUME NEW x \in Unbumped(NewRegion(b)), x \in Listed PROVE FALSE
    OBVIOUS
  <2>1. x \in Fresh(GrownOrder(b)) /\ Placed(x, GrownOrder(b))
    BY <1>6, <1>7
  <2> QED
    BY <2>1, <1>6, PlacedNotFresh
<1>9. FreeSet \intersect Unbumped(NewRegion(b)) = {}
  BY <1>6, <1>8, FreeSplit
<1>10. /\ IsFiniteSet(Unbumped(NewRegion(b)))
       /\ Slots(NewRegion(b)) \in Nat
       /\ Cardinality(Unbumped(NewRegion(b))) = Slots(NewRegion(b))
  BY NewRegionSound, UnbumpedCount
<1> QED
  BY <1>5, <1>6, <1>7, <1>9, <1>10

\* slab_allocate when it refills: nothing was free, the page becomes
\* current_region, and its first block is the one handed out.
LEMMA RefillStep ==
  ASSUME ArenaContract, SlabInv, RefillAndTake
  PROVE  /\ SlabInv'
         /\ \/ UNCHANGED <<order, block_list, live>>
            \/ /\ FreeSet = {}
               /\ \E b : b \notin live /\ b \notin FreeSet' /\ live' = live \union {b}
<1>1. /\ TypeOK /\ SoundOrder(order, current) /\ Accounts /\ NextRegionExists
  BY DEF SlabInv
<1>2. block_list = << >> /\ free_blocks = 0
  BY DEF RefillAndTake
<1>3. CASE Halt
  <2>1. state' = "halted" /\ UNCHANGED <<auto_refill, order, current, block_list,
                                         free_blocks, total_blocks, ret, live>>
    BY <1>3 DEF Halt
  <2>2. TypeOK' /\ NextRegionExists'
    BY <2>1, <1>1 DEF TypeOK, NextRegionExists
  <2>3. Accounts'
    BY <2>1, <1>1 DEF Accounts, Listed, FreeSet, CountsExact
  <2>4. SoundOrder(order', current')
    BY <2>1, <1>1
  <2> QED
    BY <2>1, <2>2, <2>3, <2>4 DEF SlabInv
<1>4. ASSUME NEW p \in Pages, ~InUse(p), LargeEnough(p),
             Bump(GrownOrder(p), GrownCurrent(p), Slots(NewRegion(p)),
                  total_blocks + Slots(NewRegion(p)))
      PROVE  /\ SlabInv' /\ FreeSet = {}
             /\ \E b : b \notin live /\ b \notin FreeSet' /\ live' = live \union {b}
  <2>1. p \in AllBuffers
    BY DEF AllBuffers
  <2>2. PICK g, e, r : g = GrownOrder(p) /\ e = GrownCurrent(p) /\ r = NewRegion(p)
    OBVIOUS
  <2>3. /\ SoundOrder(g, e)
        /\ e \in 1..Len(g)
        /\ e = current + 1 => g[e] = r
        /\ Fresh(g) = Fresh(order) \union Unbumped(r)
        /\ FreeSet \intersect Unbumped(r) = {}
        /\ \A x \in Listed \union live : Placed(x, g)
        /\ IsFiniteSet(Unbumped(r))
        /\ Slots(r) \in Nat
        /\ Cardinality(Unbumped(r)) = Slots(r)
    BY <2>1, <2>2, <1>4, Growth
  <2>4. SoundRegion(r) /\ ~Full(r)
    BY <2>1, <2>2, <1>4, NewRegionSound
  <2>5. FreeSet = {} /\ Fresh(order) = {} /\ Listed = {}
    <3>1. FreeSet = {}
      BY <1>1, <1>2, FS_EmptySet DEF Accounts, CountsExact
    <3> QED
      BY <3>1, FreeSplit
  <2>6. e = current + 1
    <3>1. current = 0 \/ Full(order[current])
      BY <2>5, <1>1, NothingFresh
    <3> QED
      BY <3>1, <2>2 DEF GrownCurrent
  <2>7. g[e] = r /\ Fresh(g) = Unbumped(r)
    BY <2>3, <2>5, <2>6
  <2>8. /\ BumpAt(g, e)
        /\ free_blocks' = Slots(r) - 1
        /\ total_blocks' = total_blocks + Slots(r)
    BY <2>2, <2>4, <2>7, <1>4 DEF Bump
  <2>9. PICK b : b = r.current_offset
    OBVIOUS
  <2>10. /\ order' = Bumped(g, e)
         /\ live' = live \union {b} /\ block_list' = << >>
    BY <2>7, <2>8, <2>9, <1>2 DEF BumpAt, Hand, Bumped
  <2>11. b \in Unbumped(r) /\ Fresh(order') = Unbumped(r) \ {b}
    <3>1. ~Full(g[e])
      BY <2>4, <2>7
    <3>2. /\ g[e].current_offset \in Fresh(g)
          /\ Fresh(Bumped(g, e)) = Fresh(g) \ {g[e].current_offset}
      BY <3>1, <2>3, BumpOrder
    <3> QED
      BY <3>2, <2>7, <2>9, <2>10
  <2>12. FreeSet' = Unbumped(r) \ {b}
    <3>1. Listed' = {}
      BY <2>10 DEF Listed
    <3> QED
      BY <3>1, <2>11, FreeSplit
  <2>13. b \notin live
    <3>1. b \in Fresh(g)
      BY <2>7, <2>11
    <3> QED
      BY <3>1, <2>3, PlacedNotFresh
  <2>14. IsFiniteSet(live) /\ total_blocks = Cardinality(live)
    <3>1. IsFiniteSet(live) /\ total_blocks = free_blocks + Cardinality(live)
      BY <1>1 DEF Accounts, CountsExact
    <3> QED
      BY <3>1, <1>2, FS_CardinalityType
  <2>15. /\ IsFiniteSet(FreeSet') /\ IsFiniteSet(live')
         /\ Slots(r) \in Nat \ {0} /\ Cardinality(live) \in Nat
         /\ Cardinality(FreeSet') = Slots(r) - 1
         /\ Cardinality(live') = Cardinality(live) + 1
    BY <2>3, <2>10, <2>11, <2>12, <2>13, <2>14, MoveBlock
  <2>16. CountsExact' /\ free_blocks' \in Nat /\ total_blocks' \in Nat
    BY <2>8, <2>14, <2>15 DEF CountsExact
  <2>17. SlabInv'
    <3>1. ~Full(g[e])
      BY <2>4, <2>7
    <3>2. \A x \in live : Placed(x, g)
      BY <2>3
    <3> QED
      BY <3>1, <3>2, <2>3, <2>8, <2>15, <2>16, <1>1, <1>2, BumpedState
  <2> QED
    BY <2>5, <2>10, <2>12, <2>13, <2>17
<1>5. Halt \/ \E p \in Pages :
        /\ ~InUse(p) /\ LargeEnough(p)
        /\ Bump(GrownOrder(p), GrownCurrent(p), Slots(NewRegion(p)),
                total_blocks + Slots(NewRegion(p)))
  BY DEF RefillAndTake
<1>6. Halt => UNCHANGED <<order, block_list, live>>
  BY DEF Halt
<1> QED
  BY <1>3, <1>4, <1>5, <1>6

\* slab_grow with a buffer that is large enough.
LEMMA GrowStep ==
  ASSUME ArenaContract, SlabInv, NEW b \in Buffers, slab_grow(b), LargeEnough(b)
  PROVE  /\ SlabInv'
         /\ FreeSet \subseteq FreeSet' /\ live' = live
<1>1. /\ TypeOK /\ SoundOrder(order, current) /\ Accounts /\ NextRegionExists
  BY DEF SlabInv
<1>2. PICK r : r = NewRegion(b)
  OBVIOUS
<1>3. /\ ~InUse(b) /\ order' = GrownOrder(b) /\ current' = GrownCurrent(b)
      /\ free_blocks' = free_blocks + Slots(r)
      /\ total_blocks' = total_blocks + Slots(r)
      /\ UNCHANGED <<state, auto_refill, block_list, ret, live>>
  BY <1>2 DEF slab_grow
<1>4. /\ SoundOrder(order', current')
      /\ Fresh(order') = Fresh(order) \union Unbumped(r)
      /\ FreeSet \intersect Unbumped(r) = {}
      /\ \A x \in Listed \union live : Placed(x, order')
      /\ IsFiniteSet(Unbumped(r))
      /\ Slots(r) \in Nat
      /\ Cardinality(Unbumped(r)) = Slots(r)
  <2>1. b \in AllBuffers
    BY DEF AllBuffers
  <2> QED
    BY <2>1, <1>2, <1>3, Growth
<1>5. Listed' = Listed
  BY <1>3 DEF Listed
<1>6. FreeSet' = FreeSet \union Unbumped(r)
  BY <1>4, <1>5, FreeSplit
<1>7. /\ IsFiniteSet(FreeSet) /\ IsFiniteSet(live)
      /\ free_blocks = Cardinality(FreeSet)
      /\ total_blocks = free_blocks + Cardinality(live)
  BY <1>1 DEF Accounts, CountsExact
<1>8. /\ IsFiniteSet(FreeSet')
      /\ Cardinality(FreeSet) \in Nat
      /\ Cardinality(FreeSet') = Cardinality(FreeSet) + Slots(r)
  BY <1>4, <1>6, <1>7, GrownCounts
<1>9. Cardinality(live) \in Nat /\ live' = live
  BY <1>3, <1>7, FS_CardinalityType
<1>10. CountsExact' /\ free_blocks' \in Nat /\ total_blocks' \in Nat
  BY <1>3, <1>4, <1>7, <1>8, <1>9 DEF CountsExact
<1>11. Accounts'
  <2>1. \A i, j \in 1..Len(block_list') : block_list'[i] = block_list'[j] => i = j
    BY <1>1, <1>3 DEF Accounts
  <2>2. Listed' \intersect live' = {} /\ \A x \in Listed' \union live' : Placed(x, order')
    BY <1>1, <1>4, <1>5, <1>9 DEF Accounts
  <2> QED
    BY <2>1, <2>2, <1>7, <1>8, <1>9, <1>10 DEF Accounts
<1>12. order' \in Seq(SlabRegion) /\ current' \in 0..Len(order')
  BY <1>4 DEF SoundOrder
<1>13. TypeOK' /\ NextRegionExists'
  BY <1>1, <1>3, <1>10, <1>12 DEF TypeOK, NextRegionExists
<1> QED
  BY <1>4, <1>6, <1>9, <1>11, <1>13 DEF SlabInv

\* slab_free: the block goes from its caller to the head of block_list.
LEMMA FreeStep ==
  ASSUME ArenaContract, SlabInv, NEW b \in live, slab_free(b)
  PROVE  /\ SlabInv'
         /\ FreeSet' = FreeSet \union {b} /\ live' = live \ {b}
<1>1. /\ TypeOK /\ SoundOrder(order, current) /\ Accounts /\ NextRegionExists
  BY DEF SlabInv
<1>2. /\ block_list' = <<b>> \o block_list
      /\ free_blocks' = free_blocks + 1 /\ live' = live \ {b}
      /\ UNCHANGED <<state, auto_refill, order, current, total_blocks, ret>>
  BY DEF slab_free
<1>3. block_list \in Seq(Nat) /\ b \in Nat
  BY <1>1 DEF TypeOK
<1>4. PICK n \in Nat : n = Len(block_list)
  BY <1>3
<1>5. /\ block_list' \in Seq(Nat) /\ Len(block_list') = n + 1
      /\ block_list'[1] = b
      /\ \A i \in 2..(n + 1) : i - 1 \in 1..n /\ block_list'[i] = block_list[i - 1]
  BY <1>2, <1>3, <1>4
<1>6. Listed = {block_list[i] : i \in 1..n}
  BY <1>4 DEF Listed
<1>7. Listed' = {block_list'[i] : i \in 1..(n + 1)}
  BY <1>5 DEF Listed
<1>8. Listed' = Listed \union {b}
  <2>1. ASSUME NEW x \in Listed' PROVE x \in Listed \union {b}
    <3>1. PICK i \in 1..(n + 1) : x = block_list'[i]
      BY <1>7
    <3>2. i = 1 \/ i \in 2..(n + 1)
      BY <1>4
    <3> QED
      BY <3>1, <3>2, <1>5, <1>6
  <2>2. b \in Listed'
    BY <1>4, <1>5, <1>7
  <2>3. ASSUME NEW x \in Listed PROVE x \in Listed'
    <3>1. PICK i \in 1..n : x = block_list[i]
      BY <1>6
    <3>2. i + 1 \in 2..(n + 1) /\ i + 1 \in 1..(n + 1) /\ (i + 1) - 1 = i
      BY <1>4
    <3> QED
      BY <3>1, <3>2, <1>5, <1>7
  <2> QED
    BY <2>1, <2>2, <2>3
<1>9. b \notin Listed
  BY <1>1 DEF Accounts
<1>10. \A i, j \in 1..(n + 1) : block_list'[i] = block_list'[j] => i = j
  <2>1. \A i, j \in 1..n : block_list[i] = block_list[j] => i = j
    BY <1>1, <1>4 DEF Accounts
  <2>2. \A i \in 1..(n + 1) : i = 1 \/ i \in 2..(n + 1)
    BY <1>4
  <2>3. \A i \in 2..(n + 1) : block_list'[i] # b
    BY <1>5, <1>6, <1>9
  <2> SUFFICES ASSUME NEW i \in 1..(n + 1), NEW j \in 1..(n + 1),
                      block_list'[i] = block_list'[j]
               PROVE  i = j
    OBVIOUS
  <2>4. CASE i = 1 \/ j = 1
    BY <2>2, <2>3, <2>4, <1>5
  <2>5. CASE i \in 2..(n + 1) /\ j \in 2..(n + 1)
    <3>1. i - 1 = j - 1
      BY <2>1, <2>5, <1>5
    <3> QED
      BY <3>1, <2>5, <1>4
  <2> QED
    BY <2>2, <2>4, <2>5
<1>11. FreeSet' = FreeSet \union {b}
  <2>1. order' = order
    BY <1>2
  <2> QED
    BY <2>1, <1>8, FreeSplit
<1>12. /\ IsFiniteSet(FreeSet') /\ IsFiniteSet(live') /\ CountsExact'
       /\ free_blocks' \in Nat /\ total_blocks' \in Nat
  BY <1>2, <1>11, HandedBack
<1>13. Accounts'
  <2>1. Listed' \intersect live' = {} /\ \A x \in Listed' \union live' : Placed(x, order')
    BY <1>1, <1>2, <1>8 DEF Accounts
  <2>2. \A i, j \in 1..Len(block_list') : block_list'[i] = block_list'[j] => i = j
    BY <1>5, <1>10
  <2> QED
    BY <2>1, <2>2, <1>12 DEF Accounts
<1>14. SoundOrder(order', current')
  BY <1>1, <1>2
<1>15. TypeOK' /\ NextRegionExists'
  BY <1>1, <1>2, <1>5, <1>12 DEF TypeOK, NextRegionExists
<1> QED
  BY <1>2, <1>11, <1>13, <1>14, <1>15 DEF SlabInv

\* Steps that touch neither the regions nor the blocks.
LEMMA QuietStep ==
  ASSUME SlabInv,
         state' \in {"reset", "up", "halted"}, auto_refill' \in BOOLEAN, ret' \in Nat,
         UNCHANGED <<order, current, block_list, free_blocks, total_blocks, live>>
  PROVE  SlabInv'
<1>1. /\ TypeOK /\ SoundOrder(order, current) /\ Accounts /\ NextRegionExists
  BY DEF SlabInv
<1>2. TypeOK' /\ NextRegionExists'
  BY <1>1 DEF TypeOK, NextRegionExists
<1>3. Accounts'
  BY <1>1 DEF Accounts, Listed, FreeSet, CountsExact
<1> QED
  BY <1>1, <1>2, <1>3 DEF SlabInv

\* Every step of the arena keeps the invariant.
LEMMA SlabStep ==
  ASSUME ArenaContract, SlabInv, [Next]_vars
  PROVE  SlabInv'
<1>1. TypeOK /\ state # "fault"
  BY DEF SlabInv, NextRegionExists
<1>2. CASE slab_init
  BY <1>1, <1>2, QuietStep DEF slab_init, TypeOK
<1>3. CASE slab_autorefill_init
  BY <1>1, <1>3, QuietStep DEF slab_autorefill_init, TypeOK
<1>4. ASSUME NEW b \in Buffers, slab_grow(b) PROVE SlabInv'
  <2>1. CASE LargeEnough(b)
    BY <1>4, <2>1, GrowStep
  <2>2. CASE ~LargeEnough(b)
    BY <1>1, <1>4, <2>2, QuietStep DEF slab_grow, Halt, TypeOK
  <2> QED
    BY <2>1, <2>2
<1>5. CASE slab_allocate
  <2>1. CASE TakeListed
    BY <2>1, TakeListedStep
  <2>2. CASE ReturnNull
    BY <1>1, <2>2, QuietStep DEF ReturnNull, TypeOK, NULL
  <2>3. CASE TakeFresh
    BY <2>3, TakeFreshStep
  <2>4. CASE RefillAndTake
    BY <2>4, RefillStep
  <2> QED
    BY <1>5, <2>1, <2>2, <2>3, <2>4 DEF slab_allocate
<1>6. ASSUME NEW b \in live, slab_free(b) PROVE SlabInv'
  BY <1>6, FreeStep
<1>7. CASE UNCHANGED vars
  BY <1>1, <1>7, QuietStep DEF vars, TypeOK
<1> QED
  BY <1>2, <1>3, <1>4, <1>5, <1>6, <1>7 DEF Next

\* The arena as slab_init finds it.
LEMMA SlabStart == Init => SlabInv
<1> SUFFICES ASSUME Init PROVE SlabInv
  OBVIOUS
<1>1. /\ state = "reset" /\ auto_refill = FALSE /\ order = << >> /\ current = 0
      /\ block_list = << >> /\ free_blocks = 0 /\ total_blocks = 0
      /\ ret = 0 /\ live = {}
  BY DEF Init, NULL
<1>2. TypeOK /\ NextRegionExists
  <2>1. order \in Seq(SlabRegion) /\ current \in 0..Len(order) /\ block_list \in Seq(Nat)
    BY <1>1
  <2> QED
    BY <1>1, <2>1 DEF TypeOK, NextRegionExists
<1>3. SoundOrder(order, current)
  BY <1>1 DEF SoundOrder
<1>4. Listed = {} /\ FreeSet = {}
  BY <1>1 DEF Listed, FreeSet
<1>5. Accounts
  BY <1>1, <1>4, FS_EmptySet DEF Accounts, CountsExact
<1> QED
  BY <1>2, <1>3, <1>5 DEF SlabInv

-----------------------------------------------------------------------------
(***************************************************************************)
(* SlabInv is an inductive invariant of every arena whose buffers hold     *)
(* whole blocks and do not overlap.                                        *)
(***************************************************************************)
THEOREM SlabSafety == ASSUME ArenaContract PROVE Spec => []SlabInv
<1>1. SlabInv /\ [Next]_vars => SlabInv'
  BY SlabStep
<1> QED
  BY <1>1, SlabStart, PTL DEF Spec

(***************************************************************************)
(* The arena's variables keep their types: free_blocks, which slab_free    *)
(* and slab_allocate count up and down, never wraps below zero.            *)
(***************************************************************************)
THEOREM SlabTyped == ASSUME ArenaContract PROVE Spec => []TypeOK
<1>1. SlabInv => TypeOK
  BY DEF SlabInv
<1> QED
  BY <1>1, SlabSafety, PTL

(***************************************************************************)
(* The comment of struct slab_alloc holds: full regions come before        *)
(* current_region, regions with free slots after it.                       *)
(***************************************************************************)
THEOREM RegionsInOrder == ASSUME ArenaContract PROVE Spec => []RegionInvariant
<1>1. SlabInv => RegionInvariant
  BY DEF SlabInv, SoundOrder, RegionInvariant
<1> QED
  BY <1>1, SlabSafety, PTL

(***************************************************************************)
(* slab_allocate never follows a next_region that is NULL: the comment     *)
(* that derives it from free_blocks > 0 is right, for free_blocks is exact.*)
(***************************************************************************)
THEOREM NextRegionIsThere == ASSUME ArenaContract PROVE Spec => []NextRegionExists
<1>1. SlabInv => NextRegionExists
  BY DEF SlabInv
<1> QED
  BY <1>1, SlabSafety, PTL

(***************************************************************************)
(* free_blocks is the number of blocks that can be handed out, and with    *)
(* the blocks callers hold it makes total_blocks.                          *)
(***************************************************************************)
THEOREM BlocksCounted == ASSUME ArenaContract PROVE Spec => []CountsExact
<1>1. SlabInv => CountsExact
  BY DEF SlabInv, Accounts
<1> QED
  BY <1>1, SlabSafety, PTL

(***************************************************************************)
(* Every block slab_allocate hands out lies in a buffer slab_grow was      *)
(* given, behind the header and before its end.                            *)
(***************************************************************************)
THEOREM BlocksStayInside == ASSUME ArenaContract PROVE Spec => []BlocksInBounds
<1>1. SlabInv => BlocksInBounds
  <2> SUFFICES ASSUME SlabInv, NEW b \in live
               PROVE  \E i \in 1..Len(order) : InRegion(b, order[i])
    BY DEF BlocksInBounds
  <2>1. PICK i \in 1..Len(order) : Cell(b, order[i])
    BY DEF SlabInv, Accounts, Placed
  <2>2. SoundRegion(order[i])
    BY DEF SlabInv, SoundOrder
  <2> QED
    BY <2>1, <2>2, CellInside
<1> QED
  BY <1>1, SlabSafety, PTL

-----------------------------------------------------------------------------
(***************************************************************************)
(* The refinement.                                                         *)
(***************************************************************************)
Apart ==
  /\ Pool!Separate(FreeSet \union live)
  /\ FreeSet \intersect live = {}

\* The blocks of the arena are its own and never overlap.
LEMMA BlocksApart ==
  ASSUME ArenaContract, SlabInv
  PROVE  Apart
<1>1. \A x \in FreeSet \union live :
        \E i \in 1..Len(order) : SoundRegion(order[i]) /\ Cell(x, order[i])
  BY FreeSplit, BlocksAreCells DEF SlabInv, Accounts
<1>2. \A x \in FreeSet \union live : OwnedByArena(x)
  BY <1>1, CellInside
<1>3. \A x, y \in FreeSet \union live : x < y => x + block_size <= y
  BY <1>1, CellsApart
<1> QED
  BY <1>2, <1>3, FreeNotLive DEF Apart, Pool!Separate

\* Every step of the arena is a step of the pool, or leaves it alone.
LEMMA PoolStep ==
  ASSUME ArenaContract, SlabInv, Apart', [Next]_vars
  PROVE  [Pool!Next]_(Pool!pool)
<1>1. ASSUME UNCHANGED <<order, block_list, live>>
      PROVE  UNCHANGED Pool!pool
  <2>1. FreeSet' = FreeSet
    BY <1>1 DEF FreeSet
  <2> QED
    BY <1>1, <2>1 DEF Pool!pool
<1>2. FreeSet' \intersect live' = {} /\ Pool!Separate(FreeSet' \union live')
  BY DEF Apart
<1>3. ASSUME \E b \in FreeSet \ live :
               FreeSet' = FreeSet \ {b} /\ live' = live \union {b}
      PROVE  Pool!Allocate
  BY <1>2, <1>3 DEF Pool!Allocate
<1>4. ASSUME NEW b \in Buffers, slab_grow(b) PROVE [Pool!Next]_(Pool!pool)
  <2>1. CASE LargeEnough(b)
    <3>1. FreeSet \subseteq FreeSet' /\ live' = live
      BY <1>4, <2>1, GrowStep
    <3>2. Pool!Grow
      BY <3>1, <1>2 DEF Pool!Grow
    <3> QED
      BY <3>2 DEF Pool!Next
  <2>2. CASE ~LargeEnough(b)
    BY <1>1, <1>4, <2>2 DEF slab_grow, Halt
  <2> QED
    BY <2>1, <2>2
<1>5. CASE slab_allocate
  <2>1. CASE TakeListed
    BY <2>1, <1>3, TakeListedStep DEF Pool!Next
  <2>2. CASE ReturnNull
    BY <2>2, <1>1 DEF ReturnNull
  <2>3. CASE TakeFresh
    BY <2>3, <1>3, TakeFreshStep DEF Pool!Next
  <2>4. CASE RefillAndTake
    <3>1. CASE UNCHANGED <<order, block_list, live>>
      BY <3>1, <1>1
    <3>2. CASE /\ FreeSet = {}
               /\ \E b : b \notin live /\ b \notin FreeSet' /\ live' = live \union {b}
      BY <3>2, <1>2 DEF Pool!Next, Pool!Allocate
    <3> QED
      BY <2>4, <3>1, <3>2, RefillStep
  <2> QED
    BY <1>5, <2>1, <2>2, <2>3, <2>4 DEF slab_allocate
<1>6. ASSUME NEW b \in live, slab_free(b) PROVE Pool!Next
  <2>1. FreeSet' = FreeSet \union {b} /\ live' = live \ {b}
    BY <1>6, FreeStep
  <2> QED
    BY <2>1 DEF Pool!Next, Pool!Free
<1>7. CASE slab_init \/ slab_autorefill_init \/ UNCHANGED vars
  BY <1>1, <1>7 DEF slab_init, slab_autorefill_init, vars
<1> QED
  BY <1>4, <1>5, <1>6, <1>7 DEF Next

(***************************************************************************)
(* The arena implements BlockPool: whatever the buffers and the order of   *)
(* calls, no block is handed out twice, blocks never overlap, and a page   *)
(* is taken from kalloc only when no block is free.                        *)
(***************************************************************************)
THEOREM ArenaImplementsPool == ASSUME ArenaContract PROVE Spec => ImplementsPool
<1>1. Init => Pool!Init
  BY DEF Init, Pool!Init, FreeSet
<1>2. SlabInv => Apart
  BY BlocksApart
<1>3. SlabInv /\ Apart' /\ [Next]_vars => [Pool!Next]_(Pool!pool)
  BY PoolStep
<1> QED
  BY <1>1, <1>2, <1>3, SlabSafety, PTL DEF Spec, ImplementsPool, Pool!Spec
=============================================================================
