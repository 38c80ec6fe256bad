----------------------------- MODULE BumpProof -----------------------------
(***************************************************************************)
(* Theorems about the bump allocator of types/bump_alloc.c, for every set  *)
(* of buffers that do not overlap and every sequence of requests.          *)
(***************************************************************************)
EXTENDS Bump, DataProof, SequenceTheorems, WellFoundedInduction, TLAPS

\* The callers' buffers do not overlap, and they ask for no alignment of 0.
BumpContract == BuffersDisjoint /\ AlignmentsPositive

\* A result of bump_allocate_aligned, with what was asked for.
Allocation == [base : Nat, size : Nat, alignment : Nat]

\* A region is one of the callers' buffers, cut from its header upwards.
SoundRegion(r) ==
  /\ r \in BumpRegion
  /\ r.base # NULL
  /\ r.base + HeaderSize <= r.offset
  /\ r.offset <= r.end
  /\ \E b \in Buffers : r.base = b.buffer /\ r.end = b.buffer + b.size

\* Largest space first, for every pair and not only for neighbours.
Sorted(u) ==
  \A i, j \in 1..Len(u) : i < j => Space(u[i]) >= Space(u[j])

\* A list of regions, each once.
SoundList(u) ==
  /\ u \in Seq(BumpRegion)
  /\ \A i \in 1..Len(u) : SoundRegion(u[i])
  /\ \A i, j \in 1..Len(u) : u[i].base = u[j].base => i = j
  /\ Sorted(u)

\* The current region c, if there is one, is not in the list u.
SoundPair(c, u) ==
  /\ c \in Seq(BumpRegion)
  /\ Len(c) <= 1
  /\ c = << >> => u = << >>
  /\ c # << >> => SoundRegion(c[1])
  /\ SoundList(u)
  /\ c # << >> => \A i \in 1..Len(u) : u[i].base # c[1].base

\* Region r is the current one or in used_list.
Member(r, c, u) ==
  \/ c # << >> /\ r = c[1]
  \/ \E i \in 1..Len(u) : r = u[i]

\* No region is lost, and none gets bytes back.
Keeps(c, u, c2, u2) ==
  \A r : Member(r, c, u) =>
    \E s : Member(s, c2, u2) /\ s.base = r.base /\ r.offset <= s.offset

\* Allocation a was cut off a region.
Placed(a, c, u) ==
  \E r : /\ Member(r, c, u)
         /\ r.base + HeaderSize <= a.base
         /\ a.base + a.size <= r.offset

\* Two blocks share no byte.
Apart(a, b) == a.base + a.size <= b.base \/ b.base + b.size <= a.base

\* Every block handed out was cut off a region, and no two meet.
SoundAllocs(c, u, al) ==
  /\ al \in Seq(Allocation)
  /\ \A i \in 1..Len(al) : Placed(al[i], c, u)
  /\ \A i, j \in 1..Len(al) : i < j => Apart(al[i], al[j])

\* The inductive invariant.
BumpInv ==
  /\ state \in {"reset", "up", "halted", "fault"}
  /\ ret \in Nat
  /\ SoundPair(current, used_list)
  /\ SoundAllocs(current, used_list, allocs)

-----------------------------------------------------------------------------
(***************************************************************************)
(* insert_into_sorted_list                                                 *)
(***************************************************************************)

\* A set of numbers that is not empty has a least element.
LEMMA LeastElement ==
  ASSUME NEW T \in SUBSET Nat, T # {}
  PROVE  Min(T) \in T /\ \A y \in T : Min(T) <= y
<1>1. PICK x \in T : \A y \in T : ~(<<y, x>> \in OpToRel(<, Nat))
  BY NatLessThanWellFounded, WFMin
<1>2. ASSUME NEW y \in T PROVE x <= y
  <2>1. x \in Nat /\ y \in Nat
    OBVIOUS
  <2>2. y < x => <<y, x>> \in OpToRel(<, Nat)
    BY <2>1 DEF OpToRel
  <2>3. ~(y < x)
    BY <2>2, <1>1, Zenon
  <2> QED
    BY <2>1, <2>3
<1> QED
  BY <1>2 DEF Min

\* List u with x behind its element c.
Inserted(u, c, x) == SubSeq(u, 1, c) \o <<x>> \o SubSeq(u, c + 1, Len(u))

\* Insertion puts one element into the list and moves no other.
LEMMA InsertedElements ==
  ASSUME NEW S, NEW u \in Seq(S), NEW c \in 0..Len(u), NEW x \in S
  PROVE  /\ Inserted(u, c, x) \in Seq(S)
         /\ Len(Inserted(u, c, x)) = Len(u) + 1
         /\ \A i \in 1..c : Inserted(u, c, x)[i] = u[i]
         /\ Inserted(u, c, x)[c + 1] = x
         /\ \A i \in (c + 1)..Len(u) : Inserted(u, c, x)[i + 1] = u[i]
<1>1. PICK n \in Nat : n = Len(u)
  OBVIOUS
<1>2. c \in Nat /\ c <= n
  BY <1>1
<1>3. PICK a, z : a = SubSeq(u, 1, c) /\ z = SubSeq(u, c + 1, Len(u))
  OBVIOUS
<1>4. /\ a \in Seq(S) /\ Len(a) = c
      /\ \A i \in 1..c : a[i] = u[i]
  BY <1>1, <1>2, <1>3
<1>5. /\ z \in Seq(S) /\ Len(z) = n - c
      /\ \A i \in 1..(n - c) : z[i] = u[c + i]
  BY <1>1, <1>2, <1>3
<1>6. PICK h : h = a \o <<x>>
  OBVIOUS
<1>7. /\ h \in Seq(S) /\ Len(h) = c + 1
      /\ \A i \in 1..c : h[i] = u[i]
      /\ h[c + 1] = x
  BY <1>2, <1>4, <1>6
<1>8. PICK g : g = Inserted(u, c, x)
  OBVIOUS
<1>9. g = h \o z
  BY <1>3, <1>6, <1>8 DEF Inserted
<1>10. /\ g \in Seq(S)
       /\ Len(g) = Len(h) + Len(z)
       /\ \A i \in 1 .. Len(h) + Len(z) :
            g[i] = IF i <= Len(h) THEN h[i] ELSE z[i - Len(h)]
  <2>1. /\ h \o z \in Seq(S)
        /\ Len(h \o z) = Len(h) + Len(z)
        /\ \A i \in 1 .. Len(h) + Len(z) :
             (h \o z)[i] = IF i <= Len(h) THEN h[i] ELSE z[i - Len(h)]
    BY <1>5, <1>7, ConcatProperties
  <2> QED
    BY <2>1, <1>9
<1>11. Len(h) = c + 1 /\ Len(z) = n - c /\ (c + 1) + (n - c) = n + 1
  BY <1>2, <1>5, <1>7
<1>12. /\ Len(g) = n + 1
       /\ \A i \in 1..(n + 1) : g[i] = IF i <= c + 1 THEN h[i] ELSE z[i - (c + 1)]
  BY <1>10, <1>11
<1>13. \A i \in 1..(c + 1) : g[i] = h[i]
  BY <1>2, <1>12
<1>14. \A i \in 1..c : g[i] = u[i]
  BY <1>2, <1>7, <1>13
<1>15. g[c + 1] = x
  BY <1>2, <1>7, <1>13
<1>16. ASSUME NEW i \in (c + 1)..n PROVE g[i + 1] = u[i]
  <2>1. /\ i + 1 \in 1..(n + 1) /\ ~(i + 1 <= c + 1)
        /\ (i + 1) - (c + 1) \in 1..(n - c) /\ c + ((i + 1) - (c + 1)) = i
    BY <1>2
  <2>2. g[i + 1] = z[(i + 1) - (c + 1)]
    BY <2>1, <1>12
  <2> QED
    BY <2>1, <2>2, <1>5
<1> QED
  BY <1>1, <1>8, <1>10, <1>12, <1>14, <1>15, <1>16

\* Where insert_into_sorted_list puts a region: behind those with more space.
LEMMA InsertPlace ==
  ASSUME NEW u \in Seq(BumpRegion), Sorted(u), NEW x \in BumpRegion
  PROVE  \E c \in 0..Len(u) :
           /\ insert_into_sorted_list(u, <<x>>) = Inserted(u, c, x)
           /\ \A i \in 1..c : Space(u[i]) >= Space(x)
           /\ \A i \in (c + 1)..Len(u) : Space(x) >= Space(u[i])
<1>1. PICK n \in Nat : n = Len(u)
  OBVIOUS
<1>2. /\ \A i \in 1..n : Space(u[i]) \in Int
      /\ Space(x) \in Int
  <2>1. \A i \in 1..n : u[i] \in BumpRegion
    BY <1>1
  <2>2. \A r \in BumpRegion : Space(r) \in Int
    BY DEF BumpRegion, Space
  <2> QED
    BY <2>1, <2>2
<1>3. PICK k : k = InsertIndex(u, x)
  OBVIOUS
<1>4. insert_into_sorted_list(u, <<x>>) = SubSeq(u, 1, k - 1) \o <<x>> \o SubSeq(u, k, Len(u))
  BY <1>3 DEF insert_into_sorted_list
<1>5. PICK T : T = {i \in 1..n : Space(u[i]) <= Space(x)}
  OBVIOUS
<1>6. k = IF T # {} THEN Min(T) ELSE n + 1
  BY <1>1, <1>3, <1>5 DEF InsertIndex
<1>7. /\ k \in 1..(n + 1)
      /\ \A i \in 1..n : i < k => Space(u[i]) >= Space(x)
      /\ \A i \in 1..n : i >= k => Space(x) >= Space(u[i])
  <2>1. CASE T = {}
    BY <2>1, <1>2, <1>5, <1>6
  <2>2. CASE T # {}
    <3>1. k \in T /\ \A y \in T : k <= y
      <4>1. T \in SUBSET Nat
        BY <1>5
      <4> QED
        BY <4>1, <2>2, <1>6, LeastElement
    <3>2. k \in 1..n /\ Space(u[k]) <= Space(x)
      BY <3>1, <1>5
    <3>3. ASSUME NEW i \in 1..n, i < k PROVE Space(u[i]) >= Space(x)
      BY <3>1, <3>2, <3>3, <1>2, <1>5
    <3>4. ASSUME NEW i \in 1..n, i >= k PROVE Space(x) >= Space(u[i])
      <4>1. i = k \/ k < i
        BY <3>2, <3>4
      <4>2. Space(u[k]) >= Space(u[i])
        BY <4>1, <3>2, <1>1, <1>2 DEF Sorted
      <4> QED
        BY <4>2, <3>2, <1>2
    <3> QED
      BY <3>2, <3>3, <3>4
  <2> QED
    BY <2>1, <2>2
<1>8. k - 1 \in 0..n /\ (k - 1) + 1 = k
  BY <1>7
<1>9. insert_into_sorted_list(u, <<x>>) = Inserted(u, k - 1, x)
  BY <1>4, <1>8 DEF Inserted
<1>10. /\ \A i \in 1..(k - 1) : Space(u[i]) >= Space(x)
       /\ \A i \in ((k - 1) + 1)..n : Space(x) >= Space(u[i])
  BY <1>7, <1>8
<1> QED
  BY <1>1, <1>8, <1>9, <1>10

\* A region that is not in a list, inserted into it.
LEMMA InsertSound ==
  ASSUME NEW u, SoundList(u), NEW x, SoundRegion(x),
         \A i \in 1..Len(u) : u[i].base # x.base,
         NEW w, w = insert_into_sorted_list(u, <<x>>)
  PROVE  /\ SoundList(w)
         /\ Len(w) = Len(u) + 1
         /\ \E j \in 1..Len(w) : w[j] = x
         /\ \A i \in 1..Len(u) : \E j \in 1..Len(w) : w[j] = u[i]
         /\ \A j \in 1..Len(w) : w[j] = x \/ \E i \in 1..Len(u) : w[j] = u[i]
<1>1. /\ u \in Seq(BumpRegion) /\ Sorted(u) /\ x \in BumpRegion
      /\ \A i \in 1..Len(u) : SoundRegion(u[i])
      /\ \A i, j \in 1..Len(u) : u[i].base = u[j].base => i = j
  BY DEF SoundList, SoundRegion
<1>2. PICK n \in Nat : n = Len(u)
  BY <1>1
<1>3. PICK c \in 0..n :
        /\ w = Inserted(u, c, x)
        /\ \A i \in 1..c : Space(u[i]) >= Space(x)
        /\ \A i \in (c + 1)..n : Space(x) >= Space(u[i])
  BY <1>1, <1>2, InsertPlace
<1>4. /\ w \in Seq(BumpRegion)
      /\ Len(w) = n + 1
      /\ \A i \in 1..c : w[i] = u[i]
      /\ w[c + 1] = x
      /\ \A i \in (c + 1)..n : w[i + 1] = u[i]
  <2>1. u \in Seq(BumpRegion) /\ c \in 0..Len(u) /\ x \in BumpRegion
    BY <1>1, <1>2
  <2>2. /\ Inserted(u, c, x) \in Seq(BumpRegion)
        /\ Len(Inserted(u, c, x)) = Len(u) + 1
        /\ \A i \in 1..c : Inserted(u, c, x)[i] = u[i]
        /\ Inserted(u, c, x)[c + 1] = x
        /\ \A i \in (c + 1)..Len(u) : Inserted(u, c, x)[i + 1] = u[i]
    <3>1. Inserted(u, c, x) \in Seq(BumpRegion)
      BY <2>1, InsertedElements
    <3>2. Len(Inserted(u, c, x)) = Len(u) + 1
      BY <2>1, InsertedElements
    <3>3. \A i \in 1..c : Inserted(u, c, x)[i] = u[i]
      BY <2>1, InsertedElements
    <3>4. Inserted(u, c, x)[c + 1] = x
      BY <2>1, InsertedElements
    <3>5. \A i \in (c + 1)..Len(u) : Inserted(u, c, x)[i + 1] = u[i]
      BY <2>1, InsertedElements
    <3> QED
      BY <3>1, <3>2, <3>3, <3>4, <3>5
  <2> QED
    BY <2>2, <1>2, <1>3
<1>5. \A i \in 1..n : /\ SoundRegion(u[i]) /\ u[i].base # x.base
                      /\ Space(u[i]) \in Int
  <2>1. \A r : SoundRegion(r) => Space(r) \in Int
    BY DEF SoundRegion, BumpRegion, Space
  <2> QED
    BY <2>1, <1>1, <1>2
<1>6. Space(x) \in Int
  BY DEF SoundRegion, BumpRegion, Space
<1>7. ASSUME NEW j \in 1..(n + 1)
      PROVE  \/ j = c + 1 /\ w[j] = x
             \/ j \in 1..c /\ j \in 1..n /\ w[j] = u[j]
             \/ /\ j - 1 \in (c + 1)..n /\ j - 1 \in 1..n /\ j > c + 1
                /\ w[j] = u[j - 1]
  <2>1. c \in Nat /\ c <= n
    BY <1>2
  <2>2. CASE j \in 1..c
    BY <2>1, <2>2, <1>4
  <2>3. CASE j = c + 1
    BY <2>3, <1>4
  <2>4. CASE j > c + 1
    <3>1. j - 1 \in (c + 1)..n /\ j - 1 \in 1..n /\ (j - 1) + 1 = j
      BY <2>1, <2>4
    <3>2. w[j] = u[j - 1]
      BY <3>1, <1>4
    <3> QED
      BY <3>1, <3>2, <2>4
  <2> QED
    BY <2>1, <2>2, <2>3, <2>4
<1>8. \A j \in 1..(n + 1) : w[j] = x \/ \E i \in 1..n : w[j] = u[i]
  BY <1>7
<1>9. ASSUME NEW i \in 1..n PROVE \E j \in 1..(n + 1) : w[j] = u[i]
  <2>1. CASE i <= c
    BY <2>1, <1>2, <1>4
  <2>2. CASE i > c
    <3>1. i \in (c + 1)..n /\ i + 1 \in 1..(n + 1)
      BY <2>2, <1>2
    <3> QED
      BY <3>1, <1>4
  <2> QED
    BY <2>1, <2>2, <1>2
<1>10. c + 1 \in 1..(n + 1)
  BY <1>2
<1>11. Sorted(w)
  <2> SUFFICES ASSUME NEW i \in 1..(n + 1), NEW j \in 1..(n + 1), i < j
               PROVE  Space(w[i]) >= Space(w[j])
    BY <1>4 DEF Sorted
  <2>1. \A p, q \in 1..n : p <= q => Space(u[p]) >= Space(u[q])
    BY <1>1, <1>2, <1>5 DEF Sorted
  <2>2. c \in Nat
    OBVIOUS
  <2>3. CASE i = c + 1
    <3>1. /\ w[i] = x /\ j - 1 \in (c + 1)..n /\ w[j] = u[j - 1]
      BY <2>2, <2>3, <1>4, <1>7
    <3> QED
      BY <3>1, <1>3
  <2>4. CASE i \in 1..c
    <3>1. i \in 1..n /\ w[i] = u[i]
      BY <2>2, <2>4, <1>7
    <3>2. CASE j = c + 1
      BY <3>1, <3>2, <2>4, <1>3, <1>4
    <3>3. CASE j # c + 1
      <4>1. PICK q \in 1..n : w[j] = u[q] /\ (q = j \/ (q = j - 1 /\ j > c + 1))
        BY <3>3, <1>7
      <4>2. i <= q
        BY <4>1, <2>2, <2>4
      <4> QED
        BY <4>1, <4>2, <3>1, <2>1
    <3> QED
      BY <3>2, <3>3
  <2>5. CASE i > c + 1
    <3>1. i - 1 \in 1..n /\ w[i] = u[i - 1]
      BY <2>2, <2>5, <1>7
    <3>2. j - 1 \in 1..n /\ w[j] = u[j - 1]
      BY <2>2, <2>5, <1>7
    <3>3. i - 1 <= j - 1
      BY <2>2
    <3> QED
      BY <3>1, <3>2, <3>3, <2>1
  <2> QED
    BY <2>2, <2>3, <2>4, <2>5
<1>12. ASSUME NEW i \in 1..(n + 1), NEW j \in 1..(n + 1), w[i].base = w[j].base
       PROVE  i = j
  <2>1. \A p, q \in 1..n : u[p].base = u[q].base => p = q
    BY <1>1, <1>2
  <2>2. c \in Nat
    OBVIOUS
  <2>3. CASE i = c + 1 \/ j = c + 1
    BY <2>3, <1>4, <1>5, <1>7, <1>12
  <2>4. CASE i # c + 1 /\ j # c + 1
    <3>1. PICK p \in 1..n :
            w[i] = u[p] /\ ((p = i /\ i \in 1..c) \/ (p = i - 1 /\ i > c + 1))
      BY <2>4, <1>7
    <3>2. PICK q \in 1..n :
            w[j] = u[q] /\ ((q = j /\ j \in 1..c) \/ (q = j - 1 /\ j > c + 1))
      BY <2>4, <1>7
    <3>3. p = q
      BY <3>1, <3>2, <2>1, <1>12
    <3> QED
      BY <3>1, <3>2, <3>3, <2>2
  <2> QED
    BY <2>3, <2>4
<1>13. \A j \in 1..(n + 1) : SoundRegion(w[j])
  BY <1>5, <1>8
<1>14. SoundList(w)
  BY <1>4, <1>11, <1>12, <1>13 DEF SoundList
<1> QED
  BY <1>2, <1>4, <1>8, <1>9, <1>10, <1>14

-----------------------------------------------------------------------------
(***************************************************************************)
(* The current region and the list.                                        *)
(***************************************************************************)

\* A sequence that stands for a pointer that is not NULL.
LEMMA OneElement ==
  ASSUME NEW c, c \in Seq(BumpRegion), Len(c) <= 1, c # << >>
  PROVE  c = <<c[1]>> /\ c[1] \in BumpRegion
<1>1. PICK n \in Nat : n = Len(c)
  OBVIOUS
<1>2. n = 1
  BY <1>1
<1>3. c[1] \in BumpRegion
  BY <1>1, <1>2
<1>4. PICK t : t = <<c[1]>>
  OBVIOUS
<1>5. t \in Seq(BumpRegion) /\ Len(t) = 1 /\ t[1] = c[1]
  BY <1>3, <1>4
<1>6. \A i \in 1..Len(c) : c[i] = t[i]
  BY <1>1, <1>2, <1>5
<1> QED
  BY <1>1, <1>2, <1>3, <1>4, <1>5, <1>6, SeqEqual

\* The numbers of a sound region.
LEMMA SoundFacts ==
  ASSUME NEW r, SoundRegion(r)
  PROVE  /\ r \in BumpRegion
         /\ r.base \in Nat \ {0} /\ r.offset \in Nat /\ r.end \in Nat
         /\ r.base + HeaderSize <= r.offset /\ r.base <= r.offset /\ r.offset <= r.end
         /\ HeaderSize \in Nat
  BY BumpAssumption DEF SoundRegion, BumpRegion, NULL

\* used_list without its head.
LEMMA TailSound ==
  ASSUME NEW u, SoundList(u), u # << >>
  PROVE  /\ SoundList(Tail(u))
         /\ SoundRegion(Head(u)) /\ Head(u) = u[1] /\ 1 \in 1..Len(u)
         /\ \A i \in 1..Len(Tail(u)) : i + 1 \in 1..Len(u) /\ Tail(u)[i] = u[i + 1]
         /\ \A i \in 1..Len(Tail(u)) : Tail(u)[i].base # Head(u).base
         /\ \A i \in 1..Len(u) :
              u[i] = Head(u) \/ \E j \in 1..Len(Tail(u)) : u[i] = Tail(u)[j]
<1>1. /\ u \in Seq(BumpRegion) /\ Sorted(u)
      /\ \A i \in 1..Len(u) : SoundRegion(u[i])
      /\ \A i, j \in 1..Len(u) : u[i].base = u[j].base => i = j
  BY DEF SoundList
<1>2. PICK n \in Nat \ {0} : n = Len(u)
  BY <1>1
<1>3. PICK t : t = Tail(u)
  OBVIOUS
<1>4. /\ t \in Seq(BumpRegion) /\ Len(t) = n - 1
      /\ \A i \in 1..(n - 1) : i + 1 \in 1..n /\ t[i] = u[i + 1]
      /\ 1 \in 1..n /\ Head(u) = u[1]
  BY <1>1, <1>2, <1>3
<1>5. \A i \in 1..(n - 1) : SoundRegion(t[i])
  BY <1>1, <1>2, <1>4
<1>6. ASSUME NEW i \in 1..(n - 1), NEW j \in 1..(n - 1), t[i].base = t[j].base
      PROVE  i = j
  <2>1. i + 1 = j + 1
    BY <1>1, <1>2, <1>4, <1>6
  <2> QED
    BY <2>1
<1>7. ASSUME NEW i \in 1..(n - 1), NEW j \in 1..(n - 1), i < j
      PROVE  Space(t[i]) >= Space(t[j])
  <2>1. i + 1 < j + 1 /\ i + 1 \in 1..n /\ j + 1 \in 1..n
    BY <1>7, <1>2
  <2> QED
    BY <2>1, <1>1, <1>2, <1>4 DEF Sorted
<1>8. SoundList(t)
  BY <1>4, <1>5, <1>6, <1>7 DEF SoundList, Sorted
<1>9. ASSUME NEW i \in 1..(n - 1) PROVE t[i].base # Head(u).base
  <2>1. i + 1 # 1
    BY <1>2
  <2> QED
    BY <2>1, <1>1, <1>2, <1>4
<1>10. ASSUME NEW i \in 1..n PROVE u[i] = Head(u) \/ \E j \in 1..(n - 1) : u[i] = t[j]
  <2>1. CASE i = 1
    BY <2>1, <1>4
  <2>2. CASE i # 1
    <3>1. i - 1 \in 1..(n - 1) /\ (i - 1) + 1 = i
      BY <2>2, <1>2
    <3> QED
      BY <3>1, <1>4
  <2> QED
    BY <2>1, <2>2
<1>11. SoundRegion(Head(u))
  BY <1>1, <1>2, <1>4
<1> QED
  BY <1>2, <1>3, <1>4, <1>8, <1>9, <1>10, <1>11

\* A new current region y, the one before it, x, put into the list.
LEMMA NewPair ==
  ASSUME NEW u, SoundList(u), NEW x, SoundRegion(x), NEW y, SoundRegion(y),
         y.base # x.base,
         \A i \in 1..Len(u) : u[i].base # x.base /\ u[i].base # y.base,
         NEW w, w = insert_into_sorted_list(u, <<x>>)
  PROVE  /\ SoundPair(<<y>>, w)
         /\ Member(y, <<y>>, w) /\ Member(x, <<y>>, w)
         /\ \A i \in 1..Len(u) : Member(u[i], <<y>>, w)
<1>1. /\ SoundList(w)
      /\ \E j \in 1..Len(w) : w[j] = x
      /\ \A i \in 1..Len(u) : \E j \in 1..Len(w) : w[j] = u[i]
      /\ \A j \in 1..Len(w) : w[j] = x \/ \E i \in 1..Len(u) : w[j] = u[i]
  BY InsertSound, SMTT(20)
<1>2. PICK c : c = <<y>>
  OBVIOUS
<1>3. c \in Seq(BumpRegion) /\ Len(c) <= 1 /\ c # << >> /\ c[1] = y
  BY <1>2, SoundFacts
<1>4. \A j \in 1..Len(w) : w[j].base # y.base
  BY <1>1
<1>5. SoundPair(c, w)
  BY <1>1, <1>3, <1>4 DEF SoundPair
<1>6. /\ Member(y, c, w) /\ Member(x, c, w)
      /\ \A i \in 1..Len(u) : Member(u[i], c, w)
  BY <1>1, <1>3 DEF Member
<1> QED
  BY <1>2, <1>5, <1>6

\* Every region of a sound pair is sound, and has its own base.
LEMMA MemberSound ==
  ASSUME NEW c, NEW u, SoundPair(c, u), NEW r, NEW s, Member(r, c, u), Member(s, c, u)
  PROVE  SoundRegion(r) /\ (r.base = s.base => r = s)
  BY DEF SoundPair, SoundList, Member

\* Two regions are the same or share no byte.
LEMMA RegionsSeparate ==
  ASSUME BumpContract, NEW r, NEW s, SoundRegion(r), SoundRegion(s), r.base # s.base
  PROVE  r.end <= s.base \/ s.end <= r.base
<1>1. PICK b \in Buffers : r.base = b.buffer /\ r.end = b.buffer + b.size
  BY DEF SoundRegion
<1>2. PICK d \in Buffers : s.base = d.buffer /\ s.end = d.buffer + d.size
  BY DEF SoundRegion
<1> QED
  BY <1>1, <1>2 DEF BumpContract, BuffersDisjoint

\* Allocations stay where they are while regions are exchanged or added.
LEMMA AllocsKept ==
  ASSUME NEW c, NEW u, NEW c2, NEW u2, NEW al, SoundPair(c, u), SoundPair(c2, u2),
         SoundAllocs(c, u, al), Keeps(c, u, c2, u2)
  PROVE  SoundAllocs(c2, u2, al)
<1>1. ASSUME NEW i \in 1..Len(al) PROVE Placed(al[i], c2, u2)
  <2>1. PICK r : /\ Member(r, c, u)
                 /\ r.base + HeaderSize <= al[i].base
                 /\ al[i].base + al[i].size <= r.offset
    BY DEF SoundAllocs, Placed
  <2>2. PICK s : Member(s, c2, u2) /\ s.base = r.base /\ r.offset <= s.offset
    BY <2>1 DEF Keeps
  <2>3. r.offset \in Nat /\ s.offset \in Nat
    BY <2>1, <2>2, MemberSound, SoundFacts
  <2>4. al[i].base \in Nat /\ al[i].size \in Nat
    <3>1. al[i] \in Allocation
      BY DEF SoundAllocs
    <3> QED
      BY <3>1 DEF Allocation
  <2> QED
    BY <2>1, <2>2, <2>3, <2>4 DEF Placed
<1> QED
  BY <1>1 DEF SoundAllocs

\* A block cut off region r, which goes on as s, meets no other block.
LEMMA AllocAdded ==
  ASSUME BumpContract,
         NEW c, NEW u, NEW c2, NEW u2, NEW al, SoundPair(c, u), SoundPair(c2, u2),
         SoundAllocs(c, u, al), Keeps(c, u, c2, u2),
         NEW a \in Allocation,
         NEW r, Member(r, c, u), r.offset <= a.base, a.base + a.size <= r.end,
         NEW s, Member(s, c2, u2), s.base = r.base, s.offset = a.base + a.size
  PROVE  SoundAllocs(c2, u2, Append(al, a))
<1>1. /\ SoundAllocs(c2, u2, al)
      /\ al \in Seq(Allocation)
      /\ \A i \in 1..Len(al) : Placed(al[i], c2, u2)
      /\ \A i, j \in 1..Len(al) : i < j => Apart(al[i], al[j])
  BY AllocsKept DEF SoundAllocs
<1>2. PICK n \in Nat : n = Len(al)
  BY <1>1
<1>3. PICK z : z = Append(al, a)
  OBVIOUS
<1>4. /\ z \in Seq(Allocation) /\ Len(z) = n + 1 /\ z[n + 1] = a
      /\ \A i \in 1..n : z[i] = al[i]
  BY <1>1, <1>2, <1>3
<1>5. /\ SoundRegion(r)
      /\ r.base \in Nat /\ r.offset \in Nat /\ r.end \in Nat /\ HeaderSize \in Nat
      /\ r.base + HeaderSize <= r.offset /\ r.base <= r.offset
  BY MemberSound, SoundFacts
<1>6. a.base \in Nat /\ a.size \in Nat
  BY DEF Allocation
<1>7. Placed(a, c2, u2)
  <2>1. s.base + HeaderSize <= a.base /\ a.base + a.size <= s.offset
    BY <1>5, <1>6
  <2> QED
    BY <2>1 DEF Placed
<1>8. ASSUME NEW i \in 1..n PROVE Apart(al[i], a)
  <2>1. PICK q : /\ Member(q, c, u)
                 /\ q.base + HeaderSize <= al[i].base
                 /\ al[i].base + al[i].size <= q.offset
    BY <1>2 DEF SoundAllocs, Placed
  <2>2. /\ SoundRegion(q)
        /\ q.base \in Nat /\ q.offset \in Nat /\ q.end \in Nat /\ q.offset <= q.end
    BY <2>1, MemberSound, SoundFacts
  <2>3. al[i].base \in Nat /\ al[i].size \in Nat
    <3>1. al[i] \in Allocation
      BY <1>1, <1>2
    <3> QED
      BY <3>1 DEF Allocation
  <2>4. CASE q.base = r.base
    <3>1. q = r
      BY <2>1, <2>4, MemberSound
    <3> QED
      BY <3>1, <2>1, <2>3, <1>5, <1>6 DEF Apart
  <2>5. CASE q.base # r.base
    <3>1. q.end <= r.base \/ r.end <= q.base
      BY <2>2, <2>5, <1>5, RegionsSeparate
    <3> QED
      BY <3>1, <2>1, <2>2, <2>3, <1>5, <1>6 DEF Apart
  <2> QED
    BY <2>4, <2>5
<1>9. \A i \in 1..(n + 1) : i = n + 1 \/ i \in 1..n
  BY <1>2
<1>10. \A i \in 1..(n + 1) : Placed(z[i], c2, u2)
  BY <1>1, <1>2, <1>4, <1>7, <1>9
<1>11. ASSUME NEW i \in 1..(n + 1), NEW j \in 1..(n + 1), i < j
       PROVE  Apart(z[i], z[j])
  <2>1. i \in 1..n
    BY <1>2, <1>11
  <2>2. CASE j = n + 1
    BY <2>1, <2>2, <1>4, <1>8
  <2>3. CASE j \in 1..n
    BY <2>1, <2>3, <1>1, <1>2, <1>4, <1>11
  <2> QED
    BY <2>2, <2>3, <1>9
<1> QED
  BY <1>3, <1>4, <1>10, <1>11 DEF SoundAllocs

-----------------------------------------------------------------------------
(***************************************************************************)
(* The steps.                                                              *)
(***************************************************************************)

\* The current region goes on as y, the list stays.
LEMMA CutPair ==
  ASSUME SoundPair(current, used_list), current # << >>,
         NEW y, SoundRegion(y), y.base = current[1].base,
         current[1].offset <= y.offset,
         current' = <<y>>, used_list' = used_list
  PROVE  /\ SoundPair(current', used_list')
         /\ Keeps(current, used_list, current', used_list')
         /\ Member(y, current', used_list')
<1>1. current' \in Seq(BumpRegion) /\ Len(current') <= 1 /\ current' # << >>
      /\ current'[1] = y
  BY SoundFacts
<1>2. SoundPair(current', used_list')
  BY <1>1 DEF SoundPair
<1>3. Member(y, current', used_list')
  BY <1>1 DEF Member
<1>4. ASSUME NEW r, Member(r, current, used_list)
      PROVE  \E s : /\ Member(s, current', used_list') /\ s.base = r.base
                    /\ r.offset <= s.offset
  <2>1. CASE r = current[1]
    BY <2>1, <1>3
  <2>2. CASE \E i \in 1..Len(used_list) : r = used_list[i]
    <3>1. Member(r, current', used_list') /\ r.offset \in Nat
      BY <2>2, <1>4, MemberSound, SoundFacts DEF Member
    <3> QED
      BY <3>1
  <2> QED
    BY <1>4, <2>1, <2>2 DEF Member
<1> QED
  BY <1>2, <1>3, <1>4 DEF Keeps

\* The head of used_list goes on as y, the current one, and the region that
\* was current is put into the list.
LEMMA SwapPair ==
  ASSUME SoundPair(current, used_list), current # << >>, used_list # << >>,
         NEW y, SoundRegion(y), y.base = Head(used_list).base,
         Head(used_list).offset <= y.offset,
         current' = <<y>>,
         used_list' = insert_into_sorted_list(Tail(used_list), current)
  PROVE  /\ SoundPair(current', used_list')
         /\ Keeps(current, used_list, current', used_list')
         /\ Member(y, current', used_list')
<1>1. PICK x : x = current[1]
  OBVIOUS
<1>2. /\ SoundList(used_list) /\ SoundRegion(x) /\ current = <<x>>
      /\ \A i \in 1..Len(used_list) : used_list[i].base # x.base
  BY <1>1, OneElement DEF SoundPair
<1>3. PICK t, h : t = Tail(used_list) /\ h = Head(used_list)
  OBVIOUS
<1>4. /\ SoundList(t)
      /\ h = used_list[1] /\ 1 \in 1..Len(used_list)
      /\ \A i \in 1..Len(t) : i + 1 \in 1..Len(used_list) /\ t[i] = used_list[i + 1]
      /\ \A i \in 1..Len(t) : t[i].base # h.base
      /\ \A i \in 1..Len(used_list) :
           used_list[i] = h \/ \E j \in 1..Len(t) : used_list[i] = t[j]
  BY <1>2, <1>3, TailSound
<1>5. y.base # x.base /\ \A i \in 1..Len(t) : t[i].base # x.base /\ t[i].base # y.base
  BY <1>2, <1>3, <1>4
<1>6. used_list' = insert_into_sorted_list(t, <<x>>)
  BY <1>2, <1>3
<1>7. /\ SoundPair(current', used_list')
      /\ Member(y, current', used_list') /\ Member(x, current', used_list')
      /\ \A i \in 1..Len(t) : Member(t[i], current', used_list')
  <2>1. /\ SoundPair(<<y>>, used_list')
        /\ Member(y, <<y>>, used_list') /\ Member(x, <<y>>, used_list')
        /\ \A i \in 1..Len(t) : Member(t[i], <<y>>, used_list')
    BY <1>2, <1>4, <1>5, <1>6, NewPair
  <2> QED
    BY <2>1
<1>8. ASSUME NEW r, Member(r, current, used_list)
      PROVE  \E s : /\ Member(s, current', used_list') /\ s.base = r.base
                    /\ r.offset <= s.offset
  <2>1. r.offset \in Nat
    BY <1>8, MemberSound, SoundFacts
  <2>2. CASE r = h
    BY <2>2, <1>3, <1>7
  <2>3. CASE Member(r, current', used_list')
    BY <2>1, <2>3
  <2>4. r = x \/ \E i \in 1..Len(used_list) : r = used_list[i]
    BY <1>1, <1>8 DEF Member
  <2> QED
    BY <2>2, <2>3, <2>4, <1>4, <1>7
<1> QED
  BY <1>7, <1>8 DEF Keeps

\* A new buffer becomes the current region.
LEMMA GrowPair ==
  ASSUME BumpContract, BumpInv, NEW b \in Buffers, bump_grow(b), b.size >= PageSize
  PROVE  /\ SoundPair(current', used_list')
         /\ Keeps(current, used_list, current', used_list')
<1>1. PICK y : y = [base |-> b.buffer, offset |-> b.buffer + HeaderSize,
                    end |-> b.buffer + b.size]
  OBVIOUS
<1>2. /\ b.buffer \in Nat \ {0} /\ b.size \in Nat /\ PageSize \in Nat
      /\ HeaderSize \in Nat /\ HeaderSize <= PageSize
  BY BumpAssumption
<1>3. ~(b.size < PageSize)
  BY <1>2
<1>4. /\ current' = <<y>>
      /\ used_list' = insert_into_sorted_list(used_list, current)
      /\ ~InUse(b)
  BY <1>1, <1>3 DEF bump_grow
<1>5. SoundRegion(y) /\ y.base = b.buffer
  <2>1. /\ b.buffer + HeaderSize \in Nat /\ b.buffer + b.size \in Nat
        /\ b.buffer + HeaderSize <= b.buffer + b.size
    BY <1>2
  <2> QED
    BY <2>1, <1>1, <1>2 DEF SoundRegion, BumpRegion, NULL
<1>6. SoundPair(current, used_list) /\ current \in Seq(BumpRegion)
      /\ used_list \in Seq(BumpRegion)
  BY DEF BumpInv, SoundPair, SoundList
<1>7. /\ current # << >> => current[1].base # b.buffer
      /\ \A i \in 1..Len(used_list) : used_list[i].base # b.buffer
  <2>1. \A i \in 1..Len(current \o used_list) :
          (current \o used_list)[i].base # b.buffer
    BY <1>4 DEF InUse
  <2>2. ASSUME current # << >> PROVE current[1].base # b.buffer
    <3>1. 1 \in 1..Len(current \o used_list) /\ (current \o used_list)[1] = current[1]
      BY <2>2, <1>6
    <3> QED
      BY <3>1, <2>1
  <2>3. ASSUME NEW i \in 1..Len(used_list) PROVE used_list[i].base # b.buffer
    <3>1. /\ Len(current) + i \in 1..Len(current \o used_list)
          /\ (current \o used_list)[Len(current) + i] = used_list[i]
      BY <1>6
    <3> QED
      BY <3>1, <2>1
  <2> QED
    BY <2>2, <2>3
<1>8. CASE current = << >>
  <2>1. used_list = << >> /\ used_list' = << >>
    BY <1>4, <1>6, <1>8 DEF SoundPair, insert_into_sorted_list
  <2>2. current' \in Seq(BumpRegion) /\ Len(current') <= 1 /\ current' # << >>
        /\ current'[1] = y
    BY <1>4, <1>5, SoundFacts
  <2>3. SoundPair(current', used_list')
    BY <2>1, <2>2, <1>5, <1>6 DEF SoundPair
  <2>4. Keeps(current, used_list, current', used_list')
    BY <2>1, <1>8 DEF Keeps, Member
  <2> QED
    BY <2>3, <2>4
<1>9. CASE current # << >>
  <2>1. PICK x : x = current[1]
    OBVIOUS
  <2>2. /\ SoundList(used_list) /\ SoundRegion(x) /\ current = <<x>>
        /\ \A i \in 1..Len(used_list) : used_list[i].base # x.base
    BY <2>1, <1>6, <1>9, OneElement DEF SoundPair
  <2>3. used_list' = insert_into_sorted_list(used_list, <<x>>)
    BY <2>2, <1>4
  <2>4. /\ SoundPair(<<y>>, used_list')
        /\ Member(x, <<y>>, used_list')
        /\ \A i \in 1..Len(used_list) : Member(used_list[i], <<y>>, used_list')
    BY <2>1, <2>2, <2>3, <1>5, <1>7, <1>9, NewPair
  <2>5. ASSUME NEW r, Member(r, current, used_list)
        PROVE  Member(r, current', used_list') /\ r.offset \in Nat
    BY <2>1, <2>4, <2>5, <1>4, <1>6, MemberSound, SoundFacts DEF Member
  <2> QED
    BY <2>4, <2>5, <1>4 DEF Keeps
<1> QED
  BY <1>8, <1>9

\* What a caller may ask for: nothing, or bytes at an alignment of a request.
Servable(size, alignment) ==
  /\ size \in Nat /\ alignment \in Nat
  /\ size > 0 => \/ alignment = 1
                 \/ \E q \in Requests : q.size > 0 /\ q.alignment = alignment

\* Every request of Next is one of those.
LEMMA RequestsServable ==
  ASSUME NEW q \in Requests
  PROVE  Servable(q.size, q.alignment) /\ Servable(q.size, 1)
  BY BumpAssumption DEF Servable

\* Where the result lies in region r, and what is left of it.
LEMMA CutSound ==
  ASSUME BumpContract, NEW r, SoundRegion(r), NEW size, NEW alignment,
         Servable(size, alignment), size > 0, Fits(r, size, alignment),
         NEW v, v = ALIGN_UP(r.offset, alignment),
         NEW y, y = [r EXCEPT !.offset = v + size]
  PROVE  /\ v \in Nat /\ v # NULL /\ r.offset <= v /\ v + size <= r.end
         /\ SoundRegion(y) /\ y.base = r.base /\ y.offset = v + size
         /\ r.offset <= y.offset
<1>1. PICK b \in Buffers : r.base = b.buffer /\ r.end = b.buffer + b.size
  BY DEF SoundRegion
<1>2. /\ r.base \in Nat \ {0} /\ r.offset \in Nat /\ r.end \in Nat
      /\ r.base + HeaderSize <= r.offset /\ r.base <= r.offset /\ r.offset <= r.end
      /\ HeaderSize \in Nat
  BY SoundFacts
<1>4. v \in Nat /\ r.offset <= v
  <2>1. alignment \in Nat \ {0}
    BY BumpAssumption DEF BumpContract, AlignmentsPositive, Servable
  <2> QED
    BY <2>1, <1>2, AlignUpNotLower
<1>5. v + size <= r.end /\ size \in Nat
  BY DEF Fits, Servable
<1>6. /\ y = [base |-> r.base, offset |-> v + size, end |-> r.end]
  BY DEF SoundRegion, BumpRegion
<1>7. /\ v + size \in Nat /\ r.base + HeaderSize <= v + size
      /\ r.offset <= v + size /\ v # 0
  BY <1>2, <1>4, <1>5
<1>8. SoundRegion(y)
  BY <1>1, <1>2, <1>5, <1>6, <1>7 DEF SoundRegion, BumpRegion, NULL
<1> QED
  BY <1>4, <1>5, <1>6, <1>7, <1>8 DEF NULL

\* The variables after a block was cut off region r.
LEMMA CutStep ==
  ASSUME BumpContract, BumpInv, NEW size, NEW alignment,
         Servable(size, alignment), size > 0,
         NEW r, Member(r, current, used_list), Fits(r, size, alignment),
         Cut(r, size, alignment),
         NEW y, y = [r EXCEPT !.offset = ALIGN_UP(r.offset, alignment) + size],
         SoundPair(current', used_list'),
         Keeps(current, used_list, current', used_list'),
         Member(y, current', used_list')
  PROVE  BumpInv'
<1>1. PICK v : v = ALIGN_UP(r.offset, alignment)
  OBVIOUS
<1>2. SoundPair(current, used_list) /\ SoundAllocs(current, used_list, allocs)
  BY DEF BumpInv
<1>3. SoundRegion(r)
  BY <1>2, MemberSound
<1>4. /\ v \in Nat /\ r.offset <= v /\ v + size <= r.end
      /\ y.base = r.base /\ y.offset = v + size
  BY <1>1, <1>3, CutSound
<1>5. PICK a : a = [base |-> v, size |-> size, alignment |-> alignment]
  OBVIOUS
<1>6. a \in Allocation /\ a.base = v /\ a.size = size
  BY <1>4, <1>5 DEF Allocation, Servable
<1>7. ret' = v /\ allocs' = Append(allocs, a) /\ state' = state
  BY <1>1, <1>5 DEF Cut
<1>8. SoundAllocs(current', used_list', Append(allocs, a))
  BY <1>2, <1>4, <1>6, AllocAdded
<1> QED
  BY <1>4, <1>7, <1>8 DEF BumpInv

\* The variables after a step that cuts nothing.
LEMMA KeepStep ==
  ASSUME BumpInv, state' \in {"reset", "up", "halted", "fault"}, ret' \in Nat,
         SoundPair(current', used_list'),
         Keeps(current, used_list, current', used_list'),
         allocs' = allocs
  PROVE  BumpInv'
  BY AllocsKept DEF BumpInv

\* Nothing moved.
LEMMA QuietStep ==
  ASSUME BumpInv, state' \in {"reset", "up", "halted", "fault"}, ret' \in Nat,
         current' = current, used_list' = used_list, allocs' = allocs
  PROVE  BumpInv' /\ Keeps(current, used_list, current', used_list')
<1>1. SoundPair(current, used_list) /\ SoundAllocs(current, used_list, allocs)
  BY DEF BumpInv
<1>2. \A r : Member(r, current, used_list) => r.offset \in Nat
  BY <1>1, MemberSound, SoundFacts
<1>3. Keeps(current, used_list, current', used_list')
  BY <1>2 DEF Keeps
<1> QED
  BY <1>1, <1>3 DEF BumpInv

\* bump_allocate_aligned, whichever way it goes.
LEMMA AllocateStep ==
  ASSUME BumpContract, BumpInv, NEW size, NEW alignment,
         Servable(size, alignment), bump_allocate_aligned(size, alignment)
  PROVE  BumpInv' /\ Keeps(current, used_list, current', used_list')
<1>1. /\ SoundPair(current, used_list) /\ size \in Nat
      /\ state \in {"reset", "up", "halted", "fault"} /\ ret \in Nat
  BY DEF BumpInv, Servable
<1>2. CASE ReturnNull
  BY <1>1, <1>2, QuietStep DEF ReturnNull, NULL
<1>3. CASE Fault
  BY <1>1, <1>3, QuietStep DEF Fault
<1>4. CASE /\ size # 0 /\ current # << >> /\ Fits(current[1], size, alignment)
           /\ Cut(current[1], size, alignment) /\ UNCHANGED used_list
  <2>1. PICK r : r = current[1]
    OBVIOUS
  <2>2. PICK v : v = ALIGN_UP(r.offset, alignment)
    OBVIOUS
  <2>3. PICK y : y = [r EXCEPT !.offset = v + size]
    OBVIOUS
  <2>4. Member(r, current, used_list) /\ SoundRegion(r) /\ size > 0
    BY <2>1, <1>1, <1>4 DEF Member, SoundPair
  <2>5. /\ SoundRegion(y) /\ y.base = r.base /\ r.offset <= y.offset
    BY <2>1, <2>2, <2>3, <2>4, <1>4, CutSound
  <2>6. current' = <<y>> /\ used_list' = used_list
    BY <2>1, <2>2, <2>3, <1>4 DEF Cut
  <2>7. /\ SoundPair(current', used_list')
        /\ Keeps(current, used_list, current', used_list')
        /\ Member(y, current', used_list')
    BY <2>1, <2>5, <2>6, <1>1, <1>4, CutPair
  <2>8. /\ y = [r EXCEPT !.offset = ALIGN_UP(r.offset, alignment) + size]
        /\ Fits(r, size, alignment) /\ Cut(r, size, alignment)
    BY <2>1, <2>2, <2>3, <1>4
  <2> QED
    BY <2>4, <2>7, <2>8, CutStep
<1>5. CASE size # 0 /\ current # << >> /\ Swap(size, alignment)
  <2>1. PICK h : h = Head(used_list)
    OBVIOUS
  <2>2. /\ used_list # << >>
        /\ used_list' = insert_into_sorted_list(Tail(used_list), current)
        /\ \/ Fits(h, size, alignment) /\ Cut(h, size, alignment)
           \/ current' = <<h>> /\ ret' = NULL /\ UNCHANGED <<state, allocs>>
    BY <2>1, <1>5 DEF Swap
  <2>3. /\ SoundRegion(h) /\ Member(h, current, used_list)
    BY <2>1, <2>2, <1>1, TailSound DEF SoundPair, Member
  <2>4. CASE current' = <<h>> /\ ret' = NULL /\ UNCHANGED <<state, allocs>>
    <3>1. h.offset <= h.offset
      BY <2>3, SoundFacts
    <3>2. /\ SoundPair(current', used_list')
          /\ Keeps(current, used_list, current', used_list')
      BY <3>1, <2>1, <2>2, <2>3, <2>4, <1>1, <1>5, SwapPair
    <3> QED
      BY <3>2, <2>4, <1>1, KeepStep DEF NULL
  <2>5. CASE Fits(h, size, alignment) /\ Cut(h, size, alignment)
    <3>1. PICK v : v = ALIGN_UP(h.offset, alignment)
      OBVIOUS
    <3>2. PICK y : y = [h EXCEPT !.offset = v + size]
      OBVIOUS
    <3>3. size > 0
      BY <1>1, <1>5
    <3>4. /\ SoundRegion(y) /\ y.base = h.base /\ h.offset <= y.offset
      BY <3>1, <3>2, <3>3, <2>3, <2>5, CutSound
    <3>5. current' = <<y>>
      BY <3>1, <3>2, <2>5 DEF Cut
    <3>6. /\ SoundPair(current', used_list')
          /\ Keeps(current, used_list, current', used_list')
          /\ Member(y, current', used_list')
      BY <3>4, <3>5, <2>1, <2>2, <1>1, <1>5, SwapPair
    <3>7. y = [h EXCEPT !.offset = ALIGN_UP(h.offset, alignment) + size]
      BY <3>1, <3>2
    <3> QED
      BY <3>3, <3>6, <3>7, <2>3, <2>5, CutStep
  <2> QED
    BY <2>2, <2>4, <2>5
<1> QED
  BY <1>2, <1>3, <1>4, <1>5 DEF bump_allocate_aligned

\* Every step of the allocator keeps the invariant and the regions.
LEMMA BumpStep ==
  ASSUME BumpContract, BumpInv, [Next]_vars
  PROVE  BumpInv' /\ Keeps(current, used_list, current', used_list')
<1>1. state \in {"reset", "up", "halted", "fault"} /\ ret \in Nat
  BY DEF BumpInv
<1>2. CASE bump_initialize
  BY <1>1, <1>2, QuietStep DEF bump_initialize
<1>3. ASSUME NEW b \in Buffers, bump_grow(b)
      PROVE  BumpInv' /\ Keeps(current, used_list, current', used_list')
  <2>1. CASE b.size >= PageSize
    <3>1. /\ SoundPair(current', used_list')
          /\ Keeps(current, used_list, current', used_list')
      BY <2>1, <1>3, GrowPair
    <3>2. state' = state /\ ret' = ret /\ allocs' = allocs
      <4>1. ~(b.size < PageSize)
        BY <2>1, BumpAssumption
      <4> QED
        BY <4>1, <1>3 DEF bump_grow
    <3> QED
      BY <3>1, <3>2, <1>1, KeepStep
  <2>2. CASE ~(b.size >= PageSize)
    BY <2>2, <1>1, <1>3, QuietStep DEF bump_grow, Halt
  <2> QED
    BY <2>1, <2>2
<1>4. ASSUME NEW q \in Requests, bump_allocate_aligned(q.size, q.alignment)
      PROVE  BumpInv' /\ Keeps(current, used_list, current', used_list')
  BY <1>4, RequestsServable, AllocateStep
<1>5. ASSUME NEW q \in Requests, bump_allocate(q.size)
      PROVE  BumpInv' /\ Keeps(current, used_list, current', used_list')
  BY <1>5, RequestsServable, AllocateStep DEF bump_allocate
<1>6. CASE UNCHANGED vars
  BY <1>1, <1>6, QuietStep DEF vars
<1> QED
  BY <1>2, <1>3, <1>4, <1>5, <1>6 DEF Next

\* The allocator before bump_initialize.
LEMMA BumpStart == Init => BumpInv
<1> SUFFICES ASSUME Init PROVE BumpInv
  OBVIOUS
<1>1. /\ state = "reset" /\ current = << >> /\ used_list = << >> /\ ret = 0
      /\ allocs = << >>
  BY DEF Init, NULL
<1>2. SoundList(used_list)
  BY <1>1 DEF SoundList, Sorted
<1>3. SoundPair(current, used_list)
  BY <1>1, <1>2 DEF SoundPair
<1>4. SoundAllocs(current, used_list, allocs)
  BY <1>1 DEF SoundAllocs
<1> QED
  BY <1>1, <1>3, <1>4 DEF BumpInv

-----------------------------------------------------------------------------
(***************************************************************************)
(* BumpInv is an inductive invariant of the allocator.                     *)
(***************************************************************************)
THEOREM BumpSafety == ASSUME BumpContract PROVE Spec => []BumpInv
<1>1. BumpInv /\ [Next]_vars => BumpInv'
  BY BumpStep
<1> QED
  BY <1>1, BumpStart, PTL DEF Spec

\* The current region and the list, as Regions has them.
Joined(c, u) == c \o u

\* The regions, current first, are the members of the pair, each once.
LEMMA RegionsAre ==
  ASSUME NEW c, NEW u, SoundPair(c, u)
  PROVE  /\ \A i \in 1..Len(Joined(c, u)) : Member(Joined(c, u)[i], c, u)
         /\ \A r : Member(r, c, u) => \E i \in 1..Len(Joined(c, u)) : Joined(c, u)[i] = r
         /\ \A i, j \in 1..Len(Joined(c, u)) :
              Joined(c, u)[i].base = Joined(c, u)[j].base => i = j
<1> DEFINE z == Joined(c, u)
<1> HIDE DEF z
<1>1. /\ c \in Seq(BumpRegion) /\ u \in Seq(BumpRegion) /\ Len(c) <= 1
      /\ \A i, j \in 1..Len(u) : u[i].base = u[j].base => i = j
      /\ c # << >> => \A i \in 1..Len(u) : u[i].base # c[1].base
  BY DEF SoundPair, SoundList
<1>2. CASE c = << >>
  <2>1. Len(z) = 0
    BY <1>2 DEF SoundPair, Joined, z
  <2>2. Len(u) = 0
    BY <1>2 DEF SoundPair
  <2> QED
    BY <2>1, <2>2, <1>2 DEF Member, z
<1>3. CASE c # << >>
  <2>1. PICK m \in Nat, n \in Nat : m = Len(u) /\ n = Len(z)
    BY <1>1 DEF z, Joined
  <2>2. Len(c) = 1
    <3>1. PICK k \in Nat : k = Len(c)
      BY <1>1
    <3>2. k # 0
      BY <3>1, <1>1, <1>3
    <3> QED
      BY <3>1, <3>2, <1>1
  <2>3. /\ n = m + 1 /\ z[1] = c[1]
        /\ \A i \in 1..m : z[i + 1] = u[i]
    <3>1. /\ Len(c \o u) = Len(c) + Len(u)
          /\ \A i \in 1 .. Len(c) + Len(u) :
               (c \o u)[i] = IF i <= Len(c) THEN c[i] ELSE u[i - Len(c)]
      BY <1>1, ConcatProperties
    <3>2. /\ Len(z) = 1 + m
          /\ \A i \in 1..(1 + m) : z[i] = IF i <= 1 THEN c[i] ELSE u[i - 1]
      BY <3>1, <2>1, <2>2 DEF z, Joined
    <3>3. ASSUME NEW i \in 1..m PROVE z[i + 1] = u[i]
      <4>1. i + 1 \in 1..(1 + m) /\ ~(i + 1 <= 1) /\ (i + 1) - 1 = i
        BY <2>1
      <4> QED
        BY <4>1, <3>2
    <3>4. z[1] = c[1] /\ n = m + 1
      BY <3>2, <2>1
    <3> QED
      BY <3>3, <3>4
  <2>4. ASSUME NEW i \in 1..n
        PROVE  i = 1 \/ (i - 1 \in 1..m /\ z[i] = u[i - 1])
    <3>1. i = 1 \/ (i - 1 \in 1..m /\ (i - 1) + 1 = i)
      BY <2>3
    <3> QED
      BY <3>1, <2>3
  <2>5. \A i \in 1..n : Member(z[i], c, u)
    BY <2>1, <2>3, <2>4, <1>3 DEF Member
  <2>6. ASSUME NEW r, Member(r, c, u) PROVE \E i \in 1..n : z[i] = r
    <3>1. CASE r = c[1]
      BY <3>1, <2>3
    <3>2. CASE \E i \in 1..m : r = u[i]
      <4>1. PICK i \in 1..m : r = u[i]
        BY <3>2
      <4>2. i + 1 \in 1..n /\ z[i + 1] = r
        BY <4>1, <2>3
      <4> QED
        BY <4>2
    <3> QED
      BY <2>6, <3>1, <3>2, <2>1 DEF Member
  <2>7. ASSUME NEW i \in 1..n, NEW j \in 1..n, z[i].base = z[j].base
        PROVE  i = j
    <3>0. ASSUME NEW k \in 1..n, k # 1 PROVE z[k].base # c[1].base
      <4>1. k - 1 \in 1..m /\ z[k] = u[k - 1]
        BY <3>0, <2>4
      <4>2. u[k - 1].base # c[1].base
        BY <4>1, <2>1, <1>1, <1>3
      <4> QED
        BY <4>1, <4>2
    <3>1. CASE i = 1 \/ j = 1
      <4>1. i = 1 => z[i].base = c[1].base
        BY <2>3
      <4>2. j = 1 => z[j].base = c[1].base
        BY <2>3
      <4> QED
        BY <3>0, <3>1, <4>1, <4>2, <2>7
    <3>2. CASE i # 1 /\ j # 1
      <4>1. i - 1 = j - 1
        BY <3>2, <2>1, <2>4, <2>7, <1>1, SMTT(20)
      <4> QED
        BY <4>1
    <3> QED
      BY <3>1, <3>2
  <2> QED
    BY <2>1, <2>5, <2>6, <2>7 DEF z
<1> QED
  BY <1>2, <1>3

(***************************************************************************)
(* The allocator's variables keep their types; in particular there is at   *)
(* most one current region and no offset passes below zero.                *)
(***************************************************************************)
THEOREM BumpTyped == ASSUME BumpContract PROVE Spec => []TypeOK
<1>1. BumpInv => TypeOK
  BY DEF BumpInv, TypeOK, SoundPair, SoundList, SoundAllocs, Allocation
<1> QED
  BY <1>1, BumpSafety, PTL

(***************************************************************************)
(* No two results of bump_allocate_aligned overlap, and none reaches into  *)
(* a header, beyond its region or into what is still to be handed out.     *)
(***************************************************************************)
THEOREM BumpBlocksApart == ASSUME BumpContract PROVE Spec => []NoOverlap
<1>1. BumpInv => NoOverlap
  <2> SUFFICES ASSUME BumpInv PROVE NoOverlap
    OBVIOUS
  <2>1. SoundPair(current, used_list) /\ SoundAllocs(current, used_list, allocs)
    BY DEF BumpInv
  <2>2. \A a, b \in 1..Len(allocs) :
          a < b => \/ allocs[a].base + allocs[a].size <= allocs[b].base
                   \/ allocs[b].base + allocs[b].size <= allocs[a].base
    BY <2>1 DEF SoundAllocs, Apart
  <2>3. ASSUME NEW a \in 1..Len(allocs)
        PROVE  \E i \in 1..Len(Regions) :
                 /\ Regions[i].base + HeaderSize <= allocs[a].base
                 /\ allocs[a].base + allocs[a].size <= Regions[i].offset
                 /\ Regions[i].offset <= Regions[i].end
    <3>1. PICK r : /\ Member(r, current, used_list)
                   /\ r.base + HeaderSize <= allocs[a].base
                   /\ allocs[a].base + allocs[a].size <= r.offset
      BY <2>1 DEF SoundAllocs, Placed
    <3>2. r.offset <= r.end
      BY <3>1, <2>1, MemberSound, SoundFacts
    <3>3. PICK i \in 1..Len(Regions) : Regions[i] = r
      <4>1. Regions = Joined(current, used_list)
        BY DEF Regions, Joined
      <4> QED
        BY <4>1, <3>1, <2>1, RegionsAre
    <3> QED
      BY <3>1, <3>2, <3>3
  <2> QED
    BY <2>2, <2>3 DEF NoOverlap
<1> QED
  BY <1>1, BumpSafety, PTL

(***************************************************************************)
(* insert_into_sorted_list keeps used_list sorted, largest space first.    *)
(***************************************************************************)
THEOREM UsedListStaysSorted == ASSUME BumpContract PROVE Spec => []UsedListSorted
<1>1. BumpInv => UsedListSorted
  <2> SUFFICES ASSUME BumpInv, NEW i \in 1..(Len(used_list) - 1)
               PROVE  Space(used_list[i]) >= Space(used_list[i + 1])
    BY DEF UsedListSorted
  <2>1. used_list \in Seq(BumpRegion) /\ Sorted(used_list)
    BY DEF BumpInv, SoundPair, SoundList
  <2>2. PICK n \in Nat : n = Len(used_list)
    BY <2>1
  <2>3. i \in 1..n /\ i + 1 \in 1..n /\ i < i + 1
    BY <2>2
  <2> QED
    BY <2>1, <2>2, <2>3 DEF Sorted
<1> QED
  BY <1>1, BumpSafety, PTL

(***************************************************************************)
(* Growing and exchanging regions lose none and duplicate none.            *)
(***************************************************************************)
THEOREM NoRegionLost == ASSUME BumpContract PROVE Spec => RegionsKept
<1>1. BumpInv /\ [Next]_vars =>
        [ /\ \A i, j \in 1..Len(Regions') : i # j => Regions'[i].base # Regions'[j].base
          /\ \A i \in 1..Len(Regions) : \E j \in 1..Len(Regions') :
               Regions'[j].base = Regions[i].base ]_vars
  <2> SUFFICES ASSUME BumpInv, [Next]_vars
               PROVE  /\ \A i, j \in 1..Len(Regions') :
                           i # j => Regions'[i].base # Regions'[j].base
                      /\ \A i \in 1..Len(Regions) : \E j \in 1..Len(Regions') :
                           Regions'[j].base = Regions[i].base
    OBVIOUS
  <2>1. BumpInv' /\ Keeps(current, used_list, current', used_list') /\ BumpContract
    BY BumpStep
  <2>2. SoundPair(current, used_list) /\ SoundPair(current', used_list')
    BY <2>1 DEF BumpInv
  <2>3. PICK z, y : z = Joined(current, used_list) /\ y = Joined(current', used_list')
    OBVIOUS
  <2>4. Regions = z /\ Regions' = y
    BY <2>3 DEF Regions, Joined
  <2>5. \A i \in 1..Len(z) : Member(z[i], current, used_list)
    BY <2>2, <2>3, RegionsAre
  <2>6. /\ \A r : Member(r, current', used_list') => \E i \in 1..Len(y) : y[i] = r
        /\ \A i, j \in 1..Len(y) : y[i].base = y[j].base => i = j
    BY <2>2, <2>3, RegionsAre
  <2>7. ASSUME NEW i \in 1..Len(z) PROVE \E j \in 1..Len(y) : y[j].base = z[i].base
    <3>1. PICK s : Member(s, current', used_list') /\ s.base = z[i].base
      BY <2>1, <2>5 DEF Keeps
    <3> QED
      BY <3>1, <2>6
  <2> QED
    BY <2>4, <2>6, <2>7
<1> QED
  BY <1>1, BumpSafety, PTL DEF Spec, RegionsKept

\* bump_allocate finds nothing: neither the current region nor the head of
\* used_list has the bytes, and so no other has.
LEMMA NullMeansFull ==
  ASSUME BumpContract, BumpInv, NEW q \in Requests, q.size > 0,
         bump_allocate(q.size), ret' = NULL, state' = "up",
         NEW i \in 1..Len(Regions)
  PROVE  Space(Regions[i]) < q.size
<1>1. PICK n : n = q.size
  OBVIOUS
<1>2. n \in Nat /\ n > 0
  BY <1>1, BumpAssumption
<1>3. SoundPair(current, used_list)
  BY DEF BumpInv
<1>4. PICK r : r = Regions[i] /\ Member(r, current, used_list)
  <2>1. Regions = Joined(current, used_list)
    BY DEF Regions, Joined
  <2> QED
    BY <2>1, <1>3, RegionsAre
<1>5. current # << >>
  BY <1>3, <1>4 DEF SoundPair, Member
<1>6. ASSUME NEW s, SoundRegion(s) PROVE Fits(s, n, 1) <=> Space(s) >= n
  <2>1. s.base \in Nat /\ s.offset \in Nat /\ s.end \in Nat
        /\ s.base <= s.offset /\ s.offset <= s.end
    BY <1>6, SoundFacts
  <2>2. ALIGN_UP(s.offset, 1) = s.offset
    <3>1. 1 \in Nat \ {0} /\ s.offset \in Nat
      BY <2>1
    <3> QED
      BY <3>1, AlignUpNotLower
  <2> QED
    BY <2>1, <2>2, <1>2 DEF Fits, Space
<1>7. ASSUME NEW s, SoundRegion(s), Fits(s, n, 1), Cut(s, n, 1) PROVE FALSE
  <2>1. ALIGN_UP(s.offset, 1) # NULL
    BY <1>2, <1>7, CutSound, ZenonT(40) DEF Servable
  <2> QED
    BY <2>1, <1>7 DEF Cut
<1>8. /\ ~Fits(current[1], n, 1) /\ used_list # << >>
      /\ ~Fits(Head(used_list), n, 1)
  <2>1. SoundRegion(current[1])
    BY <1>3, <1>5 DEF SoundPair
  <2>2. /\ ~Fits(current[1], n, 1)
        /\ (used_list = << >> /\ Fault) \/ Swap(n, 1)
    BY <2>1, <1>1, <1>2, <1>5, <1>7 DEF bump_allocate, bump_allocate_aligned
  <2>3. Swap(n, 1)
    BY <2>2 DEF Fault
  <2>4. used_list # << >>
    BY <2>3 DEF Swap
  <2>5. SoundRegion(Head(used_list))
    BY <2>4, <1>3, TailSound DEF SoundPair
  <2> QED
    BY <2>2, <2>3, <2>4, <2>5, <1>7 DEF Swap
<1>9. SoundRegion(current[1]) /\ SoundList(used_list)
  BY <1>3, <1>5 DEF SoundPair
<1>10. /\ SoundRegion(Head(used_list)) /\ Head(used_list) = used_list[1]
       /\ 1 \in 1..Len(used_list)
  BY <1>8, <1>9, TailSound
<1>11. \A s : SoundRegion(s) => Space(s) \in Int
  BY DEF SoundRegion, BumpRegion, Space
<1>12. Space(current[1]) < n /\ Space(used_list[1]) < n
  BY <1>2, <1>6, <1>8, <1>9, <1>10, <1>11
<1>13. CASE r = current[1]
  BY <1>13, <1>1, <1>4, <1>12
<1>14. ASSUME NEW j \in 1..Len(used_list), r = used_list[j]
       PROVE  Space(r) < n
  <2>1. j = 1 \/ 1 < j
    OBVIOUS
  <2>2. j = 1 \/ Space(used_list[1]) >= Space(used_list[j])
    BY <2>1, <1>9, <1>10 DEF SoundList, Sorted
  <2>3. Space(used_list[j]) \in Int /\ Space(used_list[1]) \in Int
    BY <1>9, <1>10, <1>11 DEF SoundList
  <2> QED
    BY <2>2, <2>3, <1>2, <1>12, <1>14
<1> QED
  BY <1>1, <1>4, <1>13, <1>14 DEF Member

(***************************************************************************)
(* bump_allocate returns NULL for a size that is not 0 only when no region *)
(* has that many bytes left, although it looks at two of them only.        *)
(***************************************************************************)
THEOREM NullIsHonest == ASSUME BumpContract PROVE Spec => NullOnlyWhenFull
<1>1. BumpInv =>
        [ \A q \in Requests :
            (/\ q.size > 0
             /\ Len(allocs) < MaxAllocs
             /\ bump_allocate(q.size)
             /\ ret' = NULL
             /\ state' = "up")
            => \A i \in 1..Len(Regions) : Space(Regions[i]) < q.size ]_vars
  BY NullMeansFull
<1> QED
  BY <1>1, BumpSafety, PTL DEF Spec, NullOnlyWhenFull

-----------------------------------------------------------------------------
(***************************************************************************)
(* Alignment.                                                              *)
(***************************************************************************)

\* A block cut off a region is aligned.
LEMMA CutAligned ==
  ASSUME BumpInv, Aligned, NEW size, NEW alignment, NEW r, Member(r, current, used_list),
         Cut(r, size, alignment)
  PROVE  Aligned'
<1>1. SoundPair(current, used_list) /\ allocs \in Seq(Allocation)
  BY DEF BumpInv, SoundAllocs
<1>2. r.offset \in Nat
  BY <1>1, MemberSound, SoundFacts
<1> DEFINE v == ALIGN_UP(r.offset, alignment)
           a == [base |-> v, size |-> size, alignment |-> alignment]
<1>3. allocs' = Append(allocs, a)
  BY DEF Cut
<1>4. a.base = v /\ a.alignment = alignment
  OBVIOUS
<1>5. (\E k \in 0..WordBits : alignment = 2 ^ k) => v % alignment = 0
  BY <1>2, AlignUpMultiple
<1> HIDE DEF a, v
<1>6. PICK N \in Nat : N = Len(allocs)
  BY <1>1, LenProperties
<1>7. Len(allocs') = N + 1 /\ allocs'[N + 1] = a /\ \A i \in 1..N : allocs'[i] = allocs[i]
  <2>1. allocs \in Seq(Allocation \union {a}) /\ a \in Allocation \union {a}
    BY <1>1, SeqMonotonic
  <2> QED
    BY <2>1, <1>3, <1>6, AppendProperties
<1>8. \A i \in 1..(N + 1) : i = N + 1 \/ i \in 1..N
  OBVIOUS
<1>9. \A i \in 1..N : (\E k \in 0..WordBits : allocs[i].alignment = 2 ^ k)
                        => allocs[i].base % allocs[i].alignment = 0
  BY <1>6 DEF Aligned
<1>10. ASSUME NEW i \in 1..(N + 1), \E k \in 0..WordBits : allocs'[i].alignment = 2 ^ k
       PROVE  allocs'[i].base % allocs'[i].alignment = 0
  <2>1. CASE i = N + 1
    <3>1. allocs'[i].base = v /\ allocs'[i].alignment = alignment
      BY <2>1, <1>4, <1>7
    <3> QED
      BY <3>1, <1>5, <1>10
  <2>2. CASE i \in 1..N
    <3>1. allocs'[i] = allocs[i]
      BY <2>2, <1>7
    <3> QED
      BY <3>1, <2>2, <1>9, <1>10
  <2> QED
    BY <2>1, <2>2, <1>8
<1> QED
  BY <1>7, <1>10 DEF Aligned

\* So are the results of bump_allocate_aligned, whichever way it goes.
LEMMA AllocateAligned ==
  ASSUME BumpInv, Aligned, NEW size, NEW alignment, bump_allocate_aligned(size, alignment)
  PROVE  Aligned'
<1>1. CASE allocs' = allocs
  BY <1>1 DEF Aligned
<1>2. CASE current # << >> /\ Cut(current[1], size, alignment)
  BY <1>2, CutAligned DEF Member
<1>3. CASE used_list # << >> /\ Cut(Head(used_list), size, alignment)
  <2>1. Member(Head(used_list), current, used_list)
    <3>1. used_list \in Seq(BumpRegion)
      BY DEF BumpInv, SoundPair, SoundList
    <3>2. Head(used_list) = used_list[1] /\ 1 \in 1..Len(used_list)
      BY <3>1, <1>3, EmptySeq, LenProperties
    <3> QED
      BY <3>2 DEF Member
  <2> QED
    BY <2>1, <1>3, CutAligned
<1> QED
  BY <1>1, <1>2, <1>3 DEF bump_allocate_aligned, ReturnNull, Fault, Swap

(***************************************************************************)
(* Every result of bump_allocate_aligned is at the alignment asked for     *)
(* when that is a power of two: the masks of ALIGN_UP clear exactly the    *)
(* bits below it, and the sum before does not carry the result away from   *)
(* the multiple above.                                                     *)
(***************************************************************************)
THEOREM ResultsAligned == ASSUME BumpContract PROVE Spec => []Aligned
<1>1. Init => Aligned
  <2> SUFFICES ASSUME Init PROVE Aligned
    OBVIOUS
  <2>1. allocs = << >> /\ Len(<< >>) = 0 /\ 1..0 = {}
    BY DEF Init
  <2> QED
    BY <2>1 DEF Aligned
<1>2. BumpInv /\ Aligned /\ [Next]_vars => Aligned'
  <2> SUFFICES ASSUME BumpInv, Aligned, [Next]_vars PROVE Aligned'
    OBVIOUS
  <2>1. CASE allocs' = allocs
    BY <2>1 DEF Aligned
  <2>2. ASSUME NEW q \in Requests, bump_allocate_aligned(q.size, q.alignment) PROVE Aligned'
    BY <2>2, AllocateAligned
  <2>3. ASSUME NEW q \in Requests, bump_allocate(q.size) PROVE Aligned'
    BY <2>3, AllocateAligned DEF bump_allocate
  <2> QED
    BY <2>1, <2>2, <2>3 DEF Next, bump_initialize, bump_grow, Halt, vars
<1> QED
  BY <1>1, <1>2, BumpSafety, PTL DEF Spec
=============================================================================
