----------------------------- MODULE DataProof ------------------------------
(***************************************************************************)
(* Lemmas about data, which the proofs about several modules rest on:      *)
(* powers of two and sums of sets of numbers, with the proof that ALIGN_UP *)
(* and ALIGN_DOWN round; linked lists, sequences of nested tokens, and     *)
(* functions that recurse along the pointers of a tree.                    *)
(***************************************************************************)
EXTENDS Masks, SequencesExt, FiniteSetTheorems, SequenceTheorems, TLAPS

-----------------------------------------------------------------------------
(***************************************************************************)
(* Induction over the numbers up to a bound, for a set of numbers: the     *)
(* provers cannot use a rule that is about a formula.                      *)
(***************************************************************************)

\* A set of numbers that is not empty has a least element.
LEMMA LeastNumber ==
  ASSUME NEW T \in SUBSET Nat, T # {}
  PROVE  \E x \in T : \A y \in T : x <= y
<1>1. PICK x \in T : \A y \in T : ~(<<y, x>> \in OpToRel(<, Nat))
  BY NatLessThanWellFounded, WFMin
<1>2. ASSUME NEW y \in T PROVE x <= y
  <2>1. x \in Nat /\ y \in Nat
    OBVIOUS
  <2>2. y < x => <<y, x>> \in OpToRel(<, Nat)
    BY <2>1 DEF OpToRel
  <2>3. ~(y < x)
    BY <2>2, <1>1, Zenon
  <2> QED
    BY <2>1, <2>3
<1> QED
  BY <1>2

\* The least element of a set of numbers.
LEMMA Least ==
  ASSUME NEW T \in SUBSET Nat, T # {}
  PROVE  Min(T) \in T /\ \A y \in T : Min(T) <= y
<1>1. \E x \in T : \A y \in T : x <= y
  BY LeastNumber
<1> QED
  BY <1>1 DEF Min

\* A set that holds a number whenever it holds the smaller ones holds them all.
LEMMA UpTo ==
  ASSUME NEW N \in Nat, NEW T,
         \A n \in 0..N : (\A m \in 0..(n - 1) : m \in T) => n \in T
  PROVE  \A n \in 0..N : n \in T
<1> DEFINE Rest == {n \in 0..N : n \notin T}
<1>1. Rest \in SUBSET Nat
  OBVIOUS
<1>2. SUFFICES ASSUME Rest # {} PROVE FALSE
  OBVIOUS
<1>3. PICK x \in Rest : \A y \in Rest : x <= y
  BY <1>1, <1>2, LeastNumber
<1>4. x \in 0..N /\ x \notin T
  OBVIOUS
<1>5. ASSUME NEW m \in 0..(x - 1) PROVE m \in T
  BY <1>3, <1>4
<1> QED
  BY <1>4, <1>5

-----------------------------------------------------------------------------
(***************************************************************************)
(* Powers of two, by counting subsets.                                     *)
(***************************************************************************)

\* A power of two is the number of subsets of so many elements.
LEMMA PowerCounts ==
  ASSUME NEW n \in Nat
  PROVE  IsFiniteSet(SUBSET (1..n)) /\ Cardinality(SUBSET (1..n)) = 2 ^ n
<1>1. IsFiniteSet(1..n) /\ Cardinality(1..n) = n
  BY FS_Interval
<1> QED
  BY <1>1, FS_SUBSET

\* The first power.
LEMMA PowerZero == 2 ^ 0 = 1
<1>1. Cardinality(SUBSET (1..0)) = 2 ^ 0
  BY PowerCounts
<1>2. SUBSET (1..0) = {{}}
  OBVIOUS
<1>3. Cardinality({{}}) = 1
  BY FS_Singleton
<1> QED
  BY <1>1, <1>2, <1>3

\* The next power is twice as large.
LEMMA PowerDoubles ==
  ASSUME NEW n \in Nat
  PROVE  2 ^ (n + 1) = 2 * 2 ^ n /\ 2 ^ n \in Nat \ {0}
<1> DEFINE A == SUBSET (1..n)
           B == {s \union {n + 1} : s \in A}
           f == [s \in A |-> s \union {n + 1}]
<1>1. IsFiniteSet(A) /\ Cardinality(A) = 2 ^ n
  BY PowerCounts
<1>2. Cardinality(SUBSET (1..(n + 1))) = 2 ^ (n + 1)
  <2>1. n + 1 \in Nat
    OBVIOUS
  <2> QED
    BY <2>1, PowerCounts
<1>3. \A s \in A : n + 1 \notin s
  OBVIOUS
<1>4. A \intersect B = {}
  BY <1>3
<1>5. SUBSET (1..(n + 1)) = A \union B
  <2>1. \A j : j \in 1..(n + 1) <=> j \in 1..n \/ j = n + 1
    OBVIOUS
  <2>2. ASSUME NEW s \in SUBSET (1..(n + 1)) PROVE s \in A \union B
    <3>1. CASE n + 1 \in s
      <4>1. s \ {n + 1} \in A
        BY <2>1
      <4>2. s = (s \ {n + 1}) \union {n + 1}
        BY <3>1
      <4> QED
        BY <4>1, <4>2
    <3>2. CASE n + 1 \notin s
      BY <3>2, <2>1
    <3> QED
      BY <3>1, <3>2
  <2>3. ASSUME NEW s \in A PROVE s \in SUBSET (1..(n + 1)) /\ s \union {n + 1} \in SUBSET (1..(n + 1))
    BY <2>1
  <2>4. SUBSET (1..(n + 1)) \subseteq A \union B
    BY <2>2
  <2>5. ASSUME NEW x \in A \union B PROVE x \in SUBSET (1..(n + 1))
    <3>1. CASE x \in A
      BY <3>1, <2>3
    <3>2. CASE x \in B
      <4>1. PICK s \in A : x = s \union {n + 1}
        BY <3>2
      <4> QED
        BY <4>1, <2>3
    <3> QED
      BY <3>1, <3>2
  <2> QED
    BY <2>4, <2>5
<1>6. f \in Bijection(A, B)
  <2>1. f \in [A -> B]
    OBVIOUS
  <2>2. ASSUME NEW r \in A, NEW s \in A, f[r] = f[s] PROVE r = s
    BY <2>2, <1>3
  <2>3. \A b \in B : \E s \in A : f[s] = b
    OBVIOUS
  <2> HIDE DEF f, A, B
  <2> QED
    BY <2>1, <2>2, <2>3 DEF Bijection, Injection, Surjection, IsInjective
<1>7. IsFiniteSet(B) /\ Cardinality(B) = Cardinality(A)
  <2> HIDE DEF f, A, B
  <2>1. ExistsBijection(A, B)
    BY <1>6 DEF ExistsBijection
  <2> QED
    BY <2>1, <1>1, FS_Bijection
<1>8. Cardinality(A \union B) = Cardinality(A) + Cardinality(B)
  <2> HIDE DEF f, A, B
  <2>1. Cardinality(A \union B) = Cardinality(A) + Cardinality(B) - Cardinality(A \intersect B)
    BY <1>1, <1>7, FS_Union
  <2>2. Cardinality(A \intersect B) = 0
    BY <1>4, FS_EmptySet
  <2>3. Cardinality(A) \in Nat /\ Cardinality(B) \in Nat
    BY <1>1, <1>7, FS_CardinalityType
  <2> QED
    BY <2>1, <2>2, <2>3
<1>9. Cardinality(A) \in Nat /\ Cardinality(A) # 0
  <2>1. A # {}
    OBVIOUS
  <2> HIDE DEF A
  <2> QED
    BY <2>1, <1>1, FS_CardinalityType, FS_EmptySet
<1> HIDE DEF A, B, f
<1>10. 2 ^ (n + 1) = Cardinality(A) + Cardinality(A)
  BY <1>2, <1>5, <1>7, <1>8
<1>11. PICK a \in Nat : a = Cardinality(A)
  BY <1>9
<1>12. 2 ^ n = a /\ 2 ^ (n + 1) = a + a /\ a # 0
  BY <1>1, <1>9, <1>10, <1>11
<1>13. a + a = 2 * a
  OBVIOUS
<1>14. 2 ^ (n + 1) = 2 * 2 ^ n
  BY <1>12, <1>13, Zenon
<1>15. 2 ^ n \in Nat \ {0}
  BY <1>12, Zenon
<1> QED
  BY <1>14, <1>15

-----------------------------------------------------------------------------
(***************************************************************************)
(* SumSet: its recursion has a solution, and the sum does not depend on    *)
(* the order in which the elements are taken.                              *)
(***************************************************************************)
Pick(s) == CHOOSE x \in s : TRUE

IsSum(S, f) ==
  f = [s \in SUBSET S |-> IF s = {} THEN 0 ELSE Pick(s) + f[s \ {Pick(s)}]]

\* The subsets of S of at most n elements.
Small(S, n) == {s \in SUBSET S : Cardinality(s) <= n}

IsSumTo(S, n, f) ==
  f = [s \in Small(S, n) |-> IF s = {} THEN 0 ELSE Pick(s) + f[s \ {Pick(s)}]]

\* SumSet is what the recursion gives.
LEMMA SumSetIs ==
  ASSUME NEW S
  PROVE  SumSet(S) = (CHOOSE f : IsSum(S, f))[S]
BY DEF SumSet, FoldSet, MapThenFoldSet, IsSum, Pick

\* Without one of its elements a finite set is smaller by one.
LEMMA OneLess ==
  ASSUME NEW s, IsFiniteSet(s), NEW x \in s
  PROVE  /\ IsFiniteSet(s \ {x})
         /\ Cardinality(s \ {x}) = Cardinality(s) - 1
         /\ Cardinality(s) \in Nat \ {0}
<1>1. Cardinality(s) \in Nat /\ Cardinality(s) # 0
  BY FS_CardinalityType, FS_EmptySet
<1> QED
  BY <1>1, FS_RemoveElement

\* The recursion has a solution.
LEMMA SumExists ==
  ASSUME NEW S, IsFiniteSet(S)
  PROVE  \E f : IsSum(S, f)
<1>1. \A s \in SUBSET S : IsFiniteSet(s) /\ Cardinality(s) \in Nat /\ Cardinality(s) <= Cardinality(S)
  BY FS_Subset, FS_CardinalityType
<1> DEFINE N == Cardinality(S)
           T == {m \in 0..N : \E f : IsSumTo(S, m, f)}
<1>2. N \in Nat
  BY FS_CardinalityType
<1>3. \A s \in SUBSET S : s # {} =>
        Pick(s) \in s /\ s \ {Pick(s)} \in SUBSET S /\ Cardinality(s \ {Pick(s)}) = Cardinality(s) - 1
  <2>1. ASSUME NEW s \in SUBSET S, s # {}
        PROVE  Pick(s) \in s /\ Cardinality(s \ {Pick(s)}) = Cardinality(s) - 1
    <3>1. Pick(s) \in s
      BY <2>1 DEF Pick
    <3> QED
      BY <3>1, <1>1, OneLess
  <2> QED
    BY <2>1
<1>4. ASSUME NEW m \in 0..N, \A k \in 0..(m - 1) : k \in T PROVE m \in T
  <2>1. CASE m = 0
    <3> DEFINE g == [s \in Small(S, 0) |-> 0]
    <3>1. \A s \in Small(S, 0) : s = {}
      <4>1. ASSUME NEW s \in Small(S, 0) PROVE s = {}
        <5>1. IsFiniteSet(s) /\ Cardinality(s) \in Nat /\ Cardinality(s) <= 0
          BY <1>1 DEF Small
        <5>2. Cardinality(s) = 0
          BY <5>1
        <5> QED
          BY <5>1, <5>2, FS_EmptySet
      <4> QED
        BY <4>1
    <3>2. IsSumTo(S, 0, g)
      BY <3>1 DEF IsSumTo
    <3> QED
      BY <3>2, <2>1
  <2>2. CASE m # 0
    <3>1. m \in Nat /\ m - 1 \in 0..(m - 1) /\ m - 1 \in 0..N
      BY <2>2, <1>2
    <3>2. PICK f : IsSumTo(S, m - 1, f)
      BY <3>1, <1>4
    <3> DEFINE e(s) == IF s = {} THEN 0 ELSE Pick(s) + f[s \ {Pick(s)}]
               g == [s \in Small(S, m) |-> e(s)]
    <3>3. \A s \in Small(S, m - 1) : f[s] = e(s)
      <4>1. f = [s \in Small(S, m - 1) |-> e(s)]
        BY <3>2 DEF IsSumTo
      <4> HIDE DEF e
      <4> QED
        BY <4>1
    <3>4. \A s \in Small(S, m) : s # {} => s \ {Pick(s)} \in Small(S, m - 1)
      BY <1>3, <1>1, <3>1 DEF Small
    <3>5. \A s \in Small(S, m - 1) : s \in Small(S, m)
      BY <1>1, <3>1 DEF Small
    <3>6. \A s \in Small(S, m - 1) : g[s] = f[s]
      <4> HIDE DEF e
      <4> QED
        BY <3>3, <3>5
    <3>7. \A s \in Small(S, m) : g[s] = e(s)
      <4> HIDE DEF e
      <4> QED
        OBVIOUS
    <3>8. ASSUME NEW s \in Small(S, m)
          PROVE  e(s) = IF s = {} THEN 0 ELSE Pick(s) + g[s \ {Pick(s)}]
      <4> HIDE DEF g
      <4> QED
        BY <3>4, <3>6
    <3>9. g = [s \in Small(S, m) |-> IF s = {} THEN 0 ELSE Pick(s) + g[s \ {Pick(s)}]]
      <4>1. g = [s \in Small(S, m) |-> e(s)]
        OBVIOUS
      <4>2. [s \in Small(S, m) |-> e(s)] =
            [s \in Small(S, m) |-> IF s = {} THEN 0 ELSE Pick(s) + g[s \ {Pick(s)}]]
        <5> HIDE DEF g, e
        <5> QED
          BY <3>8
      <4> HIDE DEF g, e
      <4> QED
        BY <4>1, <4>2
    <3>10. IsSumTo(S, m, g)
      <4> HIDE DEF g
      <4> QED
        BY <3>9 DEF IsSumTo
    <3> QED
      BY <3>10
  <2> QED
    BY <2>1, <2>2
<1>5. \A m \in 0..N : m \in T
  <2> HIDE DEF T, N
  <2> QED
    BY <1>2, <1>4, UpTo
<1>6. PICK f : IsSumTo(S, N, f)
  <2>1. N \in 0..N
    BY <1>2
  <2> QED
    BY <2>1, <1>5
<1>7. Small(S, N) = SUBSET S
  BY <1>1 DEF Small
<1> QED
  BY <1>6, <1>7 DEF IsSumTo, IsSum

\* Solutions on two sets agree where both are defined.
LEMMA SumsAgree ==
  ASSUME NEW S, IsFiniteSet(S), NEW f, IsSum(S, f),
         NEW R, IsFiniteSet(R), NEW g, IsSum(R, g)
  PROVE  \A s \in SUBSET S : s \in SUBSET R => f[s] = g[s]
<1> DEFINE N == Cardinality(S)
           T == {m \in 0..N : \A s \in SUBSET S : s \in SUBSET R /\ Cardinality(s) = m => f[s] = g[s]}
           e(s) == IF s = {} THEN 0 ELSE Pick(s) + f[s \ {Pick(s)}]
           h(s) == IF s = {} THEN 0 ELSE Pick(s) + g[s \ {Pick(s)}]
<1>1. N \in Nat /\ \A s \in SUBSET S : IsFiniteSet(s) /\ Cardinality(s) \in Nat /\ Cardinality(s) <= N
  BY FS_Subset, FS_CardinalityType
<1>2. \A s \in SUBSET S : f[s] = e(s)
  <2>1. f = [s \in SUBSET S |-> e(s)]
    BY DEF IsSum
  <2> HIDE DEF e
  <2> QED
    BY <2>1
<1>3. \A s \in SUBSET R : g[s] = h(s)
  <2>1. g = [s \in SUBSET R |-> h(s)]
    BY DEF IsSum
  <2> HIDE DEF h
  <2> QED
    BY <2>1
<1>4. ASSUME NEW m \in 0..N, \A k \in 0..(m - 1) : k \in T PROVE m \in T
  <2> SUFFICES ASSUME NEW s \in SUBSET S, s \in SUBSET R, Cardinality(s) = m PROVE f[s] = g[s]
    OBVIOUS
  <2>1. CASE s = {}
    BY <2>1, <1>2, <1>3
  <2>2. CASE s # {}
    <3>1. Pick(s) \in s
      BY <2>2 DEF Pick
    <3>2. Cardinality(s \ {Pick(s)}) = m - 1 /\ m \in Nat \ {0}
      BY <3>1, <1>1, OneLess
    <3>3. m - 1 \in 0..(m - 1) /\ s \ {Pick(s)} \in SUBSET S /\ s \ {Pick(s)} \in SUBSET R
      BY <3>2
    <3>4. f[s \ {Pick(s)}] = g[s \ {Pick(s)}]
      BY <3>2, <3>3, <1>4
    <3> QED
      BY <3>4, <2>2, <1>2, <1>3
  <2> QED
    BY <2>1, <2>2
<1>5. \A m \in 0..N : m \in T
  <2> HIDE DEF T, N
  <2> QED
    BY <1>1, <1>4, UpTo
<1> QED
  BY <1>1, <1>5

\* The recursion of SumSet.
LEMMA SumSetStep ==
  ASSUME NEW S, IsFiniteSet(S)
  PROVE  /\ S = {} => SumSet(S) = 0
         /\ S # {} => Pick(S) \in S /\ SumSet(S) = Pick(S) + SumSet(S \ {Pick(S)})
<1> DEFINE f == CHOOSE f : IsSum(S, f)
<1>1. IsSum(S, f)
  BY SumExists
<1>2. SumSet(S) = f[S]
  BY SumSetIs
<1> HIDE DEF f
<1> DEFINE e(s) == IF s = {} THEN 0 ELSE Pick(s) + f[s \ {Pick(s)}]
<1>3. f[S] = e(S)
  <2>1. f = [s \in SUBSET S |-> e(s)]
    BY <1>1 DEF IsSum
  <2> HIDE DEF e
  <2> QED
    BY <2>1
<1>4. ASSUME S # {} PROVE Pick(S) \in S /\ SumSet(S) = Pick(S) + SumSet(S \ {Pick(S)})
  <2> DEFINE R == S \ {Pick(S)}
             g == CHOOSE g : IsSum(R, g)
  <2>1. R \in SUBSET S /\ R \in SUBSET R
    OBVIOUS
  <2> HIDE DEF R
  <2>2. IsFiniteSet(R)
    BY <2>1, FS_Subset
  <2>3. IsSum(R, g) /\ SumSet(R) = g[R]
    BY <2>2, SumExists, SumSetIs
  <2> HIDE DEF g
  <2>4. f[R] = g[R]
    BY <1>1, <2>1, <2>2, <2>3, SumsAgree
  <2>5. SumSet(S) = Pick(S) + f[R]
    BY <1>2, <1>3, <1>4 DEF R
  <2>6. Pick(S) \in S
    BY <1>4 DEF Pick
  <2> QED
    BY <2>3, <2>4, <2>5, <2>6 DEF R
<1> QED
  BY <1>2, <1>3, <1>4

\* A sum of numbers is a number.
LEMMA SumSetNat ==
  ASSUME NEW S \in SUBSET Nat, IsFiniteSet(S)
  PROVE  SumSet(S) \in Nat
<1> DEFINE N == Cardinality(S)
           T == {m \in 0..N : \A s \in SUBSET S : Cardinality(s) = m => SumSet(s) \in Nat}
<1>1. N \in Nat /\ \A s \in SUBSET S : IsFiniteSet(s) /\ Cardinality(s) \in Nat
  BY FS_Subset, FS_CardinalityType
<1>2. ASSUME NEW m \in 0..N, \A k \in 0..(m - 1) : k \in T PROVE m \in T
  <2> SUFFICES ASSUME NEW s \in SUBSET S, Cardinality(s) = m PROVE SumSet(s) \in Nat
    OBVIOUS
  <2>1. CASE s = {}
    <3>1. SumSet(s) = 0
      BY <2>1, <1>1, SumSetStep
    <3> QED
      BY <3>1
  <2>2. CASE s # {}
    <3>1. Pick(s) \in s /\ SumSet(s) = Pick(s) + SumSet(s \ {Pick(s)})
      BY <2>2, <1>1, SumSetStep
    <3>2. Cardinality(s \ {Pick(s)}) = m - 1 /\ m \in Nat \ {0}
      BY <3>1, <1>1, OneLess
    <3>3. m - 1 \in 0..(m - 1) /\ s \ {Pick(s)} \in SUBSET S
      <4>1. m - 1 \in 0..(m - 1)
        BY <3>2
      <4> QED
        BY <4>1
    <3>4. SumSet(s \ {Pick(s)}) \in Nat
      BY <3>2, <3>3, <1>2
    <3>5. Pick(s) \in Nat
      BY <3>1
    <3> QED
      BY <3>1, <3>4, <3>5
  <2> QED
    BY <2>1, <2>2
<1>3. \A m \in 0..N : m \in T
  <2> HIDE DEF T, N
  <2> QED
    BY <1>1, <1>2, UpTo
<1>4. N \in 0..N /\ S \in SUBSET S
  BY <1>1
<1> QED
  BY <1>3, <1>4

\* A new element adds itself to the sum.
LEMMA SumSetAdd ==
  ASSUME NEW S \in SUBSET Nat, IsFiniteSet(S), NEW y \in Nat, y \notin S
  PROVE  SumSet(S \union {y}) = SumSet(S) + y
<1> DEFINE N == Cardinality(S)
           Z == S \union {y}
           T == {m \in 0..N : \A s \in SUBSET Z : Cardinality(s) = m =>
                   \A x \in Z \ s : SumSet(s \union {x}) = SumSet(s) + x}
<1>1. IsFiniteSet(Z) /\ Z \in SUBSET Nat
  BY FS_AddElement
<1>2. N \in Nat /\ \A s \in SUBSET Z : IsFiniteSet(s) /\ Cardinality(s) \in Nat /\ SumSet(s) \in Nat
  BY <1>1, FS_Subset, FS_CardinalityType, SumSetNat
<1> HIDE DEF Z, N
<1>3. ASSUME NEW m \in 0..N, \A k \in 0..(m - 1) : k \in T PROVE m \in T
  <2> SUFFICES ASSUME NEW s \in SUBSET Z, Cardinality(s) = m, NEW x \in Z \ s
               PROVE  SumSet(s \union {x}) = SumSet(s) + x
    OBVIOUS
  <2> DEFINE u == s \union {x}
             p == Pick(u)
  <2>1. u \in SUBSET Z /\ u # {} /\ x \notin s
    OBVIOUS
  <2>2. p \in u /\ SumSet(u) = p + SumSet(u \ {p})
    BY <2>1, <1>2, SumSetStep
  <2>3. p \in Nat /\ x \in Nat
    BY <2>1, <2>2, <1>1
  <2>4. CASE p = x
    <3>1. u \ {p} = s
      BY <2>4, <2>1
    <3>2. SumSet(s) \in Nat
      BY <1>2
    <3> QED
      BY <3>1, <3>2, <2>2, <2>3, <2>4
  <2>5. CASE p # x
    <3>1. p \in s
      BY <2>2, <2>5
    <3> DEFINE r == s \ {p}
    <3>2. Cardinality(r) = m - 1 /\ m \in Nat \ {0}
      BY <3>1, <1>2, OneLess
    <3>3. r \in SUBSET Z /\ p \in Z \ r /\ x \in Z \ r /\ m - 1 \in 0..(m - 1)
      BY <3>1, <3>2
    <3>4. r \union {p} = s /\ u \ {p} = r \union {x}
      BY <3>1, <2>5, <2>1
    <3> HIDE DEF r, p, u
    <3>5. SumSet(r \union {p}) = SumSet(r) + p /\ SumSet(r \union {x}) = SumSet(r) + x
      BY <3>2, <3>3, <1>3
    <3>6. SumSet(r) \in Nat
      BY <3>3, <1>2
    <3>7. SumSet(u) = SumSet(s) + x
      BY <3>4, <3>5, <3>6, <2>2, <2>3
    <3> QED
      BY <3>7 DEF u
  <2> QED
    BY <2>4, <2>5
<1>4. \A m \in 0..N : m \in T
  <2> HIDE DEF T
  <2> QED
    BY <1>2, <1>3, UpTo
<1>5. N \in 0..N /\ S \in SUBSET Z /\ y \in Z \ S /\ Cardinality(S) = N
  BY <1>2 DEF Z, N
<1> QED
  BY <1>4, <1>5

\* So does a set of powers of two: masks are numbers.
LEMMA MasksAreNumbers ==
  ASSUME NEW S \in SUBSET Nat, IsFiniteSet(S)
  PROVE  /\ IsFiniteSet({2 ^ k : k \in S}) /\ {2 ^ k : k \in S} \in SUBSET Nat
         /\ SumSet({2 ^ k : k \in S}) \in Nat
<1> DEFINE T == {2 ^ k : k \in S}
           f == [k \in S |-> 2 ^ k]
<1>1. \A k \in S : 2 ^ k \in Nat
  BY PowerDoubles
<1>2. T \in SUBSET Nat
  BY <1>1
<1>3. f \in Surjection(S, T)
  BY DEF Surjection
<1>4. IsFiniteSet(T)
  <2> HIDE DEF T, f
  <2> QED
    BY <1>3, FS_Surjection
<1> HIDE DEF T
<1>5. SumSet(T) \in Nat
  BY <1>2, <1>4, SumSetNat
<1> QED
  BY <1>2, <1>4, <1>5 DEF T

-----------------------------------------------------------------------------
(***************************************************************************)
(* Division by a power of two.                                             *)
(***************************************************************************)

\* Quotient and remainder.
LEMMA Division ==
  ASSUME NEW v \in Nat, NEW P \in Nat \ {0}
  PROVE  \E q, r \in Nat : q = v \div P /\ r = v % P /\ r < P /\ v = P * q + r
<1>1. PICK q \in Nat : q = v \div P
  OBVIOUS
<1>2. PICK r \in Nat : r = v % P
  OBVIOUS
<1>3. r < P /\ v = P * q + r
  BY <1>1, <1>2
<1> QED
  BY <1>1, <1>2, <1>3

\* They are the only ones.
LEMMA DivisionUnique ==
  ASSUME NEW P \in Nat \ {0}, NEW q \in Nat, NEW r \in Nat, r < P
  PROVE  (P * q + r) \div P = q /\ (P * q + r) % P = r
OBVIOUS

\* The remainder modulo twice a number: one bit more.
LEMMA OneBitMore ==
  ASSUME NEW v \in Nat, NEW P \in Nat \ {0}
  PROVE  v % (2 * P) = (v % P) + (IF (v \div P) % 2 = 1 THEN P ELSE 0)
<1>1. PICK q, r \in Nat : q = v \div P /\ r = v % P /\ r < P /\ v = P * q + r
  BY Division
<1>2. PICK t \in Nat, b \in 0..1 : q = 2 * t + b /\ b = q % 2
  OBVIOUS
<1>3. v = (2 * P) * t + (P * b + r)
  <2>1. v = P * (2 * t + b) + r
    BY <1>1, <1>2
  <2>2. P * (2 * t + b) = (2 * P) * t + P * b
    OBVIOUS
  <2> QED
    BY <2>1, <2>2
<1>4. P * b + r \in Nat /\ P * b + r < 2 * P
  <2>1. CASE b = 0
    BY <2>1, <1>1
  <2>2. CASE b = 1
    BY <2>2, <1>1
  <2> QED
    BY <2>1, <2>2
<1>5. v % (2 * P) = P * b + r
  <2>1. 2 * P \in Nat \ {0}
    OBVIOUS
  <2> QED
    BY <2>1, <1>3, <1>4, DivisionUnique
<1>6. CASE b = 0
  BY <1>1, <1>2, <1>5, <1>6
<1>7. CASE b = 1
  BY <1>1, <1>2, <1>5, <1>7
<1> QED
  BY <1>6, <1>7

\* The product of powers.
LEMMA PowerSum ==
  ASSUME NEW i \in Nat, NEW j \in Nat
  PROVE  2 ^ (i + j) = 2 ^ i * 2 ^ j
<1> DEFINE T == {n \in 0..j : 2 ^ (i + n) = 2 ^ i * 2 ^ n}
<1>1. ASSUME NEW n \in 0..j, \A m \in 0..(n - 1) : m \in T PROVE n \in T
  <2>1. CASE n = 0
    <3>1. 2 ^ 0 = 1 /\ i + 0 = i /\ 2 ^ i \in Nat
      BY PowerDoubles, PowerZero
    <3> QED
      BY <3>1, <2>1
  <2>2. CASE n # 0
    <3>1. PICK m \in Nat : n = m + 1 /\ m \in 0..(n - 1) /\ i + m \in Nat
      BY <2>2
    <3>2. 2 ^ (i + m) = 2 ^ i * 2 ^ m
      BY <3>1, <1>1
    <3>3. 2 ^ (m + 1) = 2 * 2 ^ m /\ 2 ^ ((i + m) + 1) = 2 * 2 ^ (i + m)
      BY <3>1, PowerDoubles
    <3>4. PICK x \in Nat, y \in Nat : x = 2 ^ i /\ y = 2 ^ m
      BY <3>1, PowerDoubles
    <3>5. 2 * (x * y) = x * (2 * y)
      OBVIOUS
    <3>6. i + n = (i + m) + 1
      BY <3>1
    <3>7. 2 ^ (i + n) = 2 ^ i * 2 ^ n
      BY <3>1, <3>2, <3>3, <3>4, <3>5, <3>6
    <3> QED
      BY <3>7
  <2> QED
    BY <2>1, <2>2
<1>2. \A n \in 0..j : n \in T
  <2> HIDE DEF T
  <2> QED
    BY <1>1, UpTo
<1> QED
  BY <1>2

\* The bits of 2^k - 1 are those below k.
LEMMA MaskBits ==
  ASSUME NEW k \in Nat, NEW j \in Nat
  PROVE  Bit(2 ^ k - 1, j) <=> j < k
<1>1. CASE j < k
  <2>1. PICK d \in Nat : k = j + (d + 1)
    <3>1. k - j - 1 \in Nat /\ k = j + ((k - j - 1) + 1)
      BY <1>1
    <3> QED
      BY <3>1
  <2>2. PICK P \in Nat \ {0}, D \in Nat \ {0} : P = 2 ^ j /\ D = 2 ^ d
    BY PowerDoubles
  <2>3. 2 ^ (d + 1) = 2 * D /\ 2 ^ k = P * (2 * D)
    <3>1. 2 ^ (d + 1) = 2 * D
      BY <2>2, PowerDoubles
    <3>2. 2 ^ (j + (d + 1)) = 2 ^ j * 2 ^ (d + 1)
      BY PowerSum
    <3> QED
      BY <3>1, <3>2, <2>1, <2>2
  <2>4. 2 ^ k - 1 = P * (2 * D - 1) + (P - 1)
    <3>1. P * (2 * D) = P * (2 * D - 1) + P
      OBVIOUS
    <3>2. P * (2 * D - 1) \in Int
      OBVIOUS
    <3> QED
      BY <2>3, <3>1, <3>2
  <2>5. 2 * D - 1 \in Nat /\ P - 1 \in Nat /\ P - 1 < P
    OBVIOUS
  <2>6. (2 ^ k - 1) \div P = 2 * D - 1
    BY <2>4, <2>5, DivisionUnique
  <2>7. (2 * D - 1) % 2 = 1
    OBVIOUS
  <2> QED
    BY <1>1, <2>2, <2>6, <2>7 DEF Bit
<1>2. CASE ~(j < k)
  <2>1. PICK d \in Nat : j = k + d
    <3>1. j - k \in Nat /\ j = k + (j - k)
      BY <1>2
    <3> QED
      BY <3>1
  <2>2. PICK P \in Nat \ {0}, D \in Nat \ {0} : P = 2 ^ k /\ D = 2 ^ d
    BY PowerDoubles
  <2>3. 2 ^ j = P * D
    BY <2>1, <2>2, PowerSum
  <2>4. P * D \in Nat \ {0} /\ P <= P * D
    OBVIOUS
  <2>5. P - 1 \in Nat /\ P - 1 < P * D /\ P - 1 = (P * D) * 0 + (P - 1)
    BY <2>4
  <2>6. (P - 1) \div (P * D) = 0
    BY <2>4, <2>5, DivisionUnique
  <2>7. 0 % 2 = 0
    OBVIOUS
  <2> QED
    BY <1>2, <2>2, <2>3, <2>6, <2>7 DEF Bit
<1> QED
  BY <1>1, <1>2

-----------------------------------------------------------------------------
(***************************************************************************)
(* The mask of ALIGN_DOWN, bit by bit.                                     *)
(***************************************************************************)
Common(v, m, n) == {2 ^ k : k \in {j \in 0..(n - 1) : Bit(v, j) /\ Bit(m, j)}}

\* A bit more of the mask.
LEMMA CommonStep ==
  ASSUME NEW v, NEW m, NEW n \in Nat
  PROVE  /\ SumSet(Common(v, m, n)) \in Nat
         /\ SumSet(Common(v, m, 0)) = 0
         /\ SumSet(Common(v, m, n + 1)) =
              SumSet(Common(v, m, n)) + (IF Bit(v, n) /\ Bit(m, n) THEN 2 ^ n ELSE 0)
<1> DEFINE J(i) == {j \in 0..(i - 1) : Bit(v, j) /\ Bit(m, j)}
<1>1. J(n) \in SUBSET Nat /\ IsFiniteSet(J(n))
  <2>1. IsFiniteSet(0..(n - 1))
    BY FS_Interval
  <2>2. J(n) \subseteq 0..(n - 1)
    OBVIOUS
  <2> QED
    BY <2>1, <2>2, FS_Subset
<1>2. Common(v, m, n) = {2 ^ k : k \in J(n)}
  BY DEF Common
<1>3. /\ IsFiniteSet(Common(v, m, n)) /\ Common(v, m, n) \in SUBSET Nat
      /\ SumSet(Common(v, m, n)) \in Nat
  <2> HIDE DEF J
  <2> QED
    BY <1>1, <1>2, MasksAreNumbers
<1>4. SumSet(Common(v, m, 0)) = 0
  <2>1. Common(v, m, 0) = {}
    BY DEF Common
  <2>2. IsFiniteSet({})
    BY FS_EmptySet
  <2> QED
    BY <2>1, <2>2, SumSetStep
<1>5. CASE Bit(v, n) /\ Bit(m, n)
  <2>1. Common(v, m, n + 1) = Common(v, m, n) \union {2 ^ n}
    <3>1. J(n + 1) = J(n) \union {n}
      BY <1>5
    <3>2. Common(v, m, n + 1) = {2 ^ k : k \in J(n + 1)}
      BY DEF Common
    <3> HIDE DEF J
    <3> QED
      BY <3>1, <3>2, <1>2
  <2>2. 2 ^ n \in Nat
    BY PowerDoubles
  <2>3. 2 ^ n \notin Common(v, m, n)
    <3> SUFFICES ASSUME NEW k \in 0..(n - 1), 2 ^ k = 2 ^ n PROVE FALSE
      BY DEF Common
    <3>1. PICK d \in Nat : n = k + (d + 1)
      <4>1. n - k - 1 \in Nat /\ n = k + ((n - k - 1) + 1)
        OBVIOUS
      <4> QED
        BY <4>1
    <3>2. PICK P \in Nat \ {0}, D \in Nat \ {0} : P = 2 ^ k /\ D = 2 ^ d
      BY PowerDoubles
    <3>3. 2 ^ (d + 1) = 2 * D /\ 2 ^ n = P * (2 * D)
      <4>1. 2 ^ (d + 1) = 2 * D
        BY <3>2, PowerDoubles
      <4>2. 2 ^ (k + (d + 1)) = 2 ^ k * 2 ^ (d + 1)
        BY PowerSum
      <4> QED
        BY <4>1, <4>2, <3>1, <3>2
    <3>4. P < P * (2 * D)
      OBVIOUS
    <3> QED
      BY <3>2, <3>3, <3>4
  <2>4. SumSet(Common(v, m, n) \union {2 ^ n}) = SumSet(Common(v, m, n)) + 2 ^ n
    BY <2>2, <2>3, <1>3, SumSetAdd
  <2> QED
    BY <2>1, <2>4, <1>3, <1>4, <1>5
<1>6. CASE ~(Bit(v, n) /\ Bit(m, n))
  <2>1. J(n + 1) = J(n)
    BY <1>6
  <2>2. Common(v, m, n + 1) = {2 ^ k : k \in J(n + 1)}
    BY DEF Common
  <2>3. Common(v, m, n + 1) = Common(v, m, n)
    <3> HIDE DEF J
    <3> QED
      BY <2>1, <2>2, <1>2
  <2>4. SumSet(Common(v, m, n)) + 0 = SumSet(Common(v, m, n))
    BY <1>3
  <2> QED
    BY <2>3, <2>4, <1>3, <1>4, <1>6
<1> QED
  BY <1>5, <1>6

\* What the mask clears is no more than the mask.
LEMMA MaskBound ==
  ASSUME NEW v \in Nat, NEW m \in Nat, NEW N \in Nat
  PROVE  SumSet(Common(v, m, N)) \in Nat /\ SumSet(Common(v, m, N)) <= m
<1> DEFINE T == {n \in 0..N : SumSet(Common(v, m, n)) <= m % 2 ^ n}
<1>1. ASSUME NEW n \in 0..N, \A i \in 0..(n - 1) : i \in T PROVE n \in T
  <2>1. CASE n = 0
    <3>1. SumSet(Common(v, m, 0)) = 0
      BY CommonStep
    <3>2. 2 ^ 0 = 1 /\ m % 1 = 0
      BY PowerZero
    <3> QED
      BY <3>1, <3>2, <2>1
  <2>2. CASE n # 0
    <3>1. PICK i \in Nat : n = i + 1 /\ i \in 0..(n - 1)
      BY <2>2
    <3>2. PICK P \in Nat \ {0} : P = 2 ^ i
      BY PowerDoubles
    <3>3. 2 ^ n = 2 * P
      BY <3>1, <3>2, PowerDoubles
    <3>4. PICK s \in Nat : s = SumSet(Common(v, m, i))
      BY <3>1, CommonStep
    <3>5. SumSet(Common(v, m, n)) = s + (IF Bit(v, i) /\ Bit(m, i) THEN P ELSE 0)
      BY <3>1, <3>2, <3>4, CommonStep
    <3>6. m % (2 * P) = (m % P) + (IF Bit(m, i) THEN P ELSE 0)
      BY <3>2, OneBitMore DEF Bit
    <3>7. s <= m % P /\ m % P \in Nat
      BY <3>1, <3>2, <3>4, <1>1
    <3>8. SumSet(Common(v, m, n)) <= m % 2 ^ n
      <4>1. PICK r \in Nat : r = m % P
        BY <3>7
      <4>2. CASE Bit(m, i)
        <5>1. m % 2 ^ n = r + P
          BY <4>1, <4>2, <3>3, <3>6
        <5>2. SumSet(Common(v, m, n)) \in {s, s + P}
          BY <3>5
        <5> QED
          BY <5>1, <5>2, <4>1, <3>7
      <4>3. CASE ~Bit(m, i)
        <5>1. m % 2 ^ n = r
          BY <4>1, <4>3, <3>3, <3>6
        <5>2. SumSet(Common(v, m, n)) = s
          BY <4>3, <3>5
        <5> QED
          BY <5>1, <5>2, <4>1, <3>7
      <4> QED
        BY <4>2, <4>3
    <3> QED
      BY <3>8
  <2> QED
    BY <2>1, <2>2
<1>2. \A n \in 0..N : n \in T
  <2> HIDE DEF T
  <2> QED
    BY <1>1, UpTo
<1>3. SumSet(Common(v, m, N)) <= m % 2 ^ N
  BY <1>2
<1>4. PICK P \in Nat \ {0} : P = 2 ^ N
  BY PowerDoubles
<1>5. m % P \in Nat /\ m % P <= m
  BY Division
<1>6. SumSet(Common(v, m, N)) \in Nat
  BY CommonStep
<1> QED
  BY <1>3, <1>4, <1>5, <1>6

\* Below a power of two it clears the remainder.
LEMMA MaskRemainder ==
  ASSUME NEW v \in Nat, NEW N \in Nat, NEW k \in 0..N
  PROVE  SumSet(Common(v, 2 ^ k - 1, N)) = v % 2 ^ k
<1> DEFINE m == 2 ^ k - 1
           T == {n \in 0..N : SumSet(Common(v, m, n)) = v % 2 ^ (IF n <= k THEN n ELSE k)}
<1>1. ASSUME NEW n \in 0..N, \A i \in 0..(n - 1) : i \in T PROVE n \in T
  <2>1. CASE n = 0
    <3>1. SumSet(Common(v, m, 0)) = 0
      BY CommonStep
    <3>2. 2 ^ 0 = 1 /\ v % 1 = 0
      BY PowerZero
    <3> QED
      BY <3>1, <3>2, <2>1
  <2>2. CASE n # 0
    <3>1. PICK i \in Nat : n = i + 1 /\ i \in 0..(n - 1)
      BY <2>2
    <3>2. PICK P \in Nat \ {0} : P = 2 ^ i
      BY PowerDoubles
    <3>3. 2 ^ n = 2 * P
      BY <3>1, <3>2, PowerDoubles
    <3>4. Bit(m, i) <=> i < k
      BY MaskBits
    <3>5. PICK s \in Nat : s = SumSet(Common(v, m, i))
      BY <3>1, CommonStep
    <3>6. SumSet(Common(v, m, n)) = s + (IF Bit(v, i) /\ Bit(m, i) THEN P ELSE 0)
      BY <3>1, <3>2, <3>5, CommonStep
    <3>7. s = v % 2 ^ (IF i <= k THEN i ELSE k)
      BY <3>1, <3>5, <1>1
    <3>8. CASE i < k
      <4>1. n <= k /\ i <= k
        BY <3>1, <3>8
      <4>2. v % (2 * P) = (v % P) + (IF Bit(v, i) THEN P ELSE 0)
        BY <3>2, OneBitMore DEF Bit
      <4>3. SumSet(Common(v, m, n)) = v % 2 ^ n
        BY <4>1, <4>2, <3>2, <3>3, <3>4, <3>6, <3>7, <3>8
      <4> QED
        BY <4>1, <4>3
    <3>9. CASE ~(i < k)
      <4>1. ~(n <= k) /\ (i <= k => i = k)
        BY <3>1, <3>9
      <4>2. s = v % 2 ^ k
        BY <4>1, <3>7
      <4>3. SumSet(Common(v, m, n)) = s
        BY <3>4, <3>6, <3>9
      <4> QED
        BY <4>1, <4>2, <4>3
    <3> QED
      BY <3>8, <3>9
  <2> QED
    BY <2>1, <2>2
<1>2. \A n \in 0..N : n \in T
  <2> HIDE DEF T
  <2> QED
    BY <1>1, UpTo
<1>3. N \in T /\ (N <= k => N = k)
  BY <1>2
<1> QED
  BY <1>3

-----------------------------------------------------------------------------
(***************************************************************************)
(* The macros.                                                             *)
(***************************************************************************)

\* ALIGN_UP leads to no lower address, at any alignment but zero; at alignment
\* 1 it leads to the same.
LEMMA AlignUpNotLower ==
  ASSUME NEW v \in Nat, NEW a \in Nat \ {0}
  PROVE  /\ ALIGN_UP(v, a) \in Nat /\ v <= ALIGN_UP(v, a)
         /\ ALIGN_UP(v, 1) = v
<1>1. WordBits \in Nat
  BY WordBitsAssumption
<1>2. \A x \in Nat, c \in Nat \ {0} : ALIGN_DOWN(x, c) = x - SumSet(Common(x, c - 1, WordBits))
  BY DEF ALIGN_DOWN, Common
<1>3. v + a - 1 \in Nat /\ a - 1 \in Nat /\ 1 - 1 = 0 /\ v + 1 - 1 = v
  OBVIOUS
<1>4. PICK s \in Nat : s = SumSet(Common(v + a - 1, a - 1, WordBits)) /\ s <= a - 1
  BY <1>1, <1>3, MaskBound
<1>5. PICK z \in Nat : z = SumSet(Common(v, 0, WordBits)) /\ z <= 0
  BY <1>1, MaskBound
<1>6. ALIGN_UP(v, a) = (v + a - 1) - s
  BY <1>2, <1>3, <1>4 DEF ALIGN_UP
<1>7. ALIGN_UP(v, 1) = v - z
  BY <1>2, <1>3, <1>5 DEF ALIGN_UP
<1> QED
  BY <1>4, <1>5, <1>6, <1>7

\* At a power of two of the word it leads to a multiple.
LEMMA AlignUpMultiple ==
  ASSUME NEW v \in Nat, NEW k \in 0..WordBits
  PROVE  ALIGN_UP(v, 2 ^ k) % 2 ^ k = 0
<1>1. WordBits \in Nat
  BY WordBitsAssumption
<1>2. PICK P \in Nat \ {0} : P = 2 ^ k
  BY <1>1, PowerDoubles
<1>3. PICK x \in Nat : x = v + P - 1
  OBVIOUS
<1>4. ALIGN_UP(v, P) = x - SumSet(Common(x, P - 1, WordBits))
  BY <1>3 DEF ALIGN_UP, ALIGN_DOWN, Common
<1>5. SumSet(Common(x, P - 1, WordBits)) = x % P
  BY <1>1, <1>2, MaskRemainder
<1>6. PICK q, r \in Nat : r = x % P /\ x = P * q + r
  BY Division
<1>7. x - r = P * q + 0 /\ 0 < P /\ 0 \in Nat
  <2>1. P * q \in Nat
    OBVIOUS
  <2> QED
    BY <2>1, <1>6
<1>8. (P * q + 0) % P = 0
  BY <1>7, DivisionUnique
<1> QED
  BY <1>2, <1>4, <1>5, <1>6, <1>7, <1>8

\* A sum of multiples of four is one.
LEMMA SumOfFours ==
  ASSUME NEW S \in SUBSET Nat, IsFiniteSet(S), \A x \in S : \E h \in Nat : x = 4 * h
  PROVE  \E h \in Nat : SumSet(S) = 4 * h
<1> DEFINE N == Cardinality(S)
           T == {m \in 0..N : \A s \in SUBSET S : Cardinality(s) = m => \E h \in Nat : SumSet(s) = 4 * h}
<1>1. N \in Nat /\ \A s \in SUBSET S : IsFiniteSet(s) /\ Cardinality(s) \in Nat
  BY FS_Subset, FS_CardinalityType
<1>2. ASSUME NEW m \in 0..N, \A i \in 0..(m - 1) : i \in T PROVE m \in T
  <2> SUFFICES ASSUME NEW s \in SUBSET S, Cardinality(s) = m PROVE \E h \in Nat : SumSet(s) = 4 * h
    OBVIOUS
  <2>1. IsFiniteSet(s)
    BY <1>1
  <2>2. CASE s = {}
    <3>1. SumSet(s) = 0
      BY <2>1, <2>2, SumSetStep
    <3> QED
      BY <3>1
  <2>3. CASE s # {}
    <3>1. PICK x \in s : SumSet(s) = x + SumSet(s \ {x})
      BY <2>1, <2>3, SumSetStep
    <3>2. Cardinality(s \ {x}) = m - 1 /\ m \in Nat \ {0} /\ s \ {x} \in SUBSET S
      BY <2>1, OneLess
    <3>3. m - 1 \in 0..(m - 1)
      BY <3>2
    <3>4. PICK h \in Nat : SumSet(s \ {x}) = 4 * h
      BY <3>2, <3>3, <1>2
    <3>5. PICK k \in Nat : x = 4 * k
      OBVIOUS
    <3>6. SumSet(s) = 4 * (k + h) /\ k + h \in Nat
      BY <3>1, <3>4, <3>5
    <3> QED
      BY <3>6
  <2> QED
    BY <2>2, <2>3
<1>3. \A m \in 0..N : m \in T
  <2> HIDE DEF T
  <2> QED
    BY <1>1, <1>2, UpTo
<1>4. N \in 0..N /\ S \in SUBSET S
  BY <1>1
<1> QED
  BY <1>3, <1>4

\* The powers the error values need.
LEMMA SmallPowers == 2 ^ 1 = 2 /\ 2 ^ 2 = 4 /\ 2 ^ 8 = 256
<1>1. 2 ^ 1 = 2 /\ 2 ^ 2 = 2 * 2 ^ 1
  BY PowerZero, PowerDoubles
<1>2. 2 ^ 4 = 2 ^ 2 * 2 ^ 2
  <2>1. 2 ^ (2 + 2) = 2 ^ 2 * 2 ^ 2
    BY PowerSum
  <2> QED
    BY <2>1
<1>3. 2 ^ 8 = 2 ^ 4 * 2 ^ 4
  <2>1. 2 ^ (4 + 4) = 2 ^ 4 * 2 ^ 4
    BY PowerSum
  <2> QED
    BY <2>1
<1> QED
  BY <1>1, <1>2, <1>3

-----------------------------------------------------------------------------
(***************************************************************************)
(* Lists linked through a field that leads to smaller numbers only, which  *)
(* is how SiblingsFrom and PropertiesFrom follow sibling and next_prop.    *)
(***************************************************************************)
Descends(next, N) ==
  N \in Nat /\ next \in [1..N -> Nat] /\ \A x \in 1..N : next[x] < x

IsList(next, N, f) ==
  f = [x \in 0..N |-> IF x = 0 THEN << >> ELSE <<x>> \o f[next[x]]]

\* A list from every element on, by following next once.
LEMMA ListStep ==
  ASSUME NEW next, NEW N, Descends(next, N), NEW f, IsList(next, N, f)
  PROVE  /\ DOMAIN f = 0..N
         /\ f[0] = << >>
         /\ \A x \in 1..N : next[x] \in 0..(x - 1) /\ next[x] \in 0..N /\ f[x] = <<x>> \o f[next[x]]
<1>1. N \in Nat /\ next \in [1..N -> Nat] /\ \A x \in 1..N : next[x] < x
  BY DEF Descends
<1> DEFINE e(x) == IF x = 0 THEN << >> ELSE <<x>> \o f[next[x]]
<1>2. f = [x \in 0..N |-> e(x)]
  BY DEF IsList
<1>3. DOMAIN f = 0..N /\ \A x \in 0..N : f[x] = e(x)
  <2> HIDE DEF e
  <2> QED
    BY <1>2
<1>4. 0 \in 0..N
  BY <1>1
<1>5. f[0] = e(0)
  <2> HIDE DEF e
  <2> QED
    BY <1>3, <1>4
<1>6. f[0] = << >>
  BY <1>5
<1>7. ASSUME NEW x \in 1..N
      PROVE  next[x] \in 0..(x - 1) /\ next[x] \in 0..N /\ f[x] = <<x>> \o f[next[x]]
  <2>1. x \in 0..N /\ x # 0 /\ next[x] \in Nat /\ next[x] < x
    BY <1>1
  <2> QED
    BY <2>1, <1>1, <1>3
<1> QED
  BY <1>3, <1>6, <1>7

\* The recursion has a solution.
LEMMA ListExists ==
  ASSUME NEW next, NEW N, Descends(next, N)
  PROVE  \E f : IsList(next, N, f)
<1>1. N \in Nat /\ next \in [1..N -> Nat] /\ \A x \in 1..N : next[x] < x
  BY DEF Descends
<1> DEFINE T == {m \in 0..N : \E f : IsList(next, m, f)}
<1>2. ASSUME NEW m \in 0..N, \A k \in 0..(m - 1) : k \in T PROVE m \in T
  <2>1. CASE m = 0
    <3> DEFINE g == [x \in 0..0 |-> << >>]
    <3>1. \A x \in 0..0 : x = 0
      OBVIOUS
    <3>2. IsList(next, 0, g)
      BY <3>1 DEF IsList
    <3> QED
      BY <3>2, <2>1
  <2>2. CASE m # 0
    <3>1. m \in Nat /\ m - 1 \in 0..(m - 1) /\ m - 1 \in 0..N /\ m \in 1..N
      BY <2>2, <1>1
    <3>2. m - 1 \in T
      BY <3>1, <1>2
    <3>3. PICK f : IsList(next, m - 1, f)
      BY <3>2
    <3>4. Descends(next, N) /\ \A x \in 1..(m - 1) : next[x] \in 0..(x - 1)
      BY <1>1, <3>1
    <3> DEFINE e(x) == IF x = 0 THEN << >> ELSE <<x>> \o f[next[x]]
    <3>5. \A x \in 0..(m - 1) : f[x] = e(x)
      <4>1. f = [x \in 0..(m - 1) |-> e(x)]
        BY <3>3 DEF IsList
      <4> HIDE DEF e
      <4> QED
        BY <4>1
    <3> DEFINE g == [x \in 0..m |-> IF x = m THEN <<m>> \o f[next[m]] ELSE f[x]]
    <3>6. \A x \in 0..(m - 1) : g[x] = f[x]
      BY <3>1
    <3>7. g[m] = <<m>> \o f[next[m]] /\ next[m] \in 0..(m - 1)
      BY <3>1, <1>1
    <3>8. DOMAIN g = 0..m
      OBVIOUS
    <3>9. ASSUME NEW x \in 0..m PROVE g[x] = IF x = 0 THEN << >> ELSE <<x>> \o g[next[x]]
      <4> HIDE DEF g
      <4>1. CASE x = m
        BY <4>1, <3>6, <3>7, <2>2
      <4>2. CASE x # m /\ x = 0
        <5>1. x \in 0..(m - 1)
          BY <4>2, <3>1
        <5>2. g[x] = f[x] /\ f[x] = e(x)
          BY <5>1, <3>6, <3>5
        <5> QED
          BY <5>2, <4>2
      <4>3. CASE x # m /\ x # 0
        <5>1. x \in 1..(m - 1) /\ x \in 0..(m - 1)
          BY <4>3, <3>1
        <5>2. next[x] \in 0..(m - 1)
          BY <5>1, <3>4, <3>1
        <5>3. g[x] = <<x>> \o f[next[x]]
          BY <5>1, <4>3, <3>6, <3>5
        <5> QED
          BY <5>2, <5>3, <3>6, <4>3
      <4> QED
        BY <4>1, <4>2, <4>3
    <3>10. g = [x \in 0..m |-> g[x]]
      BY <3>8
    <3>11. [x \in 0..m |-> g[x]] =
           [x \in 0..m |-> IF x = 0 THEN << >> ELSE <<x>> \o g[next[x]]]
      <4> HIDE DEF g
      <4> QED
        BY <3>9
    <3>12. IsList(next, m, g)
      <4> HIDE DEF g
      <4> QED
        BY <3>10, <3>11 DEF IsList
    <3> QED
      BY <3>12
  <2> QED
    BY <2>1, <2>2
<1>3. \A m \in 0..N : m \in T
  <2> HIDE DEF T
  <2> QED
    BY <1>1, <1>2, UpTo
<1>4. N \in T
  BY <1>1, <1>3
<1> QED
  BY <1>4

\* The elements of a list are numbers no greater than its first; it holds each
\* of them once.
LEMMA ListElements ==
  ASSUME NEW next, NEW N, Descends(next, N), NEW f, IsList(next, N, f)
  PROVE  \A x \in 0..N :
           /\ f[x] \in Seq(1..N)
           /\ \A e \in ToSet(f[x]) : e \in 1..x
           /\ IsFiniteSet(ToSet(f[x]))
           /\ Cardinality(ToSet(f[x])) = Len(f[x])
           /\ x # 0 => ToSet(f[x]) = {x} \union ToSet(f[next[x]])
<1>1. /\ DOMAIN f = 0..N
      /\ f[0] = << >>
      /\ \A x \in 1..N : next[x] \in 0..(x - 1) /\ next[x] \in 0..N /\ f[x] = <<x>> \o f[next[x]]
  BY ListStep, SMTT(20)
<1>2. N \in Nat
  BY DEF Descends
<1> DEFINE Good(x) == /\ f[x] \in Seq(1..N)
                      /\ \A e \in ToSet(f[x]) : e \in 1..x
                      /\ IsFiniteSet(ToSet(f[x]))
                      /\ Cardinality(ToSet(f[x])) = Len(f[x])
                      /\ x # 0 => ToSet(f[x]) = {x} \union ToSet(f[next[x]])
           T == {x \in 0..N : Good(x)}
<1>3. ASSUME NEW x \in 0..N, \A m \in 0..(x - 1) : m \in T PROVE Good(x)
  <2>1. CASE x = 0
    <3>1. f[x] = << >> /\ ToSet(f[x]) = {}
      BY <2>1, <1>1 DEF ToSet
    <3>2. << >> \in Seq(1..N) /\ Len(<< >>) = 0
      BY EmptySeq
    <3>3. IsFiniteSet({}) /\ Cardinality({}) = 0
      BY FS_EmptySet
    <3> QED
      BY <3>1, <3>2, <3>3, <2>1
  <2>2. CASE x # 0
    <3> DEFINE y == next[x]
    <3>1. x \in 1..N /\ y \in 0..(x - 1) /\ y \in 0..N /\ f[x] = <<x>> \o f[y]
      BY <2>2, <1>1
    <3>2. Good(y)
      BY <3>1, <1>3
    <3> HIDE DEF y
    <3>3. /\ f[y] \in Seq(1..N) /\ IsFiniteSet(ToSet(f[y]))
          /\ Cardinality(ToSet(f[y])) = Len(f[y])
          /\ \A e \in ToSet(f[y]) : e \in 1..y
      BY <3>2
    <3> HIDE DEF Good
    <3>4. <<x>> \in Seq(1..N) /\ Len(<<x>>) = 1 /\ <<x>>[1] = x
      BY <3>1
    <3>5. /\ f[x] \in Seq(1..N) /\ Len(f[x]) = 1 + Len(f[y])
          /\ \A i \in 1..(1 + Len(f[y])) : f[x][i] = IF i <= 1 THEN <<x>>[i] ELSE f[y][i - 1]
      BY <3>1, <3>3, <3>4, ConcatProperties
    <3>6. Len(f[y]) \in Nat /\ DOMAIN f[x] = 1..(1 + Len(f[y])) /\ DOMAIN f[y] = 1..Len(f[y])
      BY <3>3, <3>5, LenProperties
    <3>7. ToSet(f[x]) = {x} \union ToSet(f[y])
      <4>1. ASSUME NEW i \in DOMAIN f[x] PROVE f[x][i] \in {x} \union ToSet(f[y])
        <5>1. CASE i = 1
          BY <5>1, <3>5, <3>6, <3>4
        <5>2. CASE i # 1
          <6>1. i - 1 \in DOMAIN f[y] /\ f[x][i] = f[y][i - 1]
            BY <5>2, <3>5, <3>6
          <6> QED
            BY <6>1 DEF ToSet
        <5> QED
          BY <5>1, <5>2
      <4>2. 1 \in DOMAIN f[x] /\ f[x][1] = x
        BY <3>5, <3>6, <3>4
      <4>3. ASSUME NEW i \in DOMAIN f[y] PROVE \E j \in DOMAIN f[x] : f[x][j] = f[y][i]
        <5>1. i + 1 \in DOMAIN f[x] /\ f[x][i + 1] = f[y][i]
          BY <3>5, <3>6
        <5> QED
          BY <5>1
      <4> QED
        BY <4>1, <4>2, <4>3 DEF ToSet
    <3>8. x \notin ToSet(f[y])
      BY <3>3, <3>1
    <3>9. /\ IsFiniteSet(ToSet(f[x]))
          /\ Cardinality(ToSet(f[x])) = Cardinality(ToSet(f[y])) + 1
      <4>1. {x} \union ToSet(f[y]) = ToSet(f[y]) \union {x}
        OBVIOUS
      <4> QED
        BY <4>1, <3>3, <3>7, <3>8, FS_AddElement
    <3>10. \A e \in ToSet(f[x]) : e \in 1..x
      BY <3>3, <3>7, <3>1
    <3> QED
      BY <3>3, <3>5, <3>6, <3>7, <3>9, <3>10 DEF Good, y
  <2> QED
    BY <2>1, <2>2
<1>4. \A x \in 0..N : x \in T
  <2>1. ASSUME NEW x \in 0..N, \A m \in 0..(x - 1) : m \in T PROVE x \in T
    BY <2>1, <1>3
  <2> HIDE DEF T
  <2> QED
    BY <2>1, <1>2, UpTo
<1> QED
  BY <1>4

\* Lists that follow the same links are the same, also where one goes further.
LEMMA ListsAgree ==
  ASSUME NEW next, NEW N, Descends(next, N), NEW f, IsList(next, N, f),
         NEW more, NEW M, Descends(more, M), NEW g, IsList(more, M, g),
         N <= M, \A x \in 1..N : more[x] = next[x]
  PROVE  \A x \in 0..N : g[x] = f[x]
<1>1. /\ f[0] = << >>
      /\ \A x \in 1..N : next[x] \in 0..(x - 1) /\ next[x] \in 0..N /\ f[x] = <<x>> \o f[next[x]]
  BY ListStep
<1>2. /\ g[0] = << >>
      /\ \A x \in 1..M : more[x] \in 0..(x - 1) /\ more[x] \in 0..M /\ g[x] = <<x>> \o g[more[x]]
  BY ListStep
<1>3. N \in Nat /\ M \in Nat
  BY DEF Descends
<1> DEFINE T == {x \in 0..N : g[x] = f[x]}
<1>4. ASSUME NEW x \in 0..N, \A m \in 0..(x - 1) : m \in T PROVE x \in T
  <2>1. CASE x = 0
    BY <2>1, <1>1, <1>2
  <2>2. CASE x # 0
    <3>1. x \in 1..N /\ x \in 1..M
      BY <2>2, <1>3
    <3>2. next[x] \in 0..(x - 1) /\ more[x] = next[x]
      BY <3>1, <1>1
    <3>3. g[next[x]] = f[next[x]]
      BY <3>2, <1>4
    <3> QED
      BY <3>1, <3>2, <3>3, <1>1, <1>2
  <2> QED
    BY <2>1, <2>2
<1>5. \A x \in 0..N : x \in T
  <2> HIDE DEF T
  <2> QED
    BY <1>3, <1>4, UpTo
<1> QED
  BY <1>5

\* A list holds no element twice.
LEMMA ListDistinct ==
  ASSUME NEW next, NEW N, Descends(next, N), NEW f, IsList(next, N, f)
  PROVE  \A x \in 0..N : \A i, j \in 1..Len(f[x]) : f[x][i] = f[x][j] => i = j
<1>1. /\ DOMAIN f = 0..N
      /\ f[0] = << >>
      /\ \A x \in 1..N : next[x] \in 0..(x - 1) /\ next[x] \in 0..N /\ f[x] = <<x>> \o f[next[x]]
  BY ListStep, SMTT(20)
<1>2. \A x \in 0..N :
           /\ f[x] \in Seq(1..N)
           /\ \A e \in ToSet(f[x]) : e \in 1..x
           /\ IsFiniteSet(ToSet(f[x]))
           /\ Cardinality(ToSet(f[x])) = Len(f[x])
           /\ x # 0 => ToSet(f[x]) = {x} \union ToSet(f[next[x]])
  BY ListElements
<1>3. N \in Nat
  BY DEF Descends
<1> DEFINE T == {x \in 0..N : \A i, j \in 1..Len(f[x]) : f[x][i] = f[x][j] => i = j}
<1>4. ASSUME NEW x \in 0..N, \A m \in 0..(x - 1) : m \in T PROVE x \in T
  <2>1. CASE x = 0
    <3>1. 1..Len(f[x]) = {}
      BY <2>1, <1>1, EmptySeq
    <3> QED
      BY <3>1
  <2>2. CASE x # 0
    <3>1. x \in 1..N
      BY <2>2, <1>3
    <3>2. next[x] \in 0..(x - 1) /\ next[x] \in 0..N /\ f[x] = <<x>> \o f[next[x]]
      BY <3>1, <1>1
    <3> DEFINE s == f[next[x]]
    <3>3. s \in Seq(1..N) /\ \A e \in ToSet(s) : e \in 1..next[x]
      BY <3>2, <1>2
    <3>4. \A i, j \in 1..Len(s) : s[i] = s[j] => i = j
      BY <3>2, <1>4
    <3>5. PICK L \in Nat : L = Len(s)
      BY <3>3, LenProperties
    <3> HIDE DEF s
    <3>6. Len(<<x>> \o s) = L + 1 /\ (<<x>> \o s)[1] = x
          /\ \A i \in 2..(L + 1) : (<<x>> \o s)[i] = s[i - 1]
      <4>1. <<x>> \in Seq(1..N) /\ s \in Seq(1..N) /\ Len(<<x>>) = 1 /\ <<x>>[1] = x
        BY <3>1, <3>3
      <4>2. /\ Len(<<x>> \o s) = 1 + L
            /\ \A i \in 1..(1 + L) : (<<x>> \o s)[i] = IF i <= 1 THEN <<x>>[i] ELSE s[i - 1]
        BY <4>1, <3>5, ConcatProperties
      <4> QED
        BY <4>1, <4>2
    <3>7. \A i \in 1..L : s[i] # x
      <4>1. \A i \in 1..L : s[i] \in ToSet(s)
        <5>1. DOMAIN s = 1..L
          BY <3>3, <3>5, LenProperties
        <5> QED
          BY <5>1 DEF ToSet
      <4>2. x \notin 1..next[x]
        BY <3>2
      <4> QED
        BY <4>1, <4>2, <3>3
    <3>8. ASSUME NEW i \in 1..(L + 1), NEW j \in 1..(L + 1), (<<x>> \o s)[i] = (<<x>> \o s)[j]
          PROVE  i = j
      <4>1. \A a \in 1..(L + 1) : a = 1 \/ (a \in 2..(L + 1) /\ a - 1 \in 1..L)
        OBVIOUS
      <4>2. CASE i = 1 \/ j = 1
        BY <4>1, <4>2, <3>6, <3>7, <3>8
      <4>3. CASE i # 1 /\ j # 1
        <5>1. s[i - 1] = s[j - 1] /\ i - 1 \in 1..Len(s) /\ j - 1 \in 1..Len(s)
          BY <4>1, <4>3, <3>5, <3>6, <3>8
        <5>2. i - 1 = j - 1
          BY <5>1, <3>4
        <5> QED
          BY <5>2
      <4> QED
        BY <4>2, <4>3
    <3>9. f[x] = <<x>> \o s
      BY <3>2 DEF s
    <3> QED
      BY <3>6, <3>8, <3>9
  <2> QED
    BY <2>1, <2>2
<1>5. \A x \in 0..N : x \in T
  <2> HIDE DEF T
  <2> QED
    BY <1>3, <1>4, UpTo
<1> QED
  BY <1>5

-----------------------------------------------------------------------------
(***************************************************************************)
(* What a sequence of tokens says: Starts, Ends, Depth, OpenAt and StartOf *)
(* of DeviceTree, for a sequence t.                                        *)
(***************************************************************************)
StartsOf(t, k) == {j \in 1..k : t[j].kind = "NODE_START"}
EndsOf(t, k)   == {j \in 1..k : t[j].kind = "NODE_END"}
DepthOf(t, k)  == Cardinality(StartsOf(t, k)) - Cardinality(EndsOf(t, k))

OpenOf(t, k, d) ==
  IF d <= 0 THEN 0
  ELSE Cardinality(StartsOf(t, Max({j \in StartsOf(t, k) : DepthOf(t, j) = d})))

FirstOf(t, L, n) == CHOOSE k \in StartsOf(t, L) : Cardinality(StartsOf(t, k)) = n

\* A set of numbers up to a bound has a greatest element.
LEMMA Greatest ==
  ASSUME NEW L \in Nat, NEW T \in SUBSET (0..L), T # {}
  PROVE  Max(T) \in T /\ \A y \in T : y <= Max(T)
<1> DEFINE U == {L - y : y \in T}
<1>1. U \in SUBSET Nat /\ U # {}
  <2>1. \A y \in T : L - y \in Nat
    OBVIOUS
  <2>2. PICK y \in T : TRUE
    OBVIOUS
  <2>3. L - y \in U
    OBVIOUS
  <2> QED
    BY <2>1, <2>3
<1>2. PICK x \in U : \A y \in U : x <= y
  BY <1>1, LeastNumber
<1>3. PICK m \in T : x = L - m
  OBVIOUS
<1>4. ASSUME NEW y \in T PROVE m >= y
  <2>1. x <= L - y
    BY <1>2
  <2> QED
    BY <2>1, <1>3
<1>5. Max(T) \in T /\ \A y \in T : Max(T) >= y
  BY <1>4 DEF Max
<1> QED
  BY <1>5

\* The numbers are numbers.
LEMMA CountsTyped ==
  ASSUME NEW t, NEW k \in Nat
  PROVE  /\ IsFiniteSet(StartsOf(t, k)) /\ Cardinality(StartsOf(t, k)) \in Nat
         /\ IsFiniteSet(EndsOf(t, k)) /\ Cardinality(EndsOf(t, k)) \in Nat
         /\ DepthOf(t, k) \in Int
<1>1. IsFiniteSet(1..k)
  BY FS_Interval
<1>2. StartsOf(t, k) \in SUBSET (1..k) /\ EndsOf(t, k) \in SUBSET (1..k)
  BY DEF StartsOf, EndsOf
<1>3. IsFiniteSet(StartsOf(t, k)) /\ IsFiniteSet(EndsOf(t, k))
  BY <1>1, <1>2, FS_Subset
<1>4. Cardinality(StartsOf(t, k)) \in Nat /\ Cardinality(EndsOf(t, k)) \in Nat
  BY <1>3, FS_CardinalityType
<1> QED
  BY <1>3, <1>4 DEF DepthOf

\* One more token: what it adds to the nodes begun and to the depth.
LEMMA OneMore ==
  ASSUME NEW t, NEW k \in Nat
  PROVE  /\ StartsOf(t, k + 1) = IF t[k + 1].kind = "NODE_START"
                                 THEN StartsOf(t, k) \union {k + 1} ELSE StartsOf(t, k)
         /\ Cardinality(StartsOf(t, k + 1)) =
              Cardinality(StartsOf(t, k)) + IF t[k + 1].kind = "NODE_START" THEN 1 ELSE 0
         /\ DepthOf(t, k + 1) = DepthOf(t, k) +
              (IF t[k + 1].kind = "NODE_START" THEN 1
               ELSE IF t[k + 1].kind = "NODE_END" THEN -1 ELSE 0)
<1>1. \A j : j \in 1..(k + 1) <=> j \in 1..k \/ j = k + 1
  OBVIOUS
<1>2. k + 1 \notin StartsOf(t, k) /\ k + 1 \notin EndsOf(t, k)
  BY DEF StartsOf, EndsOf
<1>3. StartsOf(t, k + 1) = IF t[k + 1].kind = "NODE_START"
                           THEN StartsOf(t, k) \union {k + 1} ELSE StartsOf(t, k)
  <2>1. CASE t[k + 1].kind = "NODE_START"
    BY <2>1, <1>1 DEF StartsOf
  <2>2. CASE t[k + 1].kind # "NODE_START"
    BY <2>2, <1>1 DEF StartsOf
  <2> QED
    BY <2>1, <2>2
<1>4. EndsOf(t, k + 1) = IF t[k + 1].kind = "NODE_END"
                         THEN EndsOf(t, k) \union {k + 1} ELSE EndsOf(t, k)
  <2>1. CASE t[k + 1].kind = "NODE_END"
    BY <2>1, <1>1 DEF EndsOf
  <2>2. CASE t[k + 1].kind # "NODE_END"
    BY <2>2, <1>1 DEF EndsOf
  <2> QED
    BY <2>1, <2>2
<1>5. /\ IsFiniteSet(StartsOf(t, k)) /\ Cardinality(StartsOf(t, k)) \in Nat
      /\ IsFiniteSet(EndsOf(t, k)) /\ Cardinality(EndsOf(t, k)) \in Nat
  BY CountsTyped
<1>6. Cardinality(StartsOf(t, k) \union {k + 1}) = Cardinality(StartsOf(t, k)) + 1
  BY <1>2, <1>5, FS_AddElement
<1>7. Cardinality(EndsOf(t, k) \union {k + 1}) = Cardinality(EndsOf(t, k)) + 1
  BY <1>2, <1>5, FS_AddElement
<1>8. Cardinality(StartsOf(t, k + 1)) =
        Cardinality(StartsOf(t, k)) + IF t[k + 1].kind = "NODE_START" THEN 1 ELSE 0
  BY <1>3, <1>5, <1>6
<1>9. Cardinality(EndsOf(t, k + 1)) =
        Cardinality(EndsOf(t, k)) + IF t[k + 1].kind = "NODE_END" THEN 1 ELSE 0
  BY <1>4, <1>5, <1>7
<1>10. "NODE_START" # "NODE_END"
  OBVIOUS
<1> QED
  BY <1>3, <1>5, <1>8, <1>9, <1>10 DEF DepthOf

\* Where the parser is at some depth, a node was begun at every smaller one.
LEMMA Nested ==
  ASSUME NEW t, NEW L \in Nat
  PROVE  \A k \in 0..L : \A d \in 1..DepthOf(t, k) : \E j \in StartsOf(t, k) : DepthOf(t, j) = d
<1> DEFINE Good(k) == \A d \in 1..DepthOf(t, k) : \E j \in StartsOf(t, k) : DepthOf(t, j) = d
           T == {k \in 0..L : Good(k)}
<1>1. ASSUME NEW k \in 0..L, \A m \in 0..(k - 1) : m \in T PROVE Good(k)
  <2>1. CASE k = 0
    <3>1. StartsOf(t, k) = {} /\ EndsOf(t, k) = {}
      BY <2>1 DEF StartsOf, EndsOf
    <3>2. DepthOf(t, k) = 0
      BY <3>1, FS_EmptySet DEF DepthOf
    <3> QED
      BY <3>2
  <2>2. CASE k # 0
    <3>1. k - 1 \in 0..(k - 1) /\ k - 1 \in Nat /\ (k - 1) + 1 = k /\ k \in Nat
      BY <2>2
    <3>2. Good(k - 1)
      BY <3>1, <1>1
    <3>3. /\ StartsOf(t, k) = IF t[k].kind = "NODE_START"
                              THEN StartsOf(t, k - 1) \union {k} ELSE StartsOf(t, k - 1)
          /\ DepthOf(t, k) = DepthOf(t, k - 1) +
                (IF t[k].kind = "NODE_START" THEN 1
                 ELSE IF t[k].kind = "NODE_END" THEN -1 ELSE 0)
      <4>1. /\ StartsOf(t, (k - 1) + 1) = IF t[(k - 1) + 1].kind = "NODE_START"
                              THEN StartsOf(t, k - 1) \union {(k - 1) + 1} ELSE StartsOf(t, k - 1)
            /\ DepthOf(t, (k - 1) + 1) = DepthOf(t, k - 1) +
                (IF t[(k - 1) + 1].kind = "NODE_START" THEN 1
                 ELSE IF t[(k - 1) + 1].kind = "NODE_END" THEN -1 ELSE 0)
        BY <3>1, OneMore
      <4> QED
        BY <4>1, <3>1
    <3>4. DepthOf(t, k - 1) \in Int /\ DepthOf(t, k) \in Int
      BY <3>1, CountsTyped
    <3>5. ASSUME NEW d \in 1..DepthOf(t, k) PROVE \E j \in StartsOf(t, k) : DepthOf(t, j) = d
      <4>1. CASE d <= DepthOf(t, k - 1)
        <5>1. d \in 1..DepthOf(t, k - 1)
          BY <4>1, <3>4
        <5>2. PICK j \in StartsOf(t, k - 1) : DepthOf(t, j) = d
          BY <5>1, <3>2
        <5>3. j \in StartsOf(t, k)
          BY <5>2, <3>3
        <5> QED
          BY <5>2, <5>3
      <4>2. CASE ~(d <= DepthOf(t, k - 1))
        <5>1. t[k].kind = "NODE_START" /\ d = DepthOf(t, k)
          BY <4>2, <3>3, <3>4
        <5>2. k \in StartsOf(t, k)
          BY <5>1, <3>3
        <5> QED
          BY <5>1, <5>2
      <4> QED
        BY <4>1, <4>2
    <3> QED
      BY <3>5
  <2> QED
    BY <2>1, <2>2
<1>2. \A k \in 0..L : k \in T
  <2>1. ASSUME NEW k \in 0..L, \A m \in 0..(k - 1) : m \in T PROVE k \in T
    BY <2>1, <1>1
  <2> HIDE DEF T
  <2> QED
    BY <2>1, UpTo
<1> QED
  BY <1>2

\* The nodes begun are numbered without gaps.
LEMMA Numbered ==
  ASSUME NEW t, NEW L \in Nat
  PROVE  \A k \in 0..L : \A n \in 1..Cardinality(StartsOf(t, k)) :
           \E j \in StartsOf(t, k) : Cardinality(StartsOf(t, j)) = n
<1> DEFINE Good(k) == \A n \in 1..Cardinality(StartsOf(t, k)) :
                        \E j \in StartsOf(t, k) : Cardinality(StartsOf(t, j)) = n
           T == {k \in 0..L : Good(k)}
<1>1. ASSUME NEW k \in 0..L, \A m \in 0..(k - 1) : m \in T PROVE Good(k)
  <2>1. CASE k = 0
    <3>1. StartsOf(t, k) = {}
      BY <2>1 DEF StartsOf
    <3>2. Cardinality(StartsOf(t, k)) = 0
      BY <3>1, FS_EmptySet
    <3> QED
      BY <3>2
  <2>2. CASE k # 0
    <3>1. k - 1 \in 0..(k - 1) /\ k - 1 \in Nat /\ (k - 1) + 1 = k /\ k \in Nat
      BY <2>2
    <3>2. Good(k - 1)
      BY <3>1, <1>1
    <3>3. /\ StartsOf(t, k) = IF t[k].kind = "NODE_START"
                              THEN StartsOf(t, k - 1) \union {k} ELSE StartsOf(t, k - 1)
          /\ Cardinality(StartsOf(t, k)) =
               Cardinality(StartsOf(t, k - 1)) + IF t[k].kind = "NODE_START" THEN 1 ELSE 0
      <4>1. /\ StartsOf(t, (k - 1) + 1) = IF t[(k - 1) + 1].kind = "NODE_START"
                              THEN StartsOf(t, k - 1) \union {(k - 1) + 1} ELSE StartsOf(t, k - 1)
            /\ Cardinality(StartsOf(t, (k - 1) + 1)) =
                 Cardinality(StartsOf(t, k - 1)) + IF t[(k - 1) + 1].kind = "NODE_START" THEN 1 ELSE 0
        BY <3>1, OneMore
      <4> QED
        BY <4>1, <3>1
    <3>4. Cardinality(StartsOf(t, k - 1)) \in Nat /\ Cardinality(StartsOf(t, k)) \in Nat
      BY <3>1, CountsTyped
    <3>5. ASSUME NEW n \in 1..Cardinality(StartsOf(t, k))
          PROVE  \E j \in StartsOf(t, k) : Cardinality(StartsOf(t, j)) = n
      <4>1. CASE n <= Cardinality(StartsOf(t, k - 1))
        <5>1. n \in 1..Cardinality(StartsOf(t, k - 1))
          BY <4>1, <3>4
        <5>2. PICK j \in StartsOf(t, k - 1) : Cardinality(StartsOf(t, j)) = n
          BY <5>1, <3>2
        <5>3. j \in StartsOf(t, k)
          BY <5>2, <3>3
        <5> QED
          BY <5>2, <5>3
      <4>2. CASE ~(n <= Cardinality(StartsOf(t, k - 1)))
        <5>1. t[k].kind = "NODE_START" /\ n = Cardinality(StartsOf(t, k))
          BY <4>2, <3>3, <3>4
        <5>2. k \in StartsOf(t, k)
          BY <5>1, <3>3
        <5> QED
          BY <5>1, <5>2
      <4> QED
        BY <4>1, <4>2
    <3> QED
      BY <3>5
  <2> QED
    BY <2>1, <2>2
<1>2. \A k \in 0..L : k \in T
  <2>1. ASSUME NEW k \in 0..L, \A m \in 0..(k - 1) : m \in T PROVE k \in T
    BY <2>1, <1>1
  <2> HIDE DEF T
  <2> QED
    BY <2>1, UpTo
<1> QED
  BY <1>2

\* No two tokens begin the node of the same number.
LEMMA NumberedOnce ==
  ASSUME NEW t, NEW L \in Nat, NEW i \in StartsOf(t, L), NEW j \in StartsOf(t, L),
         Cardinality(StartsOf(t, i)) = Cardinality(StartsOf(t, j))
  PROVE  i = j
<1>1. ASSUME NEW a \in StartsOf(t, L), NEW b \in StartsOf(t, L), a < b
      PROVE  Cardinality(StartsOf(t, a)) < Cardinality(StartsOf(t, b))
  <2>1. a \in 1..L /\ b \in 1..L /\ a \in Nat /\ b \in Nat /\ t[b].kind = "NODE_START"
    BY DEF StartsOf
  <2>2. /\ IsFiniteSet(StartsOf(t, a)) /\ Cardinality(StartsOf(t, a)) \in Nat
        /\ IsFiniteSet(StartsOf(t, b)) /\ Cardinality(StartsOf(t, b)) \in Nat
    BY <2>1, CountsTyped
  <2>3. StartsOf(t, a) \union {b} \in SUBSET StartsOf(t, b) /\ b \notin StartsOf(t, a)
    BY <2>1, <1>1 DEF StartsOf
  <2>4. Cardinality(StartsOf(t, a) \union {b}) = Cardinality(StartsOf(t, a)) + 1
    BY <2>2, <2>3, FS_AddElement
  <2>5. Cardinality(StartsOf(t, a) \union {b}) <= Cardinality(StartsOf(t, b))
    BY <2>2, <2>3, FS_Subset
  <2> QED
    BY <2>2, <2>4, <2>5
<1>2. i \in Nat /\ j \in Nat
  BY DEF StartsOf
<1>3. Cardinality(StartsOf(t, i)) \in Nat /\ Cardinality(StartsOf(t, j)) \in Nat
  BY <1>2, CountsTyped
<1>4. ~(i < j) /\ ~(j < i)
  BY <1>1, <1>3
<1> QED
  BY <1>2, <1>4

\* FirstOf is the token that begins a node, and no other.
LEMMA FirstOfIs ==
  ASSUME NEW t, NEW L \in Nat, NEW n \in 1..Cardinality(StartsOf(t, L))
  PROVE  /\ FirstOf(t, L, n) \in StartsOf(t, L)
         /\ FirstOf(t, L, n) \in 1..L /\ t[FirstOf(t, L, n)].kind = "NODE_START"
         /\ Cardinality(StartsOf(t, FirstOf(t, L, n))) = n
         /\ \A j \in StartsOf(t, L) : Cardinality(StartsOf(t, j)) = n => j = FirstOf(t, L, n)
<1>1. L \in 0..L
  OBVIOUS
<1>2. \E j \in StartsOf(t, L) : Cardinality(StartsOf(t, j)) = n
  BY <1>1, Numbered
<1>3. /\ FirstOf(t, L, n) \in StartsOf(t, L)
      /\ Cardinality(StartsOf(t, FirstOf(t, L, n))) = n
  BY <1>2 DEF FirstOf
<1>4. FirstOf(t, L, n) \in 1..L /\ t[FirstOf(t, L, n)].kind = "NODE_START"
  BY <1>3 DEF StartsOf
<1>5. ASSUME NEW j \in StartsOf(t, L), Cardinality(StartsOf(t, j)) = n
      PROVE  j = FirstOf(t, L, n)
  <2> DEFINE i == FirstOf(t, L, n)
  <2>1. i \in StartsOf(t, L) /\ Cardinality(StartsOf(t, i)) = Cardinality(StartsOf(t, j))
    BY <1>3, <1>5
  <2> HIDE DEF i
  <2>2. i = j
    BY <2>1, NumberedOnce
  <2> QED
    BY <2>2 DEF i
<1> QED
  BY <1>3, <1>4, <1>5

\* The greatest of the tokens that begin a node at a depth, where there is one.
LEMMA LastAt ==
  ASSUME NEW t, NEW k \in Nat, NEW d, NEW j \in StartsOf(t, k), DepthOf(t, j) = d
  PROVE  LET S == {i \in StartsOf(t, k) : DepthOf(t, i) = d}
         IN  Max(S) \in S /\ (\A i \in S : i <= Max(S)) /\ Max(S) \in 1..k
<1> DEFINE S == {i \in StartsOf(t, k) : DepthOf(t, i) = d}
<1>1. S \in SUBSET (0..k) /\ S # {} /\ S \in SUBSET (1..k)
  BY DEF StartsOf
<1>2. Max(S) \in S /\ \A i \in S : i <= Max(S)
  <2> HIDE DEF S
  <2> QED
    BY <1>1, Greatest
<1> QED
  BY <1>1, <1>2

\* What the first L tokens say depends on no other token.
LEMMA SamePrefix ==
  ASSUME NEW t, NEW u, NEW L \in Nat, \A j \in 1..L : u[j] = t[j]
  PROVE  \A k \in 0..L : /\ StartsOf(u, k) = StartsOf(t, k)
                         /\ DepthOf(u, k) = DepthOf(t, k)
<1> SUFFICES ASSUME NEW k \in 0..L
             PROVE  StartsOf(u, k) = StartsOf(t, k) /\ DepthOf(u, k) = DepthOf(t, k)
  OBVIOUS
<1>1. \A j \in 1..k : u[j] = t[j]
  OBVIOUS
<1>2. StartsOf(u, k) = StartsOf(t, k) /\ EndsOf(u, k) = EndsOf(t, k)
  BY <1>1 DEF StartsOf, EndsOf
<1> QED
  BY <1>2 DEF DepthOf

\* In particular the nodes open do not.
LEMMA SameOpen ==
  ASSUME NEW t, NEW u, NEW L \in Nat, \A j \in 1..L : u[j] = t[j],
         NEW k \in 0..L, NEW d \in Int, d <= DepthOf(t, k)
  PROVE  OpenOf(u, k, d) = OpenOf(t, k, d)
<1>1. \A i \in 0..L : StartsOf(u, i) = StartsOf(t, i) /\ DepthOf(u, i) = DepthOf(t, i)
  BY SamePrefix
<1>2. CASE d <= 0
  BY <1>2 DEF OpenOf
<1>3. CASE ~(d <= 0)
  <2> DEFINE S == {i \in StartsOf(t, k) : DepthOf(t, i) = d}
             V == {i \in StartsOf(u, k) : DepthOf(u, i) = d}
  <2>1. k \in Nat /\ DepthOf(t, k) \in Int
    BY CountsTyped
  <2>2. d \in 1..DepthOf(t, k)
    BY <1>3, <2>1
  <2>3. PICK j \in StartsOf(t, k) : DepthOf(t, j) = d
    BY <2>2, Nested
  <2>4. Max(S) \in 1..k
    BY <2>1, <2>3, LastAt
  <2>5. V = S
    <3>1. \A i \in StartsOf(t, k) : i \in 0..L
      BY DEF StartsOf
    <3> QED
      BY <3>1, <1>1
  <2>6. StartsOf(u, Max(S)) = StartsOf(t, Max(S))
    <3> HIDE DEF S
    <3>1. Max(S) \in 0..L
      BY <2>4
    <3> QED
      BY <3>1, <1>1
  <2>7. OpenOf(u, k, d) = Cardinality(StartsOf(u, Max(V)))
    BY <1>3 DEF OpenOf
  <2>8. OpenOf(t, k, d) = Cardinality(StartsOf(t, Max(S)))
    BY <1>3 DEF OpenOf
  <2> HIDE DEF S, V
  <2> QED
    BY <2>5, <2>6, <2>7, <2>8
<1> QED
  BY <1>2, <1>3

\* One more token: the node it begins is the one open at the new depth, and
\* nothing else changes.
LEMMA OneMoreOpen ==
  ASSUME NEW t, NEW k \in Nat
  PROVE  /\ t[k + 1].kind = "NODE_START" /\ DepthOf(t, k) >= 0 =>
              OpenOf(t, k + 1, DepthOf(t, k) + 1) = Cardinality(StartsOf(t, k)) + 1
         /\ \A d \in Int : d <= DepthOf(t, k) \/ t[k + 1].kind # "NODE_START" =>
              OpenOf(t, k + 1, d) = OpenOf(t, k, d)
<1>1. /\ StartsOf(t, k + 1) = IF t[k + 1].kind = "NODE_START"
                              THEN StartsOf(t, k) \union {k + 1} ELSE StartsOf(t, k)
      /\ Cardinality(StartsOf(t, k + 1)) =
           Cardinality(StartsOf(t, k)) + IF t[k + 1].kind = "NODE_START" THEN 1 ELSE 0
      /\ DepthOf(t, k + 1) = DepthOf(t, k) +
           (IF t[k + 1].kind = "NODE_START" THEN 1
            ELSE IF t[k + 1].kind = "NODE_END" THEN -1 ELSE 0)
  BY OneMore
<1>2. DepthOf(t, k) \in Int /\ k + 1 \in Nat
  BY CountsTyped
<1>3. ASSUME t[k + 1].kind = "NODE_START", DepthOf(t, k) >= 0
      PROVE  OpenOf(t, k + 1, DepthOf(t, k) + 1) = Cardinality(StartsOf(t, k)) + 1
  <2> DEFINE d == DepthOf(t, k) + 1
             S == {i \in StartsOf(t, k + 1) : DepthOf(t, i) = d}
  <2>1. k + 1 \in StartsOf(t, k + 1) /\ DepthOf(t, k + 1) = d
    BY <1>1, <1>3
  <2>2. d \in Int /\ ~(d <= 0)
    BY <1>2, <1>3
  <2> HIDE DEF d
  <2>3. Max(S) \in S /\ (\A i \in S : i <= Max(S)) /\ Max(S) \in 1..(k + 1)
    BY <2>1, <1>2, LastAt
  <2>4. k + 1 \in S
    BY <2>1
  <2>5. Max(S) = k + 1
    <3> HIDE DEF S
    <3> QED
      BY <2>3, <2>4
  <2>6. OpenOf(t, k + 1, d) = Cardinality(StartsOf(t, Max(S)))
    BY <2>2 DEF OpenOf
  <2> HIDE DEF S
  <2>7. OpenOf(t, k + 1, d) = Cardinality(StartsOf(t, k)) + 1
    BY <2>5, <2>6, <1>1, <1>3
  <2> QED
    BY <2>7 DEF d
<1>4. ASSUME NEW d \in Int, d <= DepthOf(t, k) \/ t[k + 1].kind # "NODE_START"
      PROVE  OpenOf(t, k + 1, d) = OpenOf(t, k, d)
  <2> DEFINE S == {i \in StartsOf(t, k) : DepthOf(t, i) = d}
             V == {i \in StartsOf(t, k + 1) : DepthOf(t, i) = d}
  <2>1. V = S
    <3>1. CASE t[k + 1].kind # "NODE_START"
      BY <3>1, <1>1
    <3>2. CASE t[k + 1].kind = "NODE_START"
      <4>1. DepthOf(t, k + 1) # d
        BY <3>2, <1>1, <1>2, <1>4
      <4> QED
        BY <4>1, <3>2, <1>1
    <3> QED
      BY <3>1, <3>2
  <2>2. OpenOf(t, k, d) = IF d <= 0 THEN 0 ELSE Cardinality(StartsOf(t, Max(S)))
    BY DEF OpenOf
  <2>3. OpenOf(t, k + 1, d) = IF d <= 0 THEN 0 ELSE Cardinality(StartsOf(t, Max(V)))
    BY DEF OpenOf
  <2> HIDE DEF S, V
  <2> QED
    BY <2>1, <2>2, <2>3
<1> QED
  BY <1>3, <1>4

\* The node that encloses the node n, at the time n begins.
EnclosingOf(t, L, n) ==
  OpenOf(t, FirstOf(t, L, n) - 1, DepthOf(t, FirstOf(t, L, n)) - 1)

\* Which token begins a node, and what encloses it, stay as they are.
LEMMA SameEnclosing ==
  ASSUME NEW t, NEW u, NEW L \in Nat, \A j \in 1..L : u[j] = t[j],
         NEW n \in 1..Cardinality(StartsOf(t, L))
  PROVE  /\ FirstOf(u, L + 1, n) = FirstOf(t, L, n)
         /\ EnclosingOf(u, L + 1, n) = EnclosingOf(t, L, n)
<1> DEFINE f == FirstOf(t, L, n)
<1>1. /\ f \in StartsOf(t, L) /\ f \in 1..L /\ t[f].kind = "NODE_START"
      /\ Cardinality(StartsOf(t, f)) = n
  BY FirstOfIs
<1> HIDE DEF f
<1>2. \A i \in 0..L : StartsOf(u, i) = StartsOf(t, i) /\ DepthOf(u, i) = DepthOf(t, i)
  BY SamePrefix
<1>3. L \in 0..L /\ f \in 0..L /\ f - 1 \in 0..L /\ f - 1 \in Nat /\ (f - 1) + 1 = f /\ L + 1 \in Nat
  BY <1>1
<1>4. StartsOf(u, L) = StartsOf(t, L) /\ StartsOf(u, f) = StartsOf(t, f)
  BY <1>2, <1>3
<1>5. /\ Cardinality(StartsOf(u, L)) \in Nat
      /\ Cardinality(StartsOf(u, L + 1)) =
           Cardinality(StartsOf(u, L)) + IF u[L + 1].kind = "NODE_START" THEN 1 ELSE 0
      /\ f \in StartsOf(u, L + 1)
  <2>1. Cardinality(StartsOf(u, L)) \in Nat
    BY CountsTyped
  <2>2. Cardinality(StartsOf(u, L + 1)) =
           Cardinality(StartsOf(u, L)) + IF u[L + 1].kind = "NODE_START" THEN 1 ELSE 0
    BY OneMore
  <2>3. StartsOf(u, L + 1) = IF u[L + 1].kind = "NODE_START"
                                 THEN StartsOf(u, L) \union {L + 1} ELSE StartsOf(u, L)
    BY OneMore
  <2> QED
    BY <2>1, <2>2, <2>3, <1>1, <1>4
<1>6. n \in 1..Cardinality(StartsOf(u, L + 1))
  BY <1>4, <1>5
<1>7. f = FirstOf(u, L + 1, n)
  <2>1. \A j \in StartsOf(u, L + 1) : Cardinality(StartsOf(u, j)) = n => j = FirstOf(u, L + 1, n)
    BY <1>6, <1>3, FirstOfIs
  <2> QED
    BY <2>1, <1>1, <1>4, <1>5
<1>8. DepthOf(t, f) - 1 = DepthOf(t, f - 1) /\ DepthOf(t, f - 1) \in Int
  <2>1. DepthOf(t, (f - 1) + 1) = DepthOf(t, f - 1) +
              (IF t[(f - 1) + 1].kind = "NODE_START" THEN 1
               ELSE IF t[(f - 1) + 1].kind = "NODE_END" THEN -1 ELSE 0)
    BY <1>3, OneMore
  <2>2. DepthOf(t, f - 1) \in Int
    BY <1>3, CountsTyped
  <2>3. DepthOf(t, f) = DepthOf(t, f - 1) + 1
    BY <2>1, <1>1, <1>3
  <2> QED
    BY <2>2, <2>3
<1>9. OpenOf(u, f - 1, DepthOf(t, f - 1)) = OpenOf(t, f - 1, DepthOf(t, f - 1))
  <2> DEFINE k == f - 1  d == DepthOf(t, f - 1)
  <2>1. k \in 0..L /\ d \in Int /\ d <= DepthOf(t, k)
    BY <1>3, <1>8
  <2> HIDE DEF k, d
  <2>2. OpenOf(u, k, d) = OpenOf(t, k, d)
    BY <2>1, SameOpen
  <2> QED
    BY <2>2 DEF k, d
<1>10. DepthOf(u, f) = DepthOf(t, f)
  BY <1>2, <1>3
<1>11. EnclosingOf(u, L + 1, n) = EnclosingOf(t, L, n)
  BY <1>7, <1>8, <1>9, <1>10 DEF EnclosingOf, f
<1> QED
  BY <1>7, <1>11 DEF f

-----------------------------------------------------------------------------
(***************************************************************************)
(* Recursion over the pointers of the tree: f of an element is given, or   *)
(* what f is at the element a leads to, or if that is 0 at the one b leads *)
(* to.  top and cells of Tree and Inherited and find of dt_node_from_      *)
(* compatible are of this kind.                                            *)
(***************************************************************************)
Chosen(stop, base, a, b, f, x) ==
  IF x \in stop THEN base[x] ELSE IF f[a[x]] # 0 THEN f[a[x]] ELSE f[b[x]]

IsBranch(D, stop, base, a, b, f) == f = [x \in D |-> Chosen(stop, base, a, b, f, x)]

IsChain(N, stop, base, up, f) == f = [n \in 1..N |-> IF n \in stop THEN base[n] ELSE f[up[n]]]

\* Both a and b lead to elements of a lower rank.
Ranked(D, stop, a, b, rank, R) ==
  /\ R \in Nat /\ \A x \in D : rank[x] \in 0..R
  /\ \A x \in D \ stop : /\ a[x] \in D /\ rank[a[x]] < rank[x]
                         /\ b[x] \in D /\ rank[b[x]] < rank[x]

\* The recursion has a solution.
LEMMA BranchExists ==
  ASSUME NEW D, NEW stop, NEW base, NEW a, NEW b, NEW rank, NEW R, Ranked(D, stop, a, b, rank, R)
  PROVE  \E f : IsBranch(D, stop, base, a, b, f)
<1>1. /\ R \in Nat /\ \A x \in D : rank[x] \in 0..R
      /\ \A x \in D \ stop : /\ a[x] \in D /\ rank[a[x]] < rank[x]
                             /\ b[x] \in D /\ rank[b[x]] < rank[x]
  BY DEF Ranked
<1> DEFINE Solves(f, r) == /\ f = [x \in D |-> f[x]]
                           /\ \A x \in D : rank[x] <= r => f[x] = Chosen(stop, base, a, b, f, x)
           T == {r \in 0..R : \E f : Solves(f, r)}
<1>2. ASSUME NEW r \in 0..R, NEW f, \A x \in D : rank[x] < r => f[x] = Chosen(stop, base, a, b, f, x)
      PROVE  r \in T
  <2> DEFINE g == [x \in D |-> Chosen(stop, base, a, b, f, x)]
  <2>1. g = [x \in D |-> g[x]] /\ \A x \in D : g[x] = Chosen(stop, base, a, b, f, x)
    OBVIOUS
  <2> HIDE DEF g
  <2>2. \A x \in D : rank[x] < r => g[x] = f[x]
    BY <2>1, <1>2
  <2>3. ASSUME NEW x \in D, rank[x] <= r PROVE g[x] = Chosen(stop, base, a, b, g, x)
    <3>1. CASE x \in stop
      BY <3>1, <2>1 DEF Chosen
    <3>2. CASE x \notin stop
      <4>1. /\ a[x] \in D /\ rank[a[x]] \in 0..R /\ rank[a[x]] < rank[x]
            /\ b[x] \in D /\ rank[b[x]] \in 0..R /\ rank[b[x]] < rank[x] /\ rank[x] \in 0..R
        BY <3>2, <1>1
      <4>2. rank[a[x]] < r /\ rank[b[x]] < r
        BY <4>1, <2>3, <1>1
      <4>3. g[a[x]] = f[a[x]] /\ g[b[x]] = f[b[x]]
        BY <4>1, <4>2, <2>2
      <4> QED
        BY <4>3, <3>2, <2>1 DEF Chosen
    <3> QED
      BY <3>1, <3>2
  <2>4. Solves(g, r)
    BY <2>1, <2>3
  <2> HIDE DEF Solves
  <2> QED
    BY <2>4
<1>3. ASSUME NEW r \in 0..R, \A q \in 0..(r - 1) : q \in T PROVE r \in T
  <2>1. CASE r = 0
    <3> DEFINE f == [x \in D |-> 0]
    <3>1. \A x \in D : ~(rank[x] < r)
      BY <2>1, <1>1
    <3> HIDE DEF f, T
    <3> QED
      BY <3>1, <1>2
  <2>2. CASE r # 0
    <3>1. r - 1 \in 0..(r - 1)
      BY <2>2
    <3>2. PICK f : Solves(f, r - 1)
      BY <3>1, <1>3
    <3>3. ASSUME NEW x \in D, rank[x] < r PROVE f[x] = Chosen(stop, base, a, b, f, x)
      <4>1. rank[x] <= r - 1
        BY <3>3, <1>1
      <4> QED
        BY <4>1, <3>2
    <3> HIDE DEF T, Solves
    <3> QED
      BY <3>3, <1>2
  <2> QED
    BY <2>1, <2>2
<1>4. \A r \in 0..R : r \in T
  <2> HIDE DEF T
  <2> QED
    BY <1>1, <1>3, UpTo
<1>5. PICK f : Solves(f, R)
  <2>1. R \in 0..R
    BY <1>1
  <2> QED
    BY <2>1, <1>4
<1>6. f = [x \in D |-> f[x]] /\ \A x \in D : f[x] = Chosen(stop, base, a, b, f, x)
  <2>1. \A x \in D : rank[x] <= R
    BY <1>1
  <2> QED
    BY <2>1, <1>5
<1>7. [x \in D |-> f[x]] = [x \in D |-> Chosen(stop, base, a, b, f, x)]
  BY <1>6
<1>8. IsBranch(D, stop, base, a, b, f)
  BY <1>6, <1>7 DEF IsBranch
<1> QED
  BY <1>8

\* The solution, step by step.
LEMMA BranchStep ==
  ASSUME NEW D, NEW stop, NEW base, NEW a, NEW b, NEW f,
         IsBranch(D, stop, base, a, b, f)
  PROVE  \A x \in D : f[x] = Chosen(stop, base, a, b, f, x)
BY DEF IsBranch

\* Up the tree: what f is at a node, or at its parent.
LEMMA ChainExists ==
  ASSUME NEW N \in Nat, NEW up, NEW stop, NEW base,
         \A n \in 1..N : n \notin stop => up[n] \in 1..(n - 1)
  PROVE  \E f : IsChain(N, stop, base, up, f)
<1> DEFINE rank == [n \in 1..N |-> n]
<1>1. \A n \in 1..N : rank[n] = n
  OBVIOUS
<1> HIDE DEF rank
<1>2. Ranked(1..N, stop, up, up, rank, N)
  <2>1. ASSUME NEW n \in (1..N) \ stop PROVE up[n] \in 1..N /\ rank[up[n]] < rank[n]
    <3>1. up[n] \in 1..(n - 1)
      OBVIOUS
    <3>2. up[n] \in 1..N /\ up[n] < n
      BY <3>1
    <3> QED
      BY <3>2, <1>1
  <2>2. \A n \in 1..N : rank[n] \in 0..N
    BY <1>1
  <2> QED
    BY <2>1, <2>2 DEF Ranked
<1>3. PICK f : IsBranch(1..N, stop, base, up, up, f)
  BY <1>2, BranchExists
<1>4. \A n : Chosen(stop, base, up, up, f, n) = IF n \in stop THEN base[n] ELSE f[up[n]]
  BY DEF Chosen
<1>5. [n \in 1..N |-> Chosen(stop, base, up, up, f, n)] =
      [n \in 1..N |-> IF n \in stop THEN base[n] ELSE f[up[n]]]
  BY <1>4
<1>6. IsChain(N, stop, base, up, f)
  BY <1>3, <1>5 DEF IsBranch, IsChain
<1> QED
  BY <1>6

\* What the recursion gives is given at some element.
LEMMA BranchEnds ==
  ASSUME NEW D, NEW stop, NEW base, NEW a, NEW b, NEW rank, NEW R, Ranked(D, stop, a, b, rank, R),
         NEW f, IsBranch(D, stop, base, a, b, f)
  PROVE  \A x \in D : \E y \in D : y \in stop /\ f[x] = base[y]
<1>1. /\ R \in Nat /\ \A x \in D : rank[x] \in 0..R
      /\ \A x \in D \ stop : /\ a[x] \in D /\ rank[a[x]] < rank[x]
                             /\ b[x] \in D /\ rank[b[x]] < rank[x]
  BY DEF Ranked
<1>2. \A x \in D : f[x] = Chosen(stop, base, a, b, f, x)
  BY BranchStep
<1> DEFINE Given(x) == \E y \in D : y \in stop /\ f[x] = base[y]
           T == {r \in 0..R : \A x \in D : rank[x] = r => Given(x)}
<1>3. ASSUME NEW r \in 0..R, \A q \in 0..(r - 1) : q \in T, NEW x \in D, rank[x] = r PROVE Given(x)
  <2>1. CASE x \in stop
    BY <2>1, <1>2 DEF Chosen
  <2>2. CASE x \notin stop
    <3>1. /\ a[x] \in D /\ rank[a[x]] \in 0..R /\ rank[a[x]] < rank[x]
          /\ b[x] \in D /\ rank[b[x]] \in 0..R /\ rank[b[x]] < rank[x]
      BY <2>2, <1>1
    <3>2. rank[a[x]] \in 0..(r - 1) /\ rank[b[x]] \in 0..(r - 1)
      BY <3>1, <1>3
    <3>3. Given(a[x]) /\ Given(b[x])
      <4>1. rank[a[x]] \in T /\ rank[b[x]] \in T
        BY <3>2, <1>3
      <4> HIDE DEF Given
      <4> QED
        BY <4>1, <3>1
    <3>4. f[x] = f[a[x]] \/ f[x] = f[b[x]]
      BY <2>2, <1>2 DEF Chosen
    <3> QED
      BY <3>3, <3>4
  <2> QED
    BY <2>1, <2>2
<1>4. \A r \in 0..R : r \in T
  <2>1. ASSUME NEW r \in 0..R, \A q \in 0..(r - 1) : q \in T PROVE r \in T
    <3> HIDE DEF Given
    <3>1. \A x \in D : rank[x] = r => Given(x)
      BY <2>1, <1>3
    <3> QED
      BY <3>1
  <2> HIDE DEF T
  <2> QED
    BY <2>1, <1>1, UpTo
<1>5. ASSUME NEW x \in D PROVE Given(x)
  <2>1. rank[x] \in 0..R
    BY <1>1
  <2>2. rank[x] \in T
    BY <2>1, <1>4
  <2> HIDE DEF Given
  <2> QED
    BY <2>2
<1> QED
  BY <1>5

-----------------------------------------------------------------------------
(***************************************************************************)
(* Pieces of the sequence of numbers, put side by side.                    *)
(***************************************************************************)
Shifted(j, m) == [d \in 1..m |-> j + d]

\* The next cells behind those before.
LEMMA ShiftedJoin ==
  ASSUME NEW j \in Nat, NEW m \in Nat, NEW k \in Nat
  PROVE  /\ Shifted(j, m) \in Seq(Nat) /\ Len(Shifted(j, m)) = m
         /\ Shifted(j, m) \o Shifted(j + m, k) = Shifted(j, m + k)
<1>1. \A x, y \in Nat : Shifted(x, y) \in [1..y -> Nat] /\ \A d \in 1..y : Shifted(x, y)[d] = x + d
  BY DEF Shifted
<1>2. ASSUME NEW x \in Nat, NEW y \in Nat PROVE Shifted(x, y) \in Seq(Nat) /\ Len(Shifted(x, y)) = y
  <2> DEFINE s == Shifted(x, y)
  <2>1. s \in [1..y -> Nat]
    BY <1>1
  <2> HIDE DEF s
  <2>2. s \in Seq(Nat)
    BY <2>1, SeqDef
  <2>3. DOMAIN s = 1..y /\ DOMAIN s = 1..Len(s) /\ Len(s) \in Nat
    BY <2>1, <2>2, LenProperties
  <2>4. Len(s) = y
    BY <2>3
  <2> QED
    BY <2>2, <2>4 DEF s
<1> DEFINE s == Shifted(j, m)  t == Shifted(j + m, k)  u == Shifted(j, m + k)
<1>3. j + m \in Nat /\ m + k \in Nat
  OBVIOUS
<1>4. /\ s \in Seq(Nat) /\ Len(s) = m /\ t \in Seq(Nat) /\ Len(t) = k /\ u \in Seq(Nat) /\ Len(u) = m + k
  BY <1>2, <1>3
<1>5. /\ \A d \in 1..m : s[d] = j + d
      /\ \A d \in 1..k : t[d] = (j + m) + d
      /\ \A d \in 1..(m + k) : u[d] = j + d
  BY <1>1, <1>3
<1> HIDE DEF s, t, u
<1>6. /\ s \o t \in Seq(Nat) /\ Len(s \o t) = m + k
      /\ \A i \in 1..(m + k) : (s \o t)[i] = IF i <= m THEN s[i] ELSE t[i - m]
  BY <1>4, ConcatProperties
<1>7. ASSUME NEW i \in 1..(m + k) PROVE (s \o t)[i] = u[i]
  <2>1. CASE i <= m
    <3>1. i \in 1..m
      BY <2>1
    <3> QED
      BY <3>1, <2>1, <1>5, <1>6
  <2>2. CASE ~(i <= m)
    <3>1. i - m \in 1..k /\ (j + m) + (i - m) = j + i
      BY <2>2
    <3>2. (s \o t)[i] = t[i - m]
      BY <2>2, <1>6
    <3> QED
      BY <3>1, <3>2, <1>5
  <2> QED
    BY <2>1, <2>2
<1>8. s \o t = u
  BY <1>4, <1>6, <1>7, SeqEqual
<1> QED
  BY <1>4, <1>8 DEF s, t, u

IsFlat(seqs, n, f) == f = [i \in 1..n |-> IF i = 1 THEN seqs[i] ELSE f[i - 1] \o seqs[i]]

\* Pieces of the length w, each beginning where the one before ends.
LEMMA FlatShifted ==
  ASSUME NEW n \in Nat, n # 0, NEW w \in Nat, NEW seqs, Len(seqs) = n,
         \A i \in 1..n : seqs[i] = Shifted((i - 1) * w, w)
  PROVE  FlattenSeq(seqs) = Shifted(0, n * w)
<1> DEFINE E(f, i) == IF i = 1 THEN seqs[i] ELSE f[i - 1] \o seqs[i]
           g == [i \in 1..n |-> Shifted(0, i * w)]
<1>1. ASSUME NEW i \in 1..n PROVE i * w \in Nat /\ (i - 1) * w \in Nat /\ (i - 1) * w + w = i * w
                                  /\ 1 * w = w /\ (1 - 1) * w = 0
  OBVIOUS
<1>2. ASSUME NEW i \in 1..n, i # 1
      PROVE  Shifted(0, (i - 1) * w) \o seqs[i] = Shifted(0, i * w)
  <2>1. PICK a \in Nat : a = (i - 1) * w /\ a + w = i * w
    BY <1>1
  <2>2. PICK z \in Nat : z = 0
    OBVIOUS
  <2>3. Shifted(z, a) \o Shifted(z + a, w) = Shifted(z, a + w)
    BY <2>1, <2>2, ShiftedJoin
  <2>4. z + a = a
    BY <2>1, <2>2
  <2>5. Shifted(z, a) \o Shifted(a, w) = Shifted(z, a + w)
    BY <2>3, <2>4
  <2> QED
    BY <2>1, <2>2, <2>5
<1>3. seqs[1] = Shifted(0, 1 * w)
  BY <1>1
<1>4. IsFlat(seqs, n, g)
  <2>1. \A i \in 1..n : g[i] = Shifted(0, i * w)
    OBVIOUS
  <2>2. g = [i \in 1..n |-> g[i]]
    OBVIOUS
  <2> HIDE DEF g
  <2>3. ASSUME NEW i \in 1..n PROVE g[i] = E(g, i)
    <3>1. CASE i = 1
      BY <3>1, <2>1, <1>3
    <3>2. CASE i # 1
      <4>1. i - 1 \in 1..n
        BY <3>2
      <4>2. g[i - 1] = Shifted(0, (i - 1) * w)
        BY <4>1, <2>1
      <4> QED
        BY <4>2, <3>2, <2>1, <1>2
    <3> QED
      BY <3>1, <3>2
  <2>4. [i \in 1..n |-> g[i]] = [i \in 1..n |-> E(g, i)]
    <3> HIDE DEF E
    <3> QED
      BY <2>3
  <2>5. g = [i \in 1..n |-> E(g, i)]
    BY <2>2, <2>4
  <2> QED
    BY <2>5 DEF IsFlat
<1> DEFINE f == CHOOSE h : IsFlat(seqs, n, h)
<1>5. FlattenSeq(seqs) = f[n]
  BY DEF FlattenSeq, IsFlat
<1>6. IsFlat(seqs, n, f)
  <2> HIDE DEF g
  <2> QED
    BY <1>4
<1> HIDE DEF f
<1>7. \A i \in 1..n : f[i] = E(f, i)
  <2>1. f = [i \in 1..n |-> E(f, i)]
    BY <1>6 DEF IsFlat
  <2> HIDE DEF E
  <2> QED
    BY <2>1
<1> DEFINE T == {i \in 0..n : i # 0 => f[i] = Shifted(0, i * w)}
<1>8. ASSUME NEW i \in 0..n, \A k \in 0..(i - 1) : k \in T PROVE i \in T
  <2>1. CASE i = 0
    BY <2>1
  <2>2. CASE i = 1
    <3>1. 1 \in 1..n
      OBVIOUS
    <3>2. f[1] = seqs[1]
      BY <3>1, <1>7
    <3> QED
      BY <3>2, <2>2, <1>3
  <2>3. CASE i # 0 /\ i # 1
    <3>1. i \in 1..n /\ i - 1 \in 0..(i - 1) /\ i - 1 # 0
      BY <2>3
    <3>2. f[i - 1] = Shifted(0, (i - 1) * w)
      BY <3>1, <1>8
    <3>3. f[i] = f[i - 1] \o seqs[i]
      BY <3>1, <2>3, <1>7
    <3>4. f[i] = Shifted(0, i * w)
      BY <3>1, <3>2, <3>3, <2>3, <1>2
    <3> QED
      BY <3>4
  <2> QED
    BY <2>1, <2>2, <2>3
<1>9. \A i \in 0..n : i \in T
  <2> HIDE DEF T
  <2> QED
    BY <1>8, UpTo
<1> QED
  BY <1>5, <1>9

-----------------------------------------------------------------------------
(***************************************************************************)
(* Counting.                                                               *)
(***************************************************************************)
\* Two sets matched one to one have as many elements.
LEMMA SameCount ==
  ASSUME NEW S, IsFiniteSet(S), NEW T, NEW f, \A x \in S : f[x] \in T, DOMAIN f = S,
         f = [x \in S |-> f[x]], \A x, y \in S : f[x] = f[y] => x = y, \A z \in T : \E x \in S : f[x] = z
  PROVE  IsFiniteSet(T) /\ Cardinality(T) = Cardinality(S)
<1>1. f \in [S -> T]
  OBVIOUS
<1>2. f \in Bijection(S, T)
  BY <1>1 DEF Bijection, Injection, Surjection, IsInjective
<1>3. ExistsBijection(S, T)
  BY <1>2 DEF ExistsBijection
<1> QED
  BY <1>3, FS_Bijection
=============================================================================
