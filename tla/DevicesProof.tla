---------------------------- MODULE DevicesProof ----------------------------
(***************************************************************************)
(* Proofs about the device tree parser, and, on top of them, about         *)
(* devices_init and the walk over the tree.                                *)
(***************************************************************************)
EXTENDS Devices, DataProof

-----------------------------------------------------------------------------
(***************************************************************************)
(* The invariant of the parser, of its pointers as values: t the tokens,   *)
(* ns and ps the nodes and properties, c the current node and d its depth. *)
(***************************************************************************)
IsSequence(s) == \E S : s \in Seq(S)

IsNode(r) ==
  /\ DOMAIN r = {"name", "parent", "sibling", "children", "properties", "compatible",
                 "address_cells", "size_cells"}
  /\ r.address_cells \in 0..3 /\ r.size_cells \in 0..2

IsProp(r) ==
  /\ DOMAIN r = {"name", "type", "value", "next_prop"}
  /\ r.name \in {"#address-cells", "#size-cells"} => r.value \in Nat

\* ns and ps are sequences of nodes and of properties.
Recorded(ns, ps) ==
  /\ IsSequence(ns) /\ \A n \in 1..Len(ns) : IsNode(ns[n])
  /\ IsSequence(ps) /\ \A k \in 1..Len(ps) : IsProp(ps[k])

\* SiblingsFrom and PropertiesFrom of these nodes and properties.
SiblingsOf(ns) ==
  CHOOSE f : f = [n \in 0..Len(ns) |-> IF n = NULL THEN << >> ELSE <<n>> \o f[ns[n].sibling]]

PropertiesOf(ps) ==
  CHOOSE f : f = [k \in 0..Len(ps) |-> IF k = NULL THEN << >> ELSE <<k>> \o f[ps[k].next_prop]]

\* Parents and siblings are older than a node, children younger.
Linked(ns, ps) ==
  /\ \A n \in 1..Len(ns) :
       /\ ns[n].parent \in 0..(n - 1) /\ ns[n].sibling \in 0..(n - 1)
       /\ ns[n].children \in {NULL} \union (n + 1)..Len(ns)
       /\ ns[n].properties \in 0..Len(ps)
  /\ \A k \in 1..Len(ps) : ps[k].next_prop \in 0..(k - 1)

\* Every node was begun by a token and hangs below the node that encloses it.
Parents(t, ns) ==
  /\ Cardinality(StartsOf(t, Len(t))) = Len(ns)
  /\ \A n \in 1..Len(ns) : ns[n].parent = EnclosingOf(t, Len(t), n)

\* A list of children holds the nodes whose parent is the node.
ChildrenListed(ns) ==
  \A n \in 1..Len(ns) :
    \A m : m \in ToSet(SiblingsOf(ns)[ns[n].children]) <=> m \in 1..Len(ns) /\ ns[m].parent = n

DeclaredOf(t, n) ==
  {k \in 1..Len(t) : t[k].kind = "PROPERTY" /\ OpenOf(t, k, DepthOf(t, k)) = n}

NamesDeclared(t, n) == {t[k].name : k \in DeclaredOf(t, n)}

NamesListed(ns, ps, n) ==
  {ps[PropertiesOf(ps)[ns[n].properties][i]].name :
     i \in DOMAIN PropertiesOf(ps)[ns[n].properties]}

\* A list of properties has as many as the node declares, of the same names.
PropertiesListed(t, ns, ps) ==
  \A n \in 1..Len(ns) :
    /\ Len(PropertiesOf(ps)[ns[n].properties]) = Cardinality(DeclaredOf(t, n))
    /\ NamesListed(ns, ps, n) = NamesDeclared(t, n)

\* The nodes open are the current one, its parent and so on up to the top.
Stacked(t, ns, c, d) ==
  /\ d \in Nat /\ d = DepthOf(t, Len(t)) /\ c = OpenOf(t, Len(t), d)
  /\ \A e \in 1..d : /\ OpenOf(t, Len(t), e) \in 1..Len(ns)
                     /\ ns[OpenOf(t, Len(t), e)].parent = OpenOf(t, Len(t), e - 1)

\* The nameless nodes at the top.
TopsOf(t, ns) ==
  {n \in 1..Len(ns) : EnclosingOf(t, Len(t), n) = NULL /\ t[FirstOf(t, Len(t), n)].name = ""}

Rooted(t, ns, r) == r = IF TopsOf(t, ns) = {} THEN NULL ELSE Max(TopsOf(t, ns))

\* The pointers and records of r, ns and ps are those of the blob t.
Wired(t, ns, ps, r) ==
  /\ IsSequence(t) /\ Recorded(ns, ps) /\ Linked(ns, ps)
  /\ Parents(t, ns) /\ ChildrenListed(ns) /\ PropertiesListed(t, ns, ps) /\ Rooted(t, ns, r)

-----------------------------------------------------------------------------
(***************************************************************************)
(* One more token.                                                         *)
(***************************************************************************)

TokenAdded(t, u) ==
  Len(t) \in Nat /\ Len(u) = Len(t) + 1 /\ \A j \in 1..Len(t) : u[j] = t[j]

\* The node open at the depth of a token is one that has been begun.
LEMMA OpenBounded ==
  ASSUME NEW t, NEW L \in Nat, NEW k \in 0..L
  PROVE  OpenOf(t, k, DepthOf(t, k)) \in 0..Cardinality(StartsOf(t, L))
<1> DEFINE d == DepthOf(t, k)
<1>1. k \in Nat /\ d \in Int /\ Cardinality(StartsOf(t, L)) \in Nat /\ IsFiniteSet(StartsOf(t, L))
  BY CountsTyped
<1>2. CASE d <= 0
  BY <1>1, <1>2 DEF OpenOf, NULL
<1>3. CASE ~(d <= 0)
  <2> DEFINE S == {i \in StartsOf(t, k) : DepthOf(t, i) = d}
  <2>1. d \in 1..DepthOf(t, k)
    BY <1>1, <1>3
  <2>2. PICK j \in StartsOf(t, k) : DepthOf(t, j) = d
    BY <2>1, Nested
  <2>3. Max(S) \in 1..k
    BY <1>1, <2>2, LastAt
  <2>4. OpenOf(t, k, d) = Cardinality(StartsOf(t, Max(S)))
    BY <1>3 DEF OpenOf
  <2> HIDE DEF S, d
  <2>5. StartsOf(t, Max(S)) \in SUBSET StartsOf(t, L) /\ Max(S) \in Nat
    BY <2>3, <1>1 DEF StartsOf
  <2>6. Cardinality(StartsOf(t, Max(S))) \in Nat
    BY <2>5, CountsTyped
  <2>7. Cardinality(StartsOf(t, Max(S))) <= Cardinality(StartsOf(t, L))
    BY <2>5, <1>1, FS_Subset
  <2>8. OpenOf(t, k, d) \in 0..Cardinality(StartsOf(t, L))
    BY <2>4, <2>6, <2>7, <1>1
  <2> QED
    BY <2>8 DEF d
<1> QED
  BY <1>2, <1>3

\* Depth and open nodes behind one more token.
LEMMA TokenOpens ==
  ASSUME NEW t, NEW u, NEW L \in Nat, \A j \in 1..L : u[j] = t[j]
  PROVE  /\ Cardinality(StartsOf(u, L + 1)) =
              Cardinality(StartsOf(t, L)) + IF u[L + 1].kind = "NODE_START" THEN 1 ELSE 0
         /\ DepthOf(u, L + 1) = DepthOf(t, L) +
              (IF u[L + 1].kind = "NODE_START" THEN 1
               ELSE IF u[L + 1].kind = "NODE_END" THEN -1 ELSE 0)
         /\ u[L + 1].kind = "NODE_START" /\ DepthOf(t, L) >= 0 =>
              OpenOf(u, L + 1, DepthOf(t, L) + 1) = Cardinality(StartsOf(t, L)) + 1
         /\ \A d \in Int : d <= DepthOf(t, L) => OpenOf(u, L + 1, d) = OpenOf(t, L, d)
<1>1. L \in 0..L
  OBVIOUS
<1>2. StartsOf(u, L) = StartsOf(t, L) /\ DepthOf(u, L) = DepthOf(t, L)
  BY <1>1, SamePrefix
<1>3. /\ Cardinality(StartsOf(u, L + 1)) =
           Cardinality(StartsOf(u, L)) + IF u[L + 1].kind = "NODE_START" THEN 1 ELSE 0
      /\ DepthOf(u, L + 1) = DepthOf(u, L) +
           (IF u[L + 1].kind = "NODE_START" THEN 1
            ELSE IF u[L + 1].kind = "NODE_END" THEN -1 ELSE 0)
  BY OneMore
<1>4. /\ u[L + 1].kind = "NODE_START" /\ DepthOf(u, L) >= 0 =>
              OpenOf(u, L + 1, DepthOf(u, L) + 1) = Cardinality(StartsOf(u, L)) + 1
      /\ \A d \in Int : d <= DepthOf(u, L) \/ u[L + 1].kind # "NODE_START" =>
              OpenOf(u, L + 1, d) = OpenOf(u, L, d)
  BY OneMoreOpen
<1>5. ASSUME NEW d \in Int, d <= DepthOf(t, L) PROVE OpenOf(u, L, d) = OpenOf(t, L, d)
  BY <1>1, <1>5, SameOpen
<1>6. \A d \in Int : d <= DepthOf(t, L) => OpenOf(u, L + 1, d) = OpenOf(t, L, d)
  BY <1>2, <1>4, <1>5
<1> QED
  BY <1>2, <1>3, <1>4, <1>6

\* The depth behind a token of each kind.
LEMMA TokenDepth ==
  ASSUME NEW t, NEW u, NEW L \in Nat, \A j \in 1..L : u[j] = t[j]
  PROVE  /\ u[L + 1].kind = "NODE_START" => DepthOf(u, L + 1) = DepthOf(t, L) + 1
         /\ u[L + 1].kind = "NODE_END" => DepthOf(u, L + 1) = DepthOf(t, L) - 1
         /\ u[L + 1].kind = "PROPERTY" => DepthOf(u, L + 1) = DepthOf(t, L)
<1>1. L \in 0..L /\ DepthOf(t, L) \in Int
  BY CountsTyped
<1>2. DepthOf(u, L) = DepthOf(t, L)
  <2>1. L \in 0..L
    OBVIOUS
  <2> QED
    BY <2>1, SamePrefix
<1>3. DepthOf(u, L + 1) = DepthOf(u, L) +
        (IF u[L + 1].kind = "NODE_START" THEN 1
         ELSE IF u[L + 1].kind = "NODE_END" THEN -1 ELSE 0)
  BY OneMore
<1>4. "PROPERTY" # "NODE_START" /\ "PROPERTY" # "NODE_END" /\ "NODE_START" # "NODE_END"
  OBVIOUS
<1> QED
  BY <1>1, <1>2, <1>3, <1>4

\* The token that begins the newest node, and what encloses that node.
LEMMA NewestNode ==
  ASSUME NEW t, NEW u, NEW L \in Nat, \A j \in 1..L : u[j] = t[j],
         u[L + 1].kind = "NODE_START"
  PROVE  LET N == Cardinality(StartsOf(t, L)) IN
         /\ FirstOf(u, L + 1, N + 1) = L + 1
         /\ EnclosingOf(u, L + 1, N + 1) = OpenOf(t, L, DepthOf(t, L))
<1> DEFINE N == Cardinality(StartsOf(t, L))
<1>1. N \in Nat /\ DepthOf(t, L) \in Int /\ L \in 0..L /\ L + 1 \in Nat
  BY CountsTyped
<1>2. Cardinality(StartsOf(u, L + 1)) = N + 1 /\ DepthOf(u, L + 1) = DepthOf(t, L) + 1
  <2>1. StartsOf(u, L) = StartsOf(t, L) /\ DepthOf(u, L) = DepthOf(t, L)
    <3>1. L \in 0..L
      OBVIOUS
    <3> QED
      BY <3>1, SamePrefix
  <2>2. /\ Cardinality(StartsOf(u, L + 1)) =
             Cardinality(StartsOf(u, L)) + IF u[L + 1].kind = "NODE_START" THEN 1 ELSE 0
        /\ DepthOf(u, L + 1) = DepthOf(u, L) +
             (IF u[L + 1].kind = "NODE_START" THEN 1
              ELSE IF u[L + 1].kind = "NODE_END" THEN -1 ELSE 0)
    BY OneMore
  <2> QED
    BY <2>1, <2>2, <1>1
<1>3. L + 1 \in StartsOf(u, L + 1)
  BY <1>1 DEF StartsOf
<1>4. FirstOf(u, L + 1, N + 1) = L + 1
  <2>1. N + 1 \in 1..Cardinality(StartsOf(u, L + 1))
    BY <1>1, <1>2
  <2>2. \A j \in StartsOf(u, L + 1) : Cardinality(StartsOf(u, j)) = N + 1 => j = FirstOf(u, L + 1, N + 1)
    <3> HIDE DEF N
    <3> QED
      BY <2>1, <1>1, FirstOfIs
  <2> QED
    BY <2>2, <1>2, <1>3
<1>5. OpenOf(u, L, DepthOf(t, L)) = OpenOf(t, L, DepthOf(t, L))
  <2> DEFINE d == DepthOf(t, L)
  <2>1. d \in Int /\ d <= DepthOf(t, L)
    BY <1>1
  <2> HIDE DEF d
  <2>2. OpenOf(u, L, d) = OpenOf(t, L, d)
    <3>1. L \in 0..L
      OBVIOUS
    <3> QED
      BY <3>1, <2>1, SameOpen
  <2> QED
    BY <2>2 DEF d
<1>6. (L + 1) - 1 = L /\ DepthOf(u, L + 1) - 1 = DepthOf(t, L)
  BY <1>1, <1>2
<1>7. EnclosingOf(u, L + 1, N + 1) = OpenOf(t, L, DepthOf(t, L))
  BY <1>4, <1>5, <1>6 DEF EnclosingOf
<1> QED
  BY <1>4, <1>7

\* What a node declares, behind one more token.
LEMMA TokenDeclares ==
  ASSUME NEW t, NEW u, Len(t) \in Nat, Len(u) = Len(t) + 1,
         \A j \in 1..Len(t) : u[j] = t[j], NEW n
  PROVE  LET e   == u[Len(t) + 1]
             own == e.kind = "PROPERTY" /\ OpenOf(t, Len(t), DepthOf(t, Len(t))) = n
         IN  /\ DeclaredOf(u, n) = DeclaredOf(t, n) \union (IF own THEN {Len(t) + 1} ELSE {})
             /\ NamesDeclared(u, n) =
                  NamesDeclared(t, n) \union (IF own THEN {e.name} ELSE {})
             /\ IsFiniteSet(DeclaredOf(t, n))
             /\ Cardinality(DeclaredOf(u, n)) =
                  Cardinality(DeclaredOf(t, n)) + (IF own THEN 1 ELSE 0)
<1>1. PICK L \in Nat : L = Len(t)
  OBVIOUS
<1> DEFINE own == u[L + 1].kind = "PROPERTY" /\ OpenOf(t, L, DepthOf(t, L)) = n
           D == DeclaredOf(t, n)
<1>2. \A k \in 0..L : StartsOf(u, k) = StartsOf(t, k) /\ DepthOf(u, k) = DepthOf(t, k)
  BY <1>1, SamePrefix
<1>3. ASSUME NEW k \in 0..L PROVE OpenOf(u, k, DepthOf(u, k)) = OpenOf(t, k, DepthOf(t, k))
  <2> DEFINE d == DepthOf(t, k)
  <2>1. d \in Int /\ d <= DepthOf(t, k) /\ DepthOf(u, k) = d
    BY <1>2, CountsTyped
  <2> HIDE DEF d
  <2>2. OpenOf(u, k, d) = OpenOf(t, k, d)
    BY <2>1, <1>1, SameOpen
  <2> QED
    BY <2>1, <2>2 DEF d
<1>4. ASSUME u[L + 1].kind = "PROPERTY"
      PROVE  OpenOf(u, L + 1, DepthOf(u, L + 1)) = OpenOf(t, L, DepthOf(t, L))
  <2>1. "PROPERTY" # "NODE_START" /\ "PROPERTY" # "NODE_END"
    OBVIOUS
  <2>2. DepthOf(t, L) \in Int
    BY CountsTyped
  <2>3. DepthOf(u, L + 1) = DepthOf(t, L) +
              (IF u[L + 1].kind = "NODE_START" THEN 1
               ELSE IF u[L + 1].kind = "NODE_END" THEN -1 ELSE 0)
    <3>1. L \in 0..L
      OBVIOUS
    <3>2. DepthOf(u, L) = DepthOf(t, L)
      BY <3>1, <1>2
    <3>3. DepthOf(u, L + 1) = DepthOf(u, L) +
            (IF u[L + 1].kind = "NODE_START" THEN 1
             ELSE IF u[L + 1].kind = "NODE_END" THEN -1 ELSE 0)
      BY OneMore
    <3> QED
      BY <3>2, <3>3
  <2>4. DepthOf(u, L + 1) = DepthOf(t, L)
    BY <2>1, <2>2, <2>3, <1>4
  <2>5. \A d \in Int : d <= DepthOf(t, L) => OpenOf(u, L + 1, d) = OpenOf(t, L, d)
    BY <1>1, TokenOpens
  <2> QED
    BY <2>2, <2>4, <2>5
<1>5. \A k : k \in DeclaredOf(u, n) <=> k \in D \/ (own /\ k = L + 1)
  <2>1. \A k : k \in 1..(L + 1) <=> k \in 1..L \/ k = L + 1
    OBVIOUS
  <2>2. \A k : k \in DeclaredOf(u, n) <=>
           k \in 1..(L + 1) /\ u[k].kind = "PROPERTY" /\ OpenOf(u, k, DepthOf(u, k)) = n
    BY <1>1 DEF DeclaredOf
  <2>3. \A k : k \in D <=> k \in 1..L /\ t[k].kind = "PROPERTY" /\ OpenOf(t, k, DepthOf(t, k)) = n
    BY <1>1 DEF DeclaredOf
  <2>4. ASSUME NEW k \in 1..L PROVE k \in DeclaredOf(u, n) <=> k \in D
    <3>1. k \in 0..L /\ u[k] = t[k] /\ k \in 1..(L + 1)
      BY <1>1
    <3> QED
      BY <3>1, <2>2, <2>3, <1>3
  <2>5. L + 1 \in DeclaredOf(u, n) <=> own
    <3>1. L + 1 \in 1..(L + 1)
      OBVIOUS
    <3> QED
      BY <3>1, <2>2, <1>4
  <2>6. L + 1 \notin D
    BY <2>3
  <2> HIDE DEF D, own
  <2> QED
    BY <2>1, <2>2, <2>3, <2>4, <2>5, <2>6
<1>6. L + 1 \notin D /\ D \in SUBSET (1..L)
  BY <1>1 DEF DeclaredOf
<1>7. IsFiniteSet(D) /\ Cardinality(D) \in Nat
  <2>1. IsFiniteSet(1..L)
    BY FS_Interval
  <2> HIDE DEF D
  <2> QED
    BY <2>1, <1>6, FS_Subset, FS_CardinalityType
<1>8. DeclaredOf(u, n) = D \union (IF own THEN {L + 1} ELSE {})
  <2> HIDE DEF D, own
  <2> QED
    BY <1>5
<1>9. \A k \in D : u[k] = t[k]
  BY <1>1, <1>6
<1>10. NamesDeclared(u, n) =
       NamesDeclared(t, n) \union (IF own THEN {u[L + 1].name} ELSE {})
  <2>1. NamesDeclared(u, n) = {u[k].name : k \in DeclaredOf(u, n)}
        /\ NamesDeclared(t, n) = {t[k].name : k \in D}
    BY DEF NamesDeclared
  <2> HIDE DEF D, own
  <2>2. CASE own
    BY <2>1, <2>2, <1>8, <1>9
  <2>3. CASE ~own
    BY <2>1, <2>3, <1>8, <1>9
  <2> QED
    BY <2>2, <2>3
<1>11. Cardinality(DeclaredOf(u, n)) = Cardinality(D) + (IF own THEN 1 ELSE 0)
  <2> HIDE DEF D, own
  <2>1. CASE own
    <3>1. Cardinality(D \union {L + 1}) = Cardinality(D) + 1
      BY <1>6, <1>7, FS_AddElement
    <3> QED
      BY <3>1, <2>1, <1>8
  <2>2. CASE ~own
    BY <2>2, <1>7, <1>8
  <2> QED
    BY <2>1, <2>2
<1> QED
  BY <1>1, <1>7, <1>8, <1>10, <1>11

\* A token other than PROPERTY declares nothing.
LEMMA OtherTokenDeclares ==
  ASSUME NEW t, NEW u, TokenAdded(t, u), u[Len(t) + 1].kind # "PROPERTY", NEW n
  PROVE  /\ DeclaredOf(u, n) = DeclaredOf(t, n)
         /\ NamesDeclared(u, n) = NamesDeclared(t, n)
<1>1. Len(t) \in Nat /\ Len(u) = Len(t) + 1 /\ \A j \in 1..Len(t) : u[j] = t[j]
  BY DEF TokenAdded
<1> DEFINE own == u[Len(t) + 1].kind = "PROPERTY" /\ OpenOf(t, Len(t), DepthOf(t, Len(t))) = n
<1>2. DeclaredOf(u, n) = DeclaredOf(t, n) \union (IF own THEN {Len(t) + 1} ELSE {})
  BY <1>1, TokenDeclares
<1>3. ~own
  OBVIOUS
<1>4. DeclaredOf(u, n) = DeclaredOf(t, n)
  BY <1>2, <1>3
<1>5. \A k \in DeclaredOf(t, n) : u[k] = t[k]
  BY <1>1 DEF DeclaredOf
<1> QED
  BY <1>4, <1>5 DEF NamesDeclared

-----------------------------------------------------------------------------
(***************************************************************************)
(* The two kinds of lists.                                                 *)
(***************************************************************************)
SiblingLinks(ns) == [n \in 1..Len(ns) |-> ns[n].sibling]

PropertyLinks(ps) == [k \in 1..Len(ps) |-> ps[k].next_prop]

\* SiblingsOf follows sibling to its end.
LEMMA SiblingsAreLists ==
  ASSUME NEW ns, Len(ns) \in Nat, \A n \in 1..Len(ns) : ns[n].sibling \in 0..(n - 1)
  PROVE  /\ Descends(SiblingLinks(ns), Len(ns))
         /\ IsList(SiblingLinks(ns), Len(ns), SiblingsOf(ns))
<1> DEFINE next == SiblingLinks(ns)
<1>1. PICK N \in Nat : N = Len(ns)
  OBVIOUS
<1>2. \A n \in 1..N : ns[n].sibling \in Nat /\ ns[n].sibling < n
  BY <1>1
<1>3. next \in [1..N -> Nat] /\ \A n \in 1..N : next[n] = ns[n].sibling
  BY <1>1, <1>2 DEF SiblingLinks
<1> HIDE DEF next
<1>4. Descends(next, N)
  BY <1>2, <1>3 DEF Descends
<1> DEFINE P(f) == f = [n \in 0..N |-> IF n = NULL THEN << >> ELSE <<n>> \o f[ns[n].sibling]]
<1>5. ASSUME NEW f PROVE P(f) <=> IsList(next, N, f)
  <2>1. [n \in 0..N |-> IF n = NULL THEN << >> ELSE <<n>> \o f[ns[n].sibling]] =
        [n \in 0..N |-> IF n = 0 THEN << >> ELSE <<n>> \o f[next[n]]]
    <3>1. ASSUME NEW n \in 0..N
          PROVE  (IF n = NULL THEN << >> ELSE <<n>> \o f[ns[n].sibling]) =
                 (IF n = 0 THEN << >> ELSE <<n>> \o f[next[n]])
      <4>1. CASE n = 0
        BY <4>1 DEF NULL
      <4>2. CASE n # 0
        <5>1. next[n] = ns[n].sibling
          BY <4>2, <1>3
        <5> QED
          BY <5>1, <4>2 DEF NULL
      <4> QED
        BY <4>1, <4>2
    <3> QED
      BY <3>1
  <2> QED
    BY <2>1 DEF IsList
<1>6. \E f : P(f)
  <2>1. PICK f : IsList(next, N, f)
    BY <1>4, ListExists
  <2>2. P(f)
    BY <2>1, <1>5
  <2> QED
    BY <2>2
<1>7. SiblingsOf(ns) = CHOOSE f : P(f)
  BY <1>1 DEF SiblingsOf
<1>8. P(SiblingsOf(ns))
  <2> HIDE DEF P
  <2> QED
    BY <1>6, <1>7
<1>9. IsList(next, N, SiblingsOf(ns))
  <2> HIDE DEF P
  <2> QED
    BY <1>5, <1>8
<1> QED
  BY <1>1, <1>4, <1>9 DEF next

\* PropertiesOf follows next_prop to its end.
LEMMA PropertiesAreLists ==
  ASSUME NEW ps, Len(ps) \in Nat, \A k \in 1..Len(ps) : ps[k].next_prop \in 0..(k - 1)
  PROVE  /\ Descends(PropertyLinks(ps), Len(ps))
         /\ IsList(PropertyLinks(ps), Len(ps), PropertiesOf(ps))
<1> DEFINE next == PropertyLinks(ps)
<1>1. PICK N \in Nat : N = Len(ps)
  OBVIOUS
<1>2. \A n \in 1..N : ps[n].next_prop \in Nat /\ ps[n].next_prop < n
  BY <1>1
<1>3. next \in [1..N -> Nat] /\ \A n \in 1..N : next[n] = ps[n].next_prop
  BY <1>1, <1>2 DEF PropertyLinks
<1> HIDE DEF next
<1>4. Descends(next, N)
  BY <1>2, <1>3 DEF Descends
<1> DEFINE P(f) == f = [n \in 0..N |-> IF n = NULL THEN << >> ELSE <<n>> \o f[ps[n].next_prop]]
<1>5. ASSUME NEW f PROVE P(f) <=> IsList(next, N, f)
  <2>1. [n \in 0..N |-> IF n = NULL THEN << >> ELSE <<n>> \o f[ps[n].next_prop]] =
        [n \in 0..N |-> IF n = 0 THEN << >> ELSE <<n>> \o f[next[n]]]
    <3>1. ASSUME NEW n \in 0..N
          PROVE  (IF n = NULL THEN << >> ELSE <<n>> \o f[ps[n].next_prop]) =
                 (IF n = 0 THEN << >> ELSE <<n>> \o f[next[n]])
      <4>1. CASE n = 0
        BY <4>1 DEF NULL
      <4>2. CASE n # 0
        <5>1. next[n] = ps[n].next_prop
          BY <4>2, <1>3
        <5> QED
          BY <5>1, <4>2 DEF NULL
      <4> QED
        BY <4>1, <4>2
    <3> QED
      BY <3>1
  <2> QED
    BY <2>1 DEF IsList
<1>6. \E f : P(f)
  <2>1. PICK f : IsList(next, N, f)
    BY <1>4, ListExists
  <2>2. P(f)
    BY <2>1, <1>5
  <2> QED
    BY <2>2
<1>7. PropertiesOf(ps) = CHOOSE f : P(f)
  BY <1>1 DEF PropertiesOf
<1>8. P(PropertiesOf(ps))
  <2> HIDE DEF P
  <2> QED
    BY <1>6, <1>7
<1>9. IsList(next, N, PropertiesOf(ps))
  <2> HIDE DEF P
  <2> QED
    BY <1>5, <1>8
<1> QED
  BY <1>1, <1>4, <1>9 DEF next

\* The lists of siblings that are there stay as they are behind new nodes.
LEMMA SiblingsKept ==
  ASSUME NEW ns, Len(ns) \in Nat, \A n \in 1..Len(ns) : ns[n].sibling \in 0..(n - 1),
         NEW us, Len(us) \in Nat, \A n \in 1..Len(us) : us[n].sibling \in 0..(n - 1),
         Len(ns) <= Len(us), \A n \in 1..Len(ns) : us[n].sibling = ns[n].sibling
  PROVE  \A n \in 0..Len(ns) : SiblingsOf(us)[n] = SiblingsOf(ns)[n]
<1> DEFINE next == SiblingLinks(ns)  more == SiblingLinks(us)
           f == SiblingsOf(ns)  g == SiblingsOf(us)
           N == Len(ns)  M == Len(us)
<1>1. Descends(next, N) /\ IsList(next, N, f)
  BY SiblingsAreLists
<1>2. Descends(more, M) /\ IsList(more, M, g)
  BY SiblingsAreLists
<1>3. N <= M /\ \A x \in 1..N : more[x] = next[x]
  BY DEF SiblingLinks
<1> HIDE DEF next, more, f, g, N, M
<1>4. \A x \in 0..N : g[x] = f[x]
  BY <1>1, <1>2, <1>3, ListsAgree
<1> QED
  BY <1>4 DEF N, f, g

\* So do the lists of properties behind new ones.
LEMMA PropertiesKept ==
  ASSUME NEW ps, Len(ps) \in Nat, \A k \in 1..Len(ps) : ps[k].next_prop \in 0..(k - 1),
         NEW qs, Len(qs) \in Nat, \A k \in 1..Len(qs) : qs[k].next_prop \in 0..(k - 1),
         Len(ps) <= Len(qs), \A k \in 1..Len(ps) : qs[k].next_prop = ps[k].next_prop
  PROVE  \A k \in 0..Len(ps) : PropertiesOf(qs)[k] = PropertiesOf(ps)[k]
<1> DEFINE next == PropertyLinks(ps)  more == PropertyLinks(qs)
           f == PropertiesOf(ps)  g == PropertiesOf(qs)
           N == Len(ps)  M == Len(qs)
<1>1. Descends(next, N) /\ IsList(next, N, f)
  BY PropertiesAreLists
<1>2. Descends(more, M) /\ IsList(more, M, g)
  BY PropertiesAreLists
<1>3. N <= M /\ \A x \in 1..N : more[x] = next[x]
  BY DEF PropertyLinks
<1> HIDE DEF next, more, f, g, N, M
<1>4. \A x \in 0..N : g[x] = f[x]
  BY <1>1, <1>2, <1>3, ListsAgree
<1> QED
  BY <1>4 DEF N, f, g

\* What a list of siblings holds.
LEMMA SiblingsHold ==
  ASSUME NEW ns, Len(ns) \in Nat, \A n \in 1..Len(ns) : ns[n].sibling \in 0..(n - 1)
  PROVE  /\ SiblingsOf(ns)[0] = << >> /\ ToSet(SiblingsOf(ns)[0]) = {}
         /\ \A n \in 0..Len(ns) :
              /\ SiblingsOf(ns)[n] \in Seq(1..Len(ns))
              /\ \A m \in ToSet(SiblingsOf(ns)[n]) : m \in 1..n
              /\ IsFiniteSet(ToSet(SiblingsOf(ns)[n]))
              /\ Cardinality(ToSet(SiblingsOf(ns)[n])) = Len(SiblingsOf(ns)[n])
         /\ \A n \in 1..Len(ns) :
              ToSet(SiblingsOf(ns)[n]) = {n} \union ToSet(SiblingsOf(ns)[ns[n].sibling])
<1> DEFINE next == SiblingLinks(ns)  f == SiblingsOf(ns)  N == Len(ns)
<1>1. Descends(next, N) /\ IsList(next, N, f)
  BY SiblingsAreLists
<1>2. \A x \in 1..N : next[x] = ns[x].sibling
  BY DEF SiblingLinks
<1> HIDE DEF next, f, N
<1>3. f[0] = << >>
  BY <1>1, ListStep
<1>4. ToSet(f[0]) = {}
  BY <1>3 DEF ToSet
<1>5. \A x \in 0..N :
           /\ f[x] \in Seq(1..N)
           /\ \A e \in ToSet(f[x]) : e \in 1..x
           /\ IsFiniteSet(ToSet(f[x]))
           /\ Cardinality(ToSet(f[x])) = Len(f[x])
           /\ x # 0 => ToSet(f[x]) = {x} \union ToSet(f[next[x]])
  BY <1>1, ListElements
<1>6. \A x \in 1..N : x \in 0..N /\ x # 0
  OBVIOUS
<1>7. \A x \in 1..N : ToSet(f[x]) = {x} \union ToSet(f[ns[x].sibling])
  BY <1>2, <1>5, <1>6
<1> QED
  BY <1>3, <1>4, <1>5, <1>7 DEF f, N

\* What a list of properties holds.
LEMMA PropertiesHold ==
  ASSUME NEW ps, Len(ps) \in Nat, \A k \in 1..Len(ps) : ps[k].next_prop \in 0..(k - 1)
  PROVE  /\ PropertiesOf(ps)[0] = << >>
         /\ \A k \in 0..Len(ps) :
              /\ PropertiesOf(ps)[k] \in Seq(1..Len(ps))
              /\ \A m \in ToSet(PropertiesOf(ps)[k]) : m \in 1..k
         /\ \A k \in 1..Len(ps) :
              PropertiesOf(ps)[k] = <<k>> \o PropertiesOf(ps)[ps[k].next_prop]
<1> DEFINE next == PropertyLinks(ps)  f == PropertiesOf(ps)  N == Len(ps)
<1>1. Descends(next, N) /\ IsList(next, N, f)
  BY PropertiesAreLists
<1>2. \A x \in 1..N : next[x] = ps[x].next_prop
  BY DEF PropertyLinks
<1> HIDE DEF next, f, N
<1>3. f[0] = << >> /\ \A x \in 1..N : f[x] = <<x>> \o f[next[x]]
  BY <1>1, ListStep
<1>4. \A x \in 0..N :
           /\ f[x] \in Seq(1..N)
           /\ \A e \in ToSet(f[x]) : e \in 1..x
  BY <1>1, ListElements
<1>5. \A x \in 1..N : f[x] = <<x>> \o f[ps[x].next_prop]
  BY <1>2, <1>3
<1> QED
  BY <1>3, <1>4, <1>5 DEF f, N

-----------------------------------------------------------------------------
(***************************************************************************)
(* device_tree_parse_node: a token that begins a node, and the node.       *)
(***************************************************************************)
NodeAdded(ns, us, c) ==
  /\ Len(ns) \in Nat /\ Len(us) = Len(ns) + 1
  /\ \A n \in 1..Len(ns) :
       /\ us[n].parent = ns[n].parent /\ us[n].sibling = ns[n].sibling
       /\ us[n].properties = ns[n].properties
       /\ us[n].children = IF n = c THEN Len(ns) + 1 ELSE ns[n].children
  /\ us[Len(ns) + 1].parent = c
  /\ us[Len(ns) + 1].sibling = IF c = NULL THEN NULL ELSE ns[c].children
  /\ us[Len(ns) + 1].children = NULL /\ us[Len(ns) + 1].properties = NULL

\* The current node is one of the nodes, none only at depth zero.
LEMMA CurrentIsNode ==
  ASSUME NEW t, NEW ns, NEW c, NEW d, Stacked(t, ns, c, d), Len(ns) \in Nat
  PROVE  c \in 0..Len(ns) /\ (c = NULL <=> d = 0)
<1>1. /\ d \in Nat /\ c = OpenOf(t, Len(t), d)
      /\ \A e \in 1..d : OpenOf(t, Len(t), e) \in 1..Len(ns)
  BY DEF Stacked
<1>2. CASE d = 0
  BY <1>1, <1>2 DEF OpenOf, NULL
<1>3. CASE d # 0
  <2>1. d \in 1..d
    BY <1>1, <1>3
  <2> QED
    BY <2>1, <1>1, <1>3 DEF NULL
<1> QED
  BY <1>2, <1>3

\* The links of the new node, and the one to it, are in order.
LEMMA AddNodeLinked ==
  ASSUME NEW ns, NEW us, NEW ps, NEW c \in 0..Len(ns), NodeAdded(ns, us, c),
         Linked(ns, ps), Len(ps) \in Nat
  PROVE  Linked(us, ps)
<1>1. PICK N \in Nat : N = Len(ns)
  BY DEF NodeAdded
<1>2. /\ \A n \in 1..N :
           /\ ns[n].parent \in 0..(n - 1) /\ ns[n].sibling \in 0..(n - 1)
           /\ ns[n].children = 0 \/ ns[n].children \in (n + 1)..N
           /\ ns[n].properties \in 0..Len(ps)
      /\ \A k \in 1..Len(ps) : ps[k].next_prop \in 0..(k - 1)
  BY <1>1 DEF Linked, NULL
<1>3. Len(us) = N + 1
  BY <1>1 DEF NodeAdded
<1>4. ASSUME NEW n \in 1..(N + 1)
      PROVE  /\ us[n].parent \in 0..(n - 1) /\ us[n].sibling \in 0..(n - 1)
             /\ us[n].children \in {0} \union (n + 1)..(N + 1)
             /\ us[n].properties \in 0..Len(ps)
  <2>1. CASE n = N + 1
    <3>1. /\ us[n].parent = c /\ us[n].sibling = IF c = 0 THEN 0 ELSE ns[c].children
          /\ us[n].children = 0 /\ us[n].properties = 0
      BY <2>1, <1>1 DEF NodeAdded, NULL
    <3>2. c # 0 => c \in 1..N
      BY <1>1
    <3>3. us[n].sibling \in 0..N
      BY <3>1, <3>2, <1>2
    <3>4. us[n].parent \in 0..N /\ us[n].children \in {0} \union (n + 1)..(N + 1)
      BY <3>1, <1>1
    <3> QED
      BY <3>1, <3>3, <3>4, <2>1
  <2>2. CASE n # N + 1
    <3>1. n \in 1..N
      BY <2>2
    <3>2. /\ us[n].parent = ns[n].parent /\ us[n].sibling = ns[n].sibling
          /\ us[n].properties = ns[n].properties
          /\ us[n].children = IF n = c THEN N + 1 ELSE ns[n].children
      BY <3>1, <1>1 DEF NodeAdded
    <3>3. us[n].children \in {0} \union (n + 1)..(N + 1)
      <4>1. CASE n = c
        BY <4>1, <3>1, <3>2
      <4>2. CASE n # c
        BY <4>2, <3>1, <3>2, <1>2
      <4> QED
        BY <4>1, <4>2
    <3> QED
      BY <3>1, <3>2, <3>3, <1>2
  <2> QED
    BY <2>1, <2>2
<1> QED
  BY <1>2, <1>3, <1>4 DEF Linked, NULL

\* Its parent is the node that encloses it.
LEMMA AddNodeParents ==
  ASSUME NEW t, NEW u, TokenAdded(t, u), u[Len(t) + 1].kind = "NODE_START",
         NEW ns, NEW us, NEW c, NodeAdded(ns, us, c), NEW d, Stacked(t, ns, c, d),
         Parents(t, ns)
  PROVE  Parents(u, us)
<1>1. PICK L \in Nat : L = Len(t) /\ Len(u) = L + 1 /\ \A j \in 1..L : u[j] = t[j]
  BY DEF TokenAdded
<1>2. PICK N \in Nat : N = Len(ns) /\ Len(us) = N + 1
  BY DEF NodeAdded
<1>3. Cardinality(StartsOf(t, L)) = N /\ \A n \in 1..N : ns[n].parent = EnclosingOf(t, L, n)
  BY <1>1, <1>2 DEF Parents
<1>4. Cardinality(StartsOf(u, L + 1)) = N + 1
  <2>1. Cardinality(StartsOf(u, L + 1)) =
          Cardinality(StartsOf(t, L)) + IF u[L + 1].kind = "NODE_START" THEN 1 ELSE 0
    BY <1>1, TokenOpens
  <2> QED
    BY <2>1, <1>1, <1>3
<1>5. ASSUME NEW n \in 1..N PROVE us[n].parent = EnclosingOf(u, L + 1, n)
  <2>1. EnclosingOf(u, L + 1, n) = EnclosingOf(t, L, n)
    <3>1. n \in 1..Cardinality(StartsOf(t, L))
      BY <1>3
    <3> QED
      BY <3>1, <1>1, SameEnclosing
  <2>2. us[n].parent = ns[n].parent
    BY <1>2 DEF NodeAdded
  <2> QED
    BY <2>1, <2>2, <1>3
<1>6. us[N + 1].parent = EnclosingOf(u, L + 1, N + 1)
  <2>1. u[L + 1].kind = "NODE_START"
    BY <1>1
  <2>2. EnclosingOf(u, L + 1, Cardinality(StartsOf(t, L)) + 1) = OpenOf(t, L, DepthOf(t, L))
    BY <1>1, <2>1, NewestNode
  <2>3. c = OpenOf(t, L, DepthOf(t, L))
    BY <1>1 DEF Stacked
  <2>4. us[N + 1].parent = c
    BY <1>2 DEF NodeAdded
  <2> QED
    BY <2>2, <2>3, <2>4, <1>3
<1>7. \A n \in 1..(N + 1) : n \in 1..N \/ n = N + 1
  OBVIOUS
<1> QED
  BY <1>1, <1>2, <1>4, <1>5, <1>6, <1>7 DEF Parents

\* It heads the list of its parent's children, and no other list changes.
LEMMA AddNodeChildren ==
  ASSUME NEW ns, NEW us, NEW ps, NEW c \in 0..Len(ns), NodeAdded(ns, us, c),
         Linked(ns, ps), Linked(us, ps), ChildrenListed(ns)
  PROVE  ChildrenListed(us)
<1>1. PICK N \in Nat : N = Len(ns) /\ Len(us) = N + 1
  BY DEF NodeAdded
<1>2. /\ \A n \in 1..N : ns[n].sibling \in 0..(n - 1)
      /\ \A n \in 1..N : ns[n].children = 0 \/ ns[n].children \in (n + 1)..N
      /\ \A n \in 1..(N + 1) : us[n].sibling \in 0..(n - 1)
      /\ \A n \in 1..N : ns[n].parent \in 0..(n - 1)
  BY <1>1 DEF Linked, NULL
<1>3. \A n \in 1..N : us[n].sibling = ns[n].sibling /\ us[n].parent = ns[n].parent
                      /\ us[n].children = IF n = c THEN N + 1 ELSE ns[n].children
  BY <1>1 DEF NodeAdded
<1>4. us[N + 1].parent = c /\ us[N + 1].children = 0
      /\ us[N + 1].sibling = IF c = 0 THEN 0 ELSE ns[c].children
  BY <1>1 DEF NodeAdded, NULL
<1> DEFINE F(n) == ToSet(SiblingsOf(ns)[n])  G(n) == ToSet(SiblingsOf(us)[n])
<1>5. \A n \in 0..N : G(n) = F(n)
  <2>1. \A n \in 0..N : SiblingsOf(us)[n] = SiblingsOf(ns)[n]
    <3>1. /\ Len(ns) \in Nat /\ \A n \in 1..Len(ns) : ns[n].sibling \in 0..(n - 1)
          /\ Len(us) \in Nat /\ \A n \in 1..Len(us) : us[n].sibling \in 0..(n - 1)
          /\ Len(ns) <= Len(us) /\ \A n \in 1..Len(ns) : us[n].sibling = ns[n].sibling
      BY <1>1, <1>2, <1>3
    <3>2. \A n \in 0..Len(ns) : SiblingsOf(us)[n] = SiblingsOf(ns)[n]
      BY <3>1, SiblingsKept
    <3> QED
      BY <3>2, <1>1
  <2> QED
    BY <2>1
<1>6. G(N + 1) = {N + 1} \union G(us[N + 1].sibling) /\ G(0) = {}
  <2>1. Len(us) \in Nat /\ \A n \in 1..Len(us) : us[n].sibling \in 0..(n - 1)
    BY <1>1, <1>2
  <2>2. /\ ToSet(SiblingsOf(us)[0]) = {}
        /\ \A n \in 1..Len(us) :
              ToSet(SiblingsOf(us)[n]) = {n} \union ToSet(SiblingsOf(us)[us[n].sibling])
    BY <2>1, SiblingsHold
  <2>3. N + 1 \in 1..Len(us)
    BY <1>1
  <2> QED
    BY <2>2, <2>3
<1>7. \A n \in 1..N : \A m : m \in F(ns[n].children) <=> m \in 1..N /\ ns[m].parent = n
  BY <1>1 DEF ChildrenListed
<1> HIDE DEF F, G
<1>8. ASSUME NEW n \in 1..(N + 1), NEW m
      PROVE  m \in G(us[n].children) <=> m \in 1..(N + 1) /\ us[m].parent = n
  <2>1. m \in 1..(N + 1) <=> m \in 1..N \/ m = N + 1
    OBVIOUS
  <2>2. CASE n = N + 1
    <3>1. m \notin G(us[n].children)
      BY <2>2, <1>4, <1>6
    <3>2. m \in 1..N => us[m].parent # n
      BY <2>2, <1>2, <1>3
    <3>3. m = N + 1 => us[m].parent # n
      BY <2>2, <1>1, <1>4
    <3> QED
      BY <3>1, <3>2, <3>3, <2>1
  <2>3. CASE n # N + 1 /\ n = c
    <3>1. n \in 1..N /\ n # 0
      BY <2>3
    <3>2. us[n].children = N + 1 /\ us[N + 1].sibling = ns[n].children
      BY <3>1, <2>3, <1>3, <1>4
    <3>3. ns[n].children \in 0..N
      <4>1. ns[n].children = 0 \/ ns[n].children \in (n + 1)..N
        BY <3>1, <1>2, Zenon
      <4> QED
        BY <4>1, <3>1
    <3>4. G(us[n].children) = {N + 1} \union F(ns[n].children)
      BY <3>2, <3>3, <1>5, <1>6
    <3>5. m \in F(ns[n].children) <=> m \in 1..N /\ ns[m].parent = n
      BY <3>1, <1>7
    <3>6. us[N + 1].parent = n
      BY <1>4, <2>3
    <3> QED
      BY <3>4, <3>5, <3>6, <2>1, <1>3
  <2>4. CASE n # N + 1 /\ n # c
    <3>1. n \in 1..N
      BY <2>4
    <3>2. us[n].children = ns[n].children /\ ns[n].children \in 0..N
      BY <3>1, <2>4, <1>2, <1>3
    <3>3. G(us[n].children) = F(ns[n].children)
      BY <3>2, <1>5
    <3>4. m \in F(ns[n].children) <=> m \in 1..N /\ ns[m].parent = n
      BY <3>1, <1>7
    <3>5. us[N + 1].parent # n
      BY <1>4, <2>4
    <3> QED
      BY <3>3, <3>4, <3>5, <2>1, <1>3
  <2> QED
    BY <2>2, <2>3, <2>4
<1> QED
  BY <1>1, <1>8 DEF ChildrenListed, G

\* No list of properties changes, and the new one is empty.
LEMMA AddNodeProperties ==
  ASSUME NEW t, NEW u, TokenAdded(t, u), u[Len(t) + 1].kind = "NODE_START",
         NEW ns, NEW us, NEW c, NodeAdded(ns, us, c), Parents(t, ns),
         NEW ps, Len(ps) \in Nat, Linked(ns, ps), PropertiesListed(t, ns, ps)
  PROVE  PropertiesListed(u, us, ps)
<1>1. PICK L \in Nat : L = Len(t) /\ Len(u) = L + 1 /\ \A j \in 1..L : u[j] = t[j]
  BY DEF TokenAdded
<1>2. PICK N \in Nat : N = Len(ns) /\ Len(us) = N + 1
  BY DEF NodeAdded
<1>3. ASSUME NEW n
      PROVE  /\ Cardinality(DeclaredOf(u, n)) = Cardinality(DeclaredOf(t, n))
             /\ DeclaredOf(u, n) = DeclaredOf(t, n)
             /\ NamesDeclared(u, n) = NamesDeclared(t, n)
  <2>1. u[Len(t) + 1].kind # "PROPERTY"
    OBVIOUS
  <2>2. /\ DeclaredOf(u, n) = DeclaredOf(t, n)
        /\ NamesDeclared(u, n) = NamesDeclared(t, n)
    BY <2>1, OtherTokenDeclares
  <2> QED
    BY <2>2
<1>4. ASSUME NEW n \in 1..N
      PROVE  /\ Len(PropertiesOf(ps)[us[n].properties]) = Cardinality(DeclaredOf(u, n))
             /\ NamesListed(us, ps, n) = NamesDeclared(u, n)
  <2>1. us[n].properties = ns[n].properties
    BY <1>2 DEF NodeAdded
  <2>2. NamesListed(us, ps, n) = NamesListed(ns, ps, n)
    BY <2>1 DEF NamesListed
  <2>3. /\ Len(PropertiesOf(ps)[ns[n].properties]) = Cardinality(DeclaredOf(t, n))
        /\ NamesListed(ns, ps, n) = NamesDeclared(t, n)
    BY <1>2 DEF PropertiesListed
  <2> QED
    BY <2>1, <2>2, <2>3, <1>3
<1>5. DeclaredOf(t, N + 1) = {}
  <2>1. ASSUME NEW k \in 1..L PROVE OpenOf(t, k, DepthOf(t, k)) # N + 1
    <3>1. k \in 0..L
      OBVIOUS
    <3>2. OpenOf(t, k, DepthOf(t, k)) \in 0..Cardinality(StartsOf(t, L))
      BY <3>1, OpenBounded
    <3>3. Cardinality(StartsOf(t, L)) = N
      BY <1>1, <1>2 DEF Parents
    <3> QED
      BY <3>2, <3>3
  <2> QED
    BY <2>1, <1>1 DEF DeclaredOf
<1>6. /\ Len(PropertiesOf(ps)[us[N + 1].properties]) = Cardinality(DeclaredOf(u, N + 1))
      /\ NamesListed(us, ps, N + 1) = NamesDeclared(u, N + 1)
  <2>1. us[N + 1].properties = 0
    BY <1>2 DEF NodeAdded, NULL
  <2>2. PropertiesOf(ps)[0] = << >>
    <3>1. \A k \in 1..Len(ps) : ps[k].next_prop \in 0..(k - 1)
      BY DEF Linked
    <3> QED
      BY <3>1, PropertiesHold
  <2>3. Cardinality({}) = 0
    BY FS_EmptySet
  <2>4. DeclaredOf(u, N + 1) = {}
    BY <1>3, <1>5
  <2>5. NamesListed(us, ps, N + 1) = {}
    BY <2>1, <2>2 DEF NamesListed
  <2>6. NamesDeclared(u, N + 1) = {}
    BY <2>4 DEF NamesDeclared
  <2>7. Len(PropertiesOf(ps)[us[N + 1].properties]) = 0
    BY <2>1, <2>2
  <2> QED
    BY <2>3, <2>4, <2>5, <2>6, <2>7
<1>7. \A n \in 1..(N + 1) : n \in 1..N \/ n = N + 1
  OBVIOUS
<1> QED
  BY <1>2, <1>4, <1>6, <1>7 DEF PropertiesListed

\* It is the current node, one level down.
LEMMA AddNodeStacked ==
  ASSUME NEW t, NEW u, TokenAdded(t, u), u[Len(t) + 1].kind = "NODE_START",
         NEW ns, NEW us, NEW c, NodeAdded(ns, us, c), NEW d, Stacked(t, ns, c, d),
         Parents(t, ns)
  PROVE  Stacked(u, us, Len(ns) + 1, d + 1)
<1>1. PICK L \in Nat : L = Len(t) /\ Len(u) = L + 1 /\ \A j \in 1..L : u[j] = t[j]
  BY DEF TokenAdded
<1>2. PICK N \in Nat : N = Len(ns) /\ Len(us) = N + 1
  BY DEF NodeAdded
<1>3. /\ d \in Nat /\ d = DepthOf(t, L) /\ c = OpenOf(t, L, d)
      /\ \A e \in 1..d : /\ OpenOf(t, L, e) \in 1..N
                         /\ ns[OpenOf(t, L, e)].parent = OpenOf(t, L, e - 1)
  BY <1>1, <1>2 DEF Stacked
<1>4. Cardinality(StartsOf(t, L)) = N
  BY <1>1, <1>2 DEF Parents
<1>5. u[L + 1].kind = "NODE_START"
  BY <1>1
<1>6. DepthOf(u, L + 1) = d + 1
  <2>1. DepthOf(u, L + 1) = DepthOf(t, L) + 1
    BY <1>1, <1>5, TokenDepth
  <2> QED
    BY <2>1, <1>3
<1>7. OpenOf(u, L + 1, d + 1) = N + 1
  <2>1. u[L + 1].kind = "NODE_START" /\ DepthOf(t, L) >= 0 =>
              OpenOf(u, L + 1, DepthOf(t, L) + 1) = Cardinality(StartsOf(t, L)) + 1
    BY <1>1, TokenOpens
  <2> QED
    BY <2>1, <1>3, <1>4, <1>5
<1>8. \A e \in Int : e <= d => OpenOf(u, L + 1, e) = OpenOf(t, L, e)
  <2>1. \A e \in Int : e <= DepthOf(t, L) => OpenOf(u, L + 1, e) = OpenOf(t, L, e)
    BY <1>1, TokenOpens, ZenonT(40)
  <2> QED
    BY <2>1, <1>3
<1>9. ASSUME NEW e \in 1..(d + 1)
      PROVE  /\ OpenOf(u, L + 1, e) \in 1..(N + 1)
             /\ us[OpenOf(u, L + 1, e)].parent = OpenOf(u, L + 1, e - 1)
  <2>1. CASE e = d + 1
    <3>1. e - 1 = d /\ OpenOf(u, L + 1, e - 1) = c
      BY <2>1, <1>3, <1>8
    <3>2. us[N + 1].parent = c
      BY <1>2 DEF NodeAdded
    <3> QED
      BY <3>1, <3>2, <2>1, <1>7
  <2>2. CASE e # d + 1
    <3>1. e \in 1..d /\ e \in Int /\ e <= d /\ e - 1 \in Int /\ e - 1 <= d
      BY <2>2, <1>3
    <3>2. OpenOf(u, L + 1, e) = OpenOf(t, L, e) /\ OpenOf(u, L + 1, e - 1) = OpenOf(t, L, e - 1)
      BY <3>1, <1>8
    <3>3. OpenOf(t, L, e) \in 1..N /\ ns[OpenOf(t, L, e)].parent = OpenOf(t, L, e - 1)
      BY <3>1, <1>3
    <3>4. us[OpenOf(t, L, e)].parent = ns[OpenOf(t, L, e)].parent
      BY <3>3, <1>2 DEF NodeAdded
    <3> QED
      BY <3>2, <3>3, <3>4
  <2> QED
    BY <2>1, <2>2
<1> QED
  BY <1>1, <1>2, <1>3, <1>6, <1>7, <1>9 DEF Stacked

\* It is the new root if it is nameless and at the top.
LEMMA AddNodeRooted ==
  ASSUME NEW t, NEW u, TokenAdded(t, u), u[Len(t) + 1].kind = "NODE_START",
         NEW ns, NEW us, NEW c, NodeAdded(ns, us, c), NEW d, Stacked(t, ns, c, d),
         Parents(t, ns), NEW r, Rooted(t, ns, r)
  PROVE  Rooted(u, us, IF c = NULL /\ u[Len(t) + 1].name = "" THEN Len(ns) + 1 ELSE r)
<1>1. PICK L \in Nat : L = Len(t) /\ Len(u) = L + 1 /\ \A j \in 1..L : u[j] = t[j]
  BY DEF TokenAdded
<1>2. PICK N \in Nat : N = Len(ns) /\ Len(us) = N + 1
  BY DEF NodeAdded
<1>3. Cardinality(StartsOf(t, L)) = N /\ c = OpenOf(t, L, DepthOf(t, L))
  BY <1>1, <1>2 DEF Parents, Stacked
<1> DEFINE top == c = NULL /\ u[L + 1].name = ""
<1>4. ASSUME NEW n \in 1..N
      PROVE  /\ FirstOf(u, L + 1, n) = FirstOf(t, L, n)
             /\ EnclosingOf(u, L + 1, n) = EnclosingOf(t, L, n)
             /\ u[FirstOf(t, L, n)] = t[FirstOf(t, L, n)]
  <2>1. n \in 1..Cardinality(StartsOf(t, L))
    BY <1>3
  <2>2. FirstOf(t, L, n) \in 1..L
    BY <2>1, FirstOfIs
  <2>3. FirstOf(u, L + 1, n) = FirstOf(t, L, n) /\ EnclosingOf(u, L + 1, n) = EnclosingOf(t, L, n)
    BY <2>1, <1>1, SameEnclosing
  <2> QED
    BY <2>2, <2>3, <1>1
<1>5. FirstOf(u, L + 1, N + 1) = L + 1 /\ EnclosingOf(u, L + 1, N + 1) = c
  <2>1. u[L + 1].kind = "NODE_START"
    BY <1>1
  <2>2. /\ FirstOf(u, L + 1, Cardinality(StartsOf(t, L)) + 1) = L + 1
        /\ EnclosingOf(u, L + 1, Cardinality(StartsOf(t, L)) + 1) = OpenOf(t, L, DepthOf(t, L))
    BY <2>1, <1>1, NewestNode
  <2> QED
    BY <2>2, <1>3
<1> DEFINE Old == TopsOf(t, ns)  New == TopsOf(u, us)
<1>6. \A n : n \in Old <=> n \in 1..N /\ EnclosingOf(t, L, n) = NULL /\ t[FirstOf(t, L, n)].name = ""
  BY <1>1, <1>2 DEF TopsOf
<1>7. \A n : n \in New <=> /\ n \in 1..(N + 1) /\ EnclosingOf(u, L + 1, n) = NULL
                           /\ u[FirstOf(u, L + 1, n)].name = ""
  BY <1>1, <1>2 DEF TopsOf
<1>8. N + 1 \in New <=> top
  <2>1. N + 1 \in 1..(N + 1)
    OBVIOUS
  <2> QED
    BY <2>1, <1>5, <1>7
<1>9. \A n \in 1..N : n \in New <=> n \in Old
  <2> SUFFICES ASSUME NEW n \in 1..N PROVE n \in New <=> n \in Old
    OBVIOUS
  <2>1. n \in 1..(N + 1)
    OBVIOUS
  <2> QED
    BY <2>1, <1>4, <1>6, <1>7
<1>10. Old \in SUBSET (1..N) /\ New \in SUBSET (1..(N + 1))
  BY <1>6, <1>7
<1>11. r = IF Old = {} THEN NULL ELSE Max(Old)
  BY DEF Rooted
<1> HIDE DEF Old, New
<1>12. CASE top
  <2>1. N + 1 \in New /\ N + 1 \in Nat
    <3>1. N + 1 \in Nat
      OBVIOUS
    <3> HIDE DEF top
    <3> QED
      BY <3>1, <1>8, <1>12
  <2>2. Max(New) \in New /\ \A y \in New : y <= Max(New)
    <3>1. \A y : y \in 1..(N + 1) => y \in 0..(N + 1)
      OBVIOUS
    <3>2. New \in SUBSET (0..(N + 1))
      BY <3>1, <1>10
    <3> QED
      BY <2>1, <3>2, Greatest
  <2>3. Max(New) = N + 1
    <3>1. Max(New) \in 1..(N + 1)
      BY <2>2, <1>10
    <3>2. N + 1 <= Max(New)
      BY <2>1, <2>2
    <3> QED
      BY <3>1, <3>2
  <2>4. New # {}
    BY <2>1
  <2>5. Rooted(u, us, N + 1)
    BY <2>3, <2>4 DEF Rooted, New
  <2> QED
    BY <2>5, <1>1, <1>2, <1>12
<1>13. CASE ~top
  <2>1. N + 1 \notin New
    BY <1>8, <1>13
  <2>2. \A n \in 1..(N + 1) : n \in 1..N \/ n = N + 1
    OBVIOUS
  <2>3. New = Old
    BY <2>1, <2>2, <1>9, <1>10
  <2>4. Rooted(u, us, r)
    BY <2>3, <1>11 DEF Rooted, New
  <2> QED
    BY <2>4, <1>1, <1>2, <1>13
<1> QED
  BY <1>12, <1>13

-----------------------------------------------------------------------------
(***************************************************************************)
(* Tokens that begin no node.                                              *)
(***************************************************************************)

\* Behind such a token every node is enclosed by what it was, and the root is
\* the same.
LEMMA OtherTokenParents ==
  ASSUME NEW t, NEW u, TokenAdded(t, u), u[Len(t) + 1].kind # "NODE_START",
         NEW ns, Len(ns) \in Nat, Parents(t, ns), NEW r, Rooted(t, ns, r)
  PROVE  Parents(u, ns) /\ Rooted(u, ns, r)
<1>1. PICK L \in Nat : L = Len(t) /\ Len(u) = L + 1 /\ \A j \in 1..L : u[j] = t[j]
  BY DEF TokenAdded
<1>2. PICK N \in Nat : N = Len(ns)
  OBVIOUS
<1>3. Cardinality(StartsOf(t, L)) = N
  BY <1>1, <1>2 DEF Parents
<1>4. ASSUME NEW n \in 1..N
      PROVE  /\ FirstOf(u, L + 1, n) = FirstOf(t, L, n)
             /\ EnclosingOf(u, L + 1, n) = EnclosingOf(t, L, n)
             /\ u[FirstOf(t, L, n)] = t[FirstOf(t, L, n)]
  <2>1. n \in 1..Cardinality(StartsOf(t, L))
    BY <1>3
  <2>2. FirstOf(t, L, n) \in 1..L
    BY <2>1, FirstOfIs
  <2>3. FirstOf(u, L + 1, n) = FirstOf(t, L, n) /\ EnclosingOf(u, L + 1, n) = EnclosingOf(t, L, n)
    BY <2>1, <1>1, SameEnclosing
  <2> QED
    BY <2>2, <2>3, <1>1
<1>5. Cardinality(StartsOf(u, L + 1)) = N
  <2>1. Cardinality(StartsOf(u, L + 1)) =
              Cardinality(StartsOf(t, L)) + IF u[L + 1].kind = "NODE_START" THEN 1 ELSE 0
    BY <1>1, TokenOpens
  <2> QED
    BY <2>1, <1>1, <1>3
<1>6. Parents(u, ns)
  BY <1>1, <1>2, <1>4, <1>5 DEF Parents
<1>7. TopsOf(u, ns) = TopsOf(t, ns)
  BY <1>1, <1>2, <1>4, ZenonT(60) DEF TopsOf
<1> QED
  BY <1>6, <1>7 DEF Rooted

\* NODE_END leaves the current node for its parent.
LEMMA EndNodeStacked ==
  ASSUME NEW t, NEW u, TokenAdded(t, u), u[Len(t) + 1].kind = "NODE_END",
         NEW ns, Len(ns) \in Nat, NEW c, c # NULL, NEW d, Stacked(t, ns, c, d)
  PROVE  Stacked(u, ns, ns[c].parent, d - 1)
<1>1. PICK L \in Nat : L = Len(t) /\ Len(u) = L + 1 /\ \A j \in 1..L : u[j] = t[j]
  BY DEF TokenAdded
<1>2. /\ d \in Nat /\ d = DepthOf(t, L) /\ c = OpenOf(t, L, d)
      /\ \A e \in 1..d : /\ OpenOf(t, L, e) \in 1..Len(ns)
                         /\ ns[OpenOf(t, L, e)].parent = OpenOf(t, L, e - 1)
  BY <1>1 DEF Stacked
<1>3. d # 0
  BY CurrentIsNode
<1>4. DepthOf(u, L + 1) = d - 1
  <2>1. u[L + 1].kind = "NODE_END"
    BY <1>1
  <2>2. DepthOf(u, L + 1) = DepthOf(t, L) - 1
    BY <1>1, <2>1, TokenDepth
  <2> QED
    BY <2>2, <1>2
<1>5. \A e \in Int : e <= d => OpenOf(u, L + 1, e) = OpenOf(t, L, e)
  <2>1. \A e \in Int : e <= DepthOf(t, L) => OpenOf(u, L + 1, e) = OpenOf(t, L, e)
    BY <1>1, TokenOpens, ZenonT(40)
  <2> QED
    BY <2>1, <1>2
<1>6. OpenOf(u, L + 1, d - 1) = ns[c].parent
  <2>1. d \in 1..d /\ d - 1 \in Int /\ d - 1 <= d
    BY <1>2, <1>3
  <2> QED
    BY <2>1, <1>2, <1>5
<1>7. ASSUME NEW e \in 1..(d - 1)
      PROVE  /\ OpenOf(u, L + 1, e) \in 1..Len(ns)
             /\ ns[OpenOf(u, L + 1, e)].parent = OpenOf(u, L + 1, e - 1)
  <2>1. e \in 1..d /\ e \in Int /\ e <= d /\ e - 1 \in Int /\ e - 1 <= d
    BY <1>2
  <2>2. OpenOf(u, L + 1, e) = OpenOf(t, L, e) /\ OpenOf(u, L + 1, e - 1) = OpenOf(t, L, e - 1)
    BY <2>1, <1>5
  <2> QED
    BY <2>1, <2>2, <1>2
<1>8. d - 1 \in Nat
  BY <1>2, <1>3
<1> QED
  BY <1>1, <1>4, <1>6, <1>7, <1>8 DEF Stacked

\* A property leaves the stack as it is.
LEMMA PropertyStacked ==
  ASSUME NEW t, NEW u, TokenAdded(t, u), u[Len(t) + 1].kind = "PROPERTY",
         NEW ns, NEW c, NEW d, Stacked(t, ns, c, d)
  PROVE  Stacked(u, ns, c, d)
<1>1. PICK L \in Nat : L = Len(t) /\ Len(u) = L + 1 /\ \A j \in 1..L : u[j] = t[j]
  BY DEF TokenAdded
<1>2. /\ d \in Nat /\ d = DepthOf(t, L) /\ c = OpenOf(t, L, d)
      /\ \A e \in 1..d : /\ OpenOf(t, L, e) \in 1..Len(ns)
                         /\ ns[OpenOf(t, L, e)].parent = OpenOf(t, L, e - 1)
  BY <1>1 DEF Stacked
<1>3. DepthOf(u, L + 1) = d
  <2>1. u[L + 1].kind = "PROPERTY"
    BY <1>1
  <2>2. DepthOf(u, L + 1) = DepthOf(t, L)
    BY <1>1, <2>1, TokenDepth
  <2> QED
    BY <2>2, <1>2
<1>4. \A e \in Int : e <= d => OpenOf(u, L + 1, e) = OpenOf(t, L, e)
  <2>1. \A e \in Int : e <= DepthOf(t, L) => OpenOf(u, L + 1, e) = OpenOf(t, L, e)
    BY <1>1, TokenOpens
  <2> QED
    BY <2>1, <1>2
<1>5. ASSUME NEW e \in 1..d
      PROVE  /\ OpenOf(u, L + 1, e) \in 1..Len(ns)
             /\ ns[OpenOf(u, L + 1, e)].parent = OpenOf(u, L + 1, e - 1)
  <2>1. e \in Int /\ e <= d /\ e - 1 \in Int /\ e - 1 <= d
    BY <1>2
  <2>2. OpenOf(u, L + 1, e) = OpenOf(t, L, e) /\ OpenOf(u, L + 1, e - 1) = OpenOf(t, L, e - 1)
    BY <2>1, <1>4
  <2> QED
    BY <2>2, <1>2
<1>6. c = OpenOf(u, L + 1, d)
  BY <1>2, <1>4
<1> QED
  BY <1>1, <1>2, <1>3, <1>5, <1>6 DEF Stacked

\* A node's list of properties is the same when it declares the same.
LEMMA DeclaredAlike ==
  ASSUME NEW t, NEW u, NEW ns, NEW ps, PropertiesListed(t, ns, ps),
         \A n \in 1..Len(ns) : /\ DeclaredOf(u, n) = DeclaredOf(t, n)
                               /\ NamesDeclared(u, n) = NamesDeclared(t, n)
  PROVE  PropertiesListed(u, ns, ps)
BY DEF PropertiesListed

\* NODE_END declares nothing.
LEMMA EndNodeProperties ==
  ASSUME NEW t, NEW u, TokenAdded(t, u), u[Len(t) + 1].kind = "NODE_END",
         NEW ns, NEW ps, PropertiesListed(t, ns, ps)
  PROVE  PropertiesListed(u, ns, ps)
<1>1. u[Len(t) + 1].kind # "PROPERTY"
  OBVIOUS
<1>2. ASSUME NEW n
      PROVE  DeclaredOf(u, n) = DeclaredOf(t, n) /\ NamesDeclared(u, n) = NamesDeclared(t, n)
  BY <1>1, OtherTokenDeclares
<1> QED
  BY <1>2, DeclaredAlike

\* Nor does a property outside all nodes, which no node gets.
LEMMA LostProperty ==
  ASSUME NEW t, NEW u, TokenAdded(t, u), u[Len(t) + 1].kind = "PROPERTY",
         NEW ns, Len(ns) \in Nat, NEW ps, NEW d, Stacked(t, ns, NULL, d),
         PropertiesListed(t, ns, ps)
  PROVE  PropertiesListed(u, ns, ps)
<1>1. Len(t) \in Nat /\ Len(u) = Len(t) + 1 /\ \A j \in 1..Len(t) : u[j] = t[j]
  BY DEF TokenAdded
<1>2. OpenOf(t, Len(t), DepthOf(t, Len(t))) = 0
  BY DEF Stacked, NULL
<1>3. ASSUME NEW n \in 1..Len(ns)
      PROVE  DeclaredOf(u, n) = DeclaredOf(t, n) /\ NamesDeclared(u, n) = NamesDeclared(t, n)
  <2> DEFINE own == u[Len(t) + 1].kind = "PROPERTY" /\ OpenOf(t, Len(t), DepthOf(t, Len(t))) = n
  <2>1. DeclaredOf(u, n) = DeclaredOf(t, n) \union (IF own THEN {Len(t) + 1} ELSE {})
    BY <1>1, TokenDeclares
  <2>2. ~own
    BY <1>2
  <2>3. DeclaredOf(u, n) = DeclaredOf(t, n)
    BY <2>1, <2>2
  <2>4. \A k \in DeclaredOf(t, n) : u[k] = t[k]
    BY <1>1 DEF DeclaredOf
  <2> QED
    BY <2>3, <2>4 DEF NamesDeclared
<1> QED
  BY <1>3, DeclaredAlike

-----------------------------------------------------------------------------
(***************************************************************************)
(* Steps that leave the pointers between nodes alone.                      *)
(***************************************************************************)
SameTree(ns, us) ==
  /\ Len(ns) \in Nat /\ Len(us) = Len(ns)
  /\ \A n \in 1..Len(ns) : /\ us[n].parent = ns[n].parent /\ us[n].sibling = ns[n].sibling
                           /\ us[n].children = ns[n].children

\* The nodes hang together as before.
LEMMA SameTreeMirrors ==
  ASSUME NEW t, NEW ns, NEW us, SameTree(ns, us)
  PROVE  /\ Parents(t, ns) => Parents(t, us)
         /\ \A r : Rooted(t, ns, r) => Rooted(t, us, r)
         /\ \A c, d : Stacked(t, ns, c, d) => Stacked(t, us, c, d)
<1>1. Len(us) = Len(ns) /\ \A n \in 1..Len(ns) : us[n].parent = ns[n].parent
  BY DEF SameTree
<1>2. Parents(t, ns) => Parents(t, us)
  BY <1>1 DEF Parents
<1>3. TopsOf(t, us) = TopsOf(t, ns)
  BY <1>1 DEF TopsOf
<1>4. \A r : Rooted(t, ns, r) => Rooted(t, us, r)
  BY <1>3 DEF Rooted
<1>5. ASSUME NEW c, NEW d, Stacked(t, ns, c, d) PROVE Stacked(t, us, c, d)
  BY <1>1, <1>5 DEF Stacked
<1> QED
  BY <1>2, <1>4, <1>5

\* The lists of children are as before.
LEMMA SameTreeChildren ==
  ASSUME NEW ns, NEW us, SameTree(ns, us), NEW ps, Linked(ns, ps), ChildrenListed(ns)
  PROVE  ChildrenListed(us)
<1>1. PICK N \in Nat : N = Len(ns) /\ Len(us) = N
  BY DEF SameTree
<1>2. \A n \in 1..N : /\ us[n].parent = ns[n].parent /\ us[n].sibling = ns[n].sibling
                      /\ us[n].children = ns[n].children
  BY <1>1 DEF SameTree
<1>3. \A n \in 1..N : ns[n].sibling \in 0..(n - 1) /\ (ns[n].children = 0 \/ ns[n].children \in (n + 1)..N)
  BY <1>1 DEF Linked, NULL
<1>4. /\ Len(ns) \in Nat /\ \A n \in 1..Len(ns) : ns[n].sibling \in 0..(n - 1)
      /\ Len(us) \in Nat /\ \A n \in 1..Len(us) : us[n].sibling \in 0..(n - 1)
      /\ Len(ns) <= Len(us) /\ \A n \in 1..Len(ns) : us[n].sibling = ns[n].sibling
  BY <1>1, <1>2, <1>3
<1>5. \A n \in 0..Len(ns) : SiblingsOf(us)[n] = SiblingsOf(ns)[n]
  BY <1>4, SiblingsKept
<1>6. ASSUME NEW n \in 1..N, NEW m
      PROVE  m \in ToSet(SiblingsOf(us)[us[n].children]) <=> m \in 1..N /\ us[m].parent = n
  <2>1. ns[n].children \in 0..N
    BY <1>3
  <2>2. SiblingsOf(us)[us[n].children] = SiblingsOf(ns)[ns[n].children]
    BY <2>1, <1>1, <1>2, <1>5
  <2>3. m \in ToSet(SiblingsOf(ns)[ns[n].children]) <=> m \in 1..N /\ ns[m].parent = n
    BY <1>1 DEF ChildrenListed
  <2> QED
    BY <2>2, <2>3, <1>2
<1> QED
  BY <1>1, <1>6 DEF ChildrenListed

\* The names of a list, by its elements.
LEMMA NamesOfList ==
  ASSUME NEW ns, NEW ps, NEW n
  PROVE  NamesListed(ns, ps, n) = {ps[k].name : k \in ToSet(PropertiesOf(ps)[ns[n].properties])}
BY DEF NamesListed, ToSet

SameProps(ps, qs) ==
  /\ Len(ps) \in Nat /\ Len(qs) = Len(ps)
  /\ \A k \in 1..Len(ps) : qs[k].next_prop = ps[k].next_prop /\ qs[k].name = ps[k].name

\* Links are in order when none changes.
LEMMA SameLinked ==
  ASSUME NEW ns, NEW us, SameTree(ns, us), \A n \in 1..Len(ns) : us[n].properties = ns[n].properties,
         NEW ps, NEW qs, SameProps(ps, qs), Linked(ns, ps)
  PROVE  Linked(us, qs)
BY DEF SameTree, SameProps, Linked

\* So are the lists of properties.
LEMMA SameListed ==
  ASSUME NEW t, NEW ns, NEW us, SameTree(ns, us),
         \A n \in 1..Len(ns) : us[n].properties = ns[n].properties,
         NEW ps, NEW qs, SameProps(ps, qs), Linked(ns, ps), PropertiesListed(t, ns, ps)
  PROVE  PropertiesListed(t, us, qs)
<1>1. PICK N \in Nat : N = Len(ns) /\ Len(us) = N
  BY DEF SameTree
<1>2. PICK P \in Nat : P = Len(ps) /\ Len(qs) = P
  BY DEF SameProps
<1>3. \A k \in 1..P : qs[k].next_prop = ps[k].next_prop /\ qs[k].name = ps[k].name
  BY <1>2 DEF SameProps
<1>4. \A k \in 1..P : ps[k].next_prop \in 0..(k - 1)
  BY <1>2 DEF Linked
<1>5. /\ Len(ps) \in Nat /\ \A k \in 1..Len(ps) : ps[k].next_prop \in 0..(k - 1)
      /\ Len(qs) \in Nat /\ \A k \in 1..Len(qs) : qs[k].next_prop \in 0..(k - 1)
      /\ Len(ps) <= Len(qs) /\ \A k \in 1..Len(ps) : qs[k].next_prop = ps[k].next_prop
  BY <1>2, <1>3, <1>4
<1>6. \A k \in 0..Len(ps) : PropertiesOf(qs)[k] = PropertiesOf(ps)[k]
  BY <1>5, PropertiesKept
<1>7. \A k \in 0..Len(ps) : \A m \in ToSet(PropertiesOf(ps)[k]) : m \in 1..k
  BY <1>5, PropertiesHold
<1>8. ASSUME NEW n \in 1..N
      PROVE  /\ Len(PropertiesOf(qs)[us[n].properties]) = Cardinality(DeclaredOf(t, n))
             /\ NamesListed(us, qs, n) = NamesDeclared(t, n)
  <2>1. us[n].properties = ns[n].properties /\ ns[n].properties \in 0..P
    BY <1>1, <1>2 DEF Linked
  <2>2. PropertiesOf(qs)[us[n].properties] = PropertiesOf(ps)[ns[n].properties]
    BY <2>1, <1>2, <1>6
  <2>3. \A m \in ToSet(PropertiesOf(ps)[ns[n].properties]) : qs[m].name = ps[m].name
    <3>1. \A m \in ToSet(PropertiesOf(ps)[ns[n].properties]) : m \in 1..ns[n].properties
      BY <2>1, <1>2, <1>7
    <3>2. \A m \in 1..ns[n].properties : m \in 1..P
      BY <2>1
    <3> QED
      BY <3>1, <3>2, <1>3
  <2>4. NamesListed(us, qs, n) = {qs[k].name : k \in ToSet(PropertiesOf(ps)[ns[n].properties])}
    BY <2>2, NamesOfList
  <2>5. NamesListed(us, qs, n) = {ps[k].name : k \in ToSet(PropertiesOf(ps)[ns[n].properties])}
    BY <2>3, <2>4
  <2>6. NamesListed(us, qs, n) = NamesListed(ns, ps, n)
    BY <2>5, NamesOfList
  <2>7. /\ Len(PropertiesOf(ps)[ns[n].properties]) = Cardinality(DeclaredOf(t, n))
        /\ NamesListed(ns, ps, n) = NamesDeclared(t, n)
    BY <1>1 DEF PropertiesListed
  <2> QED
    BY <2>2, <2>6, <2>7
<1> QED
  BY <1>1, <1>8 DEF PropertiesListed

-----------------------------------------------------------------------------
(***************************************************************************)
(* device_tree_first_pass_property: a PROPERTY token, and the property in  *)
(* front of the current node's list.                                       *)
(***************************************************************************)
PropertyAdded(ns, us, ps, qs, c, name) ==
  /\ SameTree(ns, us) /\ Len(ps) \in Nat /\ Len(qs) = Len(ps) + 1
  /\ \A n \in 1..Len(ns) :
       us[n].properties = IF n = c THEN Len(ps) + 1 ELSE ns[n].properties
  /\ \A k \in 1..Len(ps) : qs[k].next_prop = ps[k].next_prop /\ qs[k].name = ps[k].name
  /\ qs[Len(ps) + 1].next_prop = ns[c].properties /\ qs[Len(ps) + 1].name = name

\* The links to the new property and behind it are in order.
LEMMA AddPropertyLinked ==
  ASSUME NEW ns, NEW us, NEW ps, NEW qs, NEW c \in 1..Len(ns), NEW name,
         PropertyAdded(ns, us, ps, qs, c, name), Linked(ns, ps)
  PROVE  Linked(us, qs)
<1>1. PICK N \in Nat : N = Len(ns) /\ Len(us) = N
  BY DEF PropertyAdded, SameTree
<1>2. PICK P \in Nat : P = Len(ps) /\ Len(qs) = P + 1
  BY DEF PropertyAdded
<1>3. /\ \A n \in 1..N :
           /\ ns[n].parent \in 0..(n - 1) /\ ns[n].sibling \in 0..(n - 1)
           /\ ns[n].children \in {NULL} \union (n + 1)..N
           /\ ns[n].properties \in 0..P
      /\ \A k \in 1..P : ps[k].next_prop \in 0..(k - 1)
  BY <1>1, <1>2 DEF Linked
<1>4. ASSUME NEW n \in 1..N
      PROVE  /\ us[n].parent \in 0..(n - 1) /\ us[n].sibling \in 0..(n - 1)
             /\ us[n].children \in {NULL} \union (n + 1)..N
             /\ us[n].properties \in 0..(P + 1)
  <2>1. /\ us[n].parent = ns[n].parent /\ us[n].sibling = ns[n].sibling
        /\ us[n].children = ns[n].children
    BY <1>1 DEF PropertyAdded, SameTree
  <2>2. us[n].properties = IF n = c THEN P + 1 ELSE ns[n].properties
    BY <1>1, <1>2 DEF PropertyAdded
  <2>3. us[n].properties \in 0..(P + 1)
    BY <2>2, <1>3
  <2> QED
    BY <2>1, <2>3, <1>3
<1>5. ASSUME NEW k \in 1..(P + 1) PROVE qs[k].next_prop \in 0..(k - 1)
  <2>1. CASE k = P + 1
    <3>1. qs[k].next_prop = ns[c].properties
      BY <2>1, <1>2 DEF PropertyAdded
    <3> QED
      BY <3>1, <2>1, <1>1, <1>3
  <2>2. CASE k # P + 1
    <3>1. k \in 1..P
      BY <2>2
    <3> QED
      BY <3>1, <1>2, <1>3 DEF PropertyAdded
  <2> QED
    BY <2>1, <2>2
<1> QED
  BY <1>1, <1>2, <1>4, <1>5 DEF Linked

\* The current node has the property as the blob declares it, and no other node
\* has it.
LEMMA AddPropertyListed ==
  ASSUME NEW t, NEW u, TokenAdded(t, u), u[Len(t) + 1].kind = "PROPERTY",
         NEW ns, NEW us, NEW ps, NEW qs, NEW c \in 1..Len(ns),
         PropertyAdded(ns, us, ps, qs, c, u[Len(t) + 1].name),
         Linked(ns, ps), Linked(us, qs), NEW d, Stacked(t, ns, c, d),
         PropertiesListed(t, ns, ps)
  PROVE  PropertiesListed(u, us, qs)
<1>1. PICK N \in Nat : N = Len(ns) /\ Len(us) = N
  BY DEF PropertyAdded, SameTree
<1>2. PICK P \in Nat : P = Len(ps) /\ Len(qs) = P + 1
  BY DEF PropertyAdded
<1> DEFINE name == u[Len(t) + 1].name
<1>3. \A k \in 1..P : qs[k].next_prop = ps[k].next_prop /\ qs[k].name = ps[k].name
  BY <1>2 DEF PropertyAdded
<1>4. qs[P + 1].next_prop = ns[c].properties /\ qs[P + 1].name = name
  BY <1>2 DEF PropertyAdded
<1>5. /\ \A n \in 1..N : ns[n].properties \in 0..P
      /\ \A k \in 1..P : ps[k].next_prop \in 0..(k - 1)
      /\ \A k \in 1..(P + 1) : qs[k].next_prop \in 0..(k - 1)
  BY <1>1, <1>2 DEF Linked
<1>6. /\ Len(ps) \in Nat /\ \A k \in 1..Len(ps) : ps[k].next_prop \in 0..(k - 1)
      /\ Len(qs) \in Nat /\ \A k \in 1..Len(qs) : qs[k].next_prop \in 0..(k - 1)
      /\ Len(ps) <= Len(qs) /\ \A k \in 1..Len(ps) : qs[k].next_prop = ps[k].next_prop
  BY <1>2, <1>3, <1>5
<1> DEFINE F(k) == PropertiesOf(ps)[k]  G(k) == PropertiesOf(qs)[k]
<1>7. \A k \in 0..P : G(k) = F(k)
  <2>1. \A k \in 0..Len(ps) : PropertiesOf(qs)[k] = PropertiesOf(ps)[k]
    BY <1>6, PropertiesKept
  <2> QED
    BY <2>1, <1>2
<1>8. \A k \in 0..P : F(k) \in Seq(1..P) /\ \A m \in ToSet(F(k)) : m \in 1..P
  <2>1. \A k \in 0..Len(ps) : /\ PropertiesOf(ps)[k] \in Seq(1..Len(ps))
                              /\ \A m \in ToSet(PropertiesOf(ps)[k]) : m \in 1..k
    BY <1>6, PropertiesHold
  <2>2. \A k \in 0..P : \A m \in 1..k : m \in 1..P
    OBVIOUS
  <2> QED
    BY <2>1, <2>2, <1>2
<1>9. G(P + 1) = <<P + 1>> \o F(ns[c].properties)
  <2>1. \A k \in 1..Len(qs) : PropertiesOf(qs)[k] = <<k>> \o PropertiesOf(qs)[qs[k].next_prop]
    BY <1>6, PropertiesHold
  <2>2. P + 1 \in 1..Len(qs) /\ ns[c].properties \in 0..P
    BY <1>1, <1>2, <1>5
  <2> QED
    BY <2>1, <2>2, <1>4, <1>7
<1>10. \A n \in 1..N : /\ Len(F(ns[n].properties)) = Cardinality(DeclaredOf(t, n))
                       /\ NamesListed(ns, ps, n) = NamesDeclared(t, n)
                       /\ NamesListed(ns, ps, n) = {ps[k].name : k \in ToSet(F(ns[n].properties))}
                       /\ NamesListed(us, qs, n) = {qs[k].name : k \in ToSet(G(us[n].properties))}
  BY <1>1, NamesOfList DEF PropertiesListed
<1>11. \A n \in 1..N : us[n].properties = IF n = c THEN P + 1 ELSE ns[n].properties
  BY <1>1, <1>2 DEF PropertyAdded
<1>12. /\ Len(t) \in Nat /\ Len(u) = Len(t) + 1 /\ \A j \in 1..Len(t) : u[j] = t[j]
       /\ OpenOf(t, Len(t), DepthOf(t, Len(t))) = c
  BY DEF TokenAdded, Stacked
<1> DEFINE own(n) == u[Len(t) + 1].kind = "PROPERTY" /\ OpenOf(t, Len(t), DepthOf(t, Len(t))) = n
<1>13. ASSUME NEW n
       PROVE  /\ own(n) <=> n = c
              /\ DeclaredOf(u, n) = DeclaredOf(t, n) \union (IF own(n) THEN {Len(t) + 1} ELSE {})
              /\ IsFiniteSet(DeclaredOf(t, n))
              /\ Cardinality(DeclaredOf(u, n)) =
                   Cardinality(DeclaredOf(t, n)) + (IF own(n) THEN 1 ELSE 0)
  <2>1. own(n) <=> n = c
    BY <1>12
  <2>2. DeclaredOf(u, n) = DeclaredOf(t, n) \union (IF own(n) THEN {Len(t) + 1} ELSE {})
    BY <1>12, TokenDeclares
  <2>3. IsFiniteSet(DeclaredOf(t, n))
    BY <1>12, TokenDeclares
  <2>4. Cardinality(DeclaredOf(u, n)) =
                   Cardinality(DeclaredOf(t, n)) + (IF own(n) THEN 1 ELSE 0)
    BY <1>12, TokenDeclares
  <2> QED
    BY <2>1, <2>2, <2>3, <2>4
<1>14. \A n : \A k \in DeclaredOf(t, n) : u[k] = t[k]
  BY <1>12 DEF DeclaredOf
<1>15. \A n : Cardinality(DeclaredOf(t, n)) \in Nat
  BY <1>13, FS_CardinalityType
<1> HIDE DEF F, G, name
<1>16. ASSUME NEW n \in 1..N, n # c
       PROVE  /\ Len(G(us[n].properties)) = Cardinality(DeclaredOf(u, n))
              /\ NamesListed(us, qs, n) = NamesDeclared(u, n)
  <2>1. us[n].properties = ns[n].properties /\ ns[n].properties \in 0..P
    BY <1>16, <1>11, <1>5
  <2>2. G(us[n].properties) = F(ns[n].properties)
    BY <2>1, <1>7
  <2>3. DeclaredOf(u, n) = DeclaredOf(t, n)
    BY <1>16, <1>13
  <2>4. NamesDeclared(u, n) = NamesDeclared(t, n)
    BY <2>3, <1>14 DEF NamesDeclared
  <2>5. \A k \in ToSet(F(ns[n].properties)) : qs[k].name = ps[k].name
    BY <2>1, <1>3, <1>8
  <2>6. NamesListed(us, qs, n) = NamesListed(ns, ps, n)
    <3>1. /\ NamesListed(us, qs, n) = {qs[k].name : k \in ToSet(F(ns[n].properties))}
          /\ NamesListed(ns, ps, n) = {ps[k].name : k \in ToSet(F(ns[n].properties))}
      BY <2>2, <1>10
    <3> QED
      BY <3>1, <2>5
  <2> QED
    BY <2>2, <2>3, <2>4, <2>6, <1>10
<1>17. /\ Len(G(us[c].properties)) = Cardinality(DeclaredOf(u, c))
       /\ NamesListed(us, qs, c) = NamesDeclared(u, c)
  <2> DEFINE s == F(ns[c].properties)
  <2>1. c \in 1..N /\ ns[c].properties \in 0..P /\ us[c].properties = P + 1
    BY <1>1, <1>5, <1>11
  <2>2. s \in Seq(1..P) /\ \A m \in ToSet(s) : m \in 1..P
    BY <2>1, <1>8
  <2>3. G(us[c].properties) = <<P + 1>> \o s
    BY <2>1, <1>9
  <2>4. Cardinality(DeclaredOf(u, c)) = Cardinality(DeclaredOf(t, c)) + 1
    BY <1>13
  <2>5. Len(s) = Cardinality(DeclaredOf(t, c))
    BY <2>1, <1>10
  <2>6. NamesListed(us, qs, c) = {qs[k].name : k \in ToSet(<<P + 1>> \o s)}
        /\ NamesDeclared(t, c) = {ps[k].name : k \in ToSet(s)}
    BY <2>1, <2>3, <1>10
  <2>7. DeclaredOf(u, c) = DeclaredOf(t, c) \union {Len(t) + 1}
    BY <1>13
  <2>8. NamesDeclared(u, c) = NamesDeclared(t, c) \union {name}
    BY <2>7, <1>14 DEF NamesDeclared, name
  <2> HIDE DEF s
  <2>9. Len(<<P + 1>> \o s) = Len(s) + 1
    BY <2>2
  <2>10. ToSet(<<P + 1>> \o s) = {P + 1} \union ToSet(s)
    <3>1. DOMAIN (<<P + 1>> \o s) = 1..(Len(s) + 1) /\ Len(s) \in Nat /\ DOMAIN s = 1..Len(s)
      BY <2>2
    <3>2. /\ (<<P + 1>> \o s)[1] = P + 1
          /\ \A i \in 1..Len(s) : (<<P + 1>> \o s)[i + 1] = s[i]
      BY <2>2
    <3>3. \A j \in 1..(Len(s) + 1) : j = 1 \/ (j - 1 \in 1..Len(s) /\ (j - 1) + 1 = j)
      BY <3>1
    <3>4. 1 \in 1..(Len(s) + 1) /\ \A i \in 1..Len(s) : i + 1 \in 1..(Len(s) + 1)
      BY <3>1
    <3> DEFINE r == <<P + 1>> \o s
    <3>5. \A x : x \in ToSet(r) <=> \E j \in 1..(Len(s) + 1) : x = r[j]
      BY <3>1 DEF ToSet
    <3>6. \A x : x \in ToSet(s) <=> \E i \in 1..Len(s) : x = s[i]
      BY <3>1 DEF ToSet
    <3>7. r[1] = P + 1 /\ \A i \in 1..Len(s) : r[i + 1] = s[i]
      BY <3>2
    <3> HIDE DEF r
    <3>8. ASSUME NEW x PROVE x \in ToSet(r) <=> x = P + 1 \/ x \in ToSet(s)
      <4>1. ASSUME x \in ToSet(r) PROVE x = P + 1 \/ x \in ToSet(s)
        <5>1. PICK j \in 1..(Len(s) + 1) : x = r[j]
          BY <4>1, <3>5
        <5>2. CASE j = 1
          BY <5>1, <5>2, <3>7
        <5>3. CASE j # 1
          <6>1. j - 1 \in 1..Len(s) /\ r[(j - 1) + 1] = r[j]
            BY <5>3, <3>3
          <6> QED
            BY <6>1, <5>1, <3>6, <3>7
        <5> QED
          BY <5>2, <5>3
      <4>2. ASSUME x = P + 1 \/ x \in ToSet(s) PROVE x \in ToSet(r)
        BY <4>2, <3>4, <3>5, <3>6, <3>7
      <4> QED
        BY <4>1, <4>2
    <3> QED
      BY <3>8 DEF r
  <2>11. \A k \in ToSet(s) : qs[k].name = ps[k].name
    BY <2>2, <1>3
  <2>12. NamesListed(us, qs, c) = {ps[k].name : k \in ToSet(s)} \union {name}
    BY <2>6, <2>10, <2>11, <1>4
  <2> QED
    BY <2>3, <2>4, <2>5, <2>6, <2>8, <2>9, <2>12
<1>18. \A n \in 1..N : /\ Len(G(us[n].properties)) = Cardinality(DeclaredOf(u, n))
                       /\ NamesListed(us, qs, n) = NamesDeclared(u, n)
  BY <1>16, <1>17
<1> QED
  BY <1>1, <1>18 DEF PropertiesListed, G

-----------------------------------------------------------------------------
(***************************************************************************)
(* Nodes and properties as sequences of records.                           *)
(***************************************************************************)

\* A sequence that grows by an element.
LEMMA Appended ==
  ASSUME NEW s, IsSequence(s), NEW x
  PROVE  /\ IsSequence(Append(s, x)) /\ Len(s) \in Nat /\ Len(Append(s, x)) = Len(s) + 1
         /\ \A i \in 1..Len(s) : Append(s, x)[i] = s[i]
         /\ Append(s, x)[Len(s) + 1] = x
<1>1. PICK S : s \in Seq(S)
  BY DEF IsSequence
<1>2. s \in Seq(S \union {x}) /\ x \in S \union {x}
  BY <1>1, SeqMonotonic
<1> QED
  BY <1>2, AppendProperties, LenProperties DEF IsSequence

\* A sequence of which one element changes.
LEMMA Replaced ==
  ASSUME NEW s, IsSequence(s), NEW k \in 1..Len(s), NEW x
  PROVE  /\ IsSequence([s EXCEPT ![k] = x]) /\ Len(s) \in Nat /\ Len([s EXCEPT ![k] = x]) = Len(s)
         /\ \A i \in 1..Len(s) : [s EXCEPT ![k] = x][i] = IF i = k THEN x ELSE s[i]
<1>1. PICK S : s \in Seq(S)
  BY DEF IsSequence
<1>2. s \in Seq(S \union {x}) /\ x \in S \union {x}
  BY <1>1, SeqMonotonic
<1>3. /\ [s EXCEPT ![k] = x] \in Seq(S \union {x}) /\ Len([s EXCEPT ![k] = x]) = Len(s)
      /\ \A i \in 1..Len(s) : [s EXCEPT ![k] = x][i] = IF i = k THEN x ELSE s[i]
  BY <1>2, ExceptSeq
<1> QED
  BY <1>1, <1>3, LenProperties DEF IsSequence

\* A node like another one but for fields that are no pointers.
AsNode(r, q) ==
  /\ IsNode(q) /\ q.parent = r.parent /\ q.sibling = r.sibling
  /\ q.children = r.children /\ q.properties = r.properties

\* A node is pushed in front of its siblings.
LEMMA NodePushed ==
  ASSUME NEW ns, NEW ps, Recorded(ns, ps), NEW c \in 0..Len(ns), NEW name
  PROVE  LET old == IF c = NULL THEN ns ELSE [ns EXCEPT ![c].children = Len(ns) + 1]
             us  == Append(old, [name |-> name, parent |-> c,
                                 sibling |-> IF c = NULL THEN NULL ELSE ns[c].children,
                                 children |-> NULL, properties |-> NULL, compatible |-> << >>,
                                 address_cells |-> 0, size_cells |-> 0])
         IN  NodeAdded(ns, us, c) /\ Recorded(us, ps)
<1> DEFINE old == IF c = NULL THEN ns ELSE [ns EXCEPT ![c].children = Len(ns) + 1]
           new == [name |-> name, parent |-> c,
                   sibling |-> IF c = NULL THEN NULL ELSE ns[c].children,
                   children |-> NULL, properties |-> NULL, compatible |-> << >>,
                   address_cells |-> 0, size_cells |-> 0]
           us  == Append(old, new)
<1>1. IsSequence(ns) /\ IsSequence(ps) /\ \A n \in 1..Len(ns) : IsNode(ns[n])
  BY DEF Recorded
<1>2. PICK N \in Nat : N = Len(ns)
  BY <1>1, Appended
<1>3. IsNode(new)
  BY DEF IsNode
<1>4. /\ new.parent = c /\ new.sibling = IF c = NULL THEN NULL ELSE ns[c].children
      /\ new.children = NULL /\ new.properties = NULL
  OBVIOUS
<1> HIDE DEF new
<1>5. /\ IsSequence(old) /\ Len(old) = N
      /\ \A n \in 1..N : /\ IsNode(old[n]) /\ old[n].parent = ns[n].parent
                         /\ old[n].sibling = ns[n].sibling /\ old[n].properties = ns[n].properties
                         /\ old[n].children = IF n = c THEN N + 1 ELSE ns[n].children
  <2>1. CASE c = NULL
    <3>1. \A n \in 1..N : n # c
      BY <2>1 DEF NULL
    <3> QED
      BY <2>1, <3>1, <1>1, <1>2
  <2>2. CASE c # NULL
    <3> DEFINE x == [ns[c] EXCEPT !.children = Len(ns) + 1]
    <3>1. c \in 1..Len(ns)
      BY <2>2, <1>2 DEF NULL
    <3>2. old = [ns EXCEPT ![c] = x]
      BY <2>2
    <3>3. /\ IsNode(x) /\ x.parent = ns[c].parent /\ x.sibling = ns[c].sibling
          /\ x.properties = ns[c].properties /\ x.children = N + 1
      BY <3>1, <1>1, <1>2 DEF IsNode
    <3> HIDE DEF x
    <3>4. /\ IsSequence([ns EXCEPT ![c] = x]) /\ Len([ns EXCEPT ![c] = x]) = Len(ns)
          /\ \A i \in 1..Len(ns) : [ns EXCEPT ![c] = x][i] = IF i = c THEN x ELSE ns[i]
      BY <1>1, <3>1, Replaced, SMTT(20)
    <3> HIDE DEF old
    <3> QED
      BY <3>2, <3>3, <3>4, <1>1, <1>2
  <2> QED
    BY <2>1, <2>2
<1> HIDE DEF old
<1>6. /\ IsSequence(us) /\ Len(us) = N + 1 /\ us[N + 1] = new
      /\ \A n \in 1..N : us[n] = old[n]
  BY <1>5, Appended
<1> HIDE DEF us
<1>7. NodeAdded(ns, us, c)
  BY <1>2, <1>4, <1>5, <1>6 DEF NodeAdded
<1>8. \A n \in 1..(N + 1) : n \in 1..N \/ n = N + 1
  OBVIOUS
<1>9. \A n \in 1..Len(us) : IsNode(us[n])
  BY <1>3, <1>5, <1>6, <1>8
<1>10. Recorded(us, ps)
  BY <1>1, <1>6, <1>9 DEF Recorded
<1> QED
  BY <1>7, <1>10 DEF us, old, new

\* A property is pushed in front of its node's properties.
LEMMA PropertyPushed ==
  ASSUME NEW ns, NEW ps, Recorded(ns, ps), NEW c \in 1..Len(ns), NEW name, NEW value,
         name \in {"#address-cells", "#size-cells"} => value \in Nat
  PROVE  LET qs == Append(ps, [name |-> name, type |-> "RAW", value |-> value,
                               next_prop |-> ns[c].properties])
             us == [ns EXCEPT ![c].properties = Len(ps) + 1]
         IN  PropertyAdded(ns, us, ps, qs, c, name) /\ Recorded(us, qs)
<1> DEFINE new == [name |-> name, type |-> "RAW", value |-> value,
                   next_prop |-> ns[c].properties]
           x  == [ns[c] EXCEPT !.properties = Len(ps) + 1]
           qs == Append(ps, new)
           us == [ns EXCEPT ![c] = x]
<1>1. /\ IsSequence(ns) /\ IsSequence(ps) /\ \A n \in 1..Len(ns) : IsNode(ns[n])
      /\ \A k \in 1..Len(ps) : IsProp(ps[k])
  BY DEF Recorded
<1>2. PICK N \in Nat : N = Len(ns)
  BY <1>1, Appended
<1>3. PICK P \in Nat : P = Len(ps)
  BY <1>1, Appended
<1>4. IsProp(new) /\ new.name = name /\ new.next_prop = ns[c].properties
  BY DEF IsProp
<1>5. /\ IsNode(x) /\ x.parent = ns[c].parent /\ x.sibling = ns[c].sibling
      /\ x.children = ns[c].children /\ x.properties = P + 1
  BY <1>1, <1>3 DEF IsNode
<1> HIDE DEF new, x
<1>6. /\ IsSequence(us) /\ Len(us) = N
      /\ \A i \in 1..N : us[i] = IF i = c THEN x ELSE ns[i]
  <2>1. /\ IsSequence([ns EXCEPT ![c] = x]) /\ Len([ns EXCEPT ![c] = x]) = Len(ns)
        /\ \A i \in 1..Len(ns) : [ns EXCEPT ![c] = x][i] = IF i = c THEN x ELSE ns[i]
    <3>1. IsSequence(ns) /\ c \in 1..Len(ns)
      BY <1>1
    <3>2. IsSequence([ns EXCEPT ![c] = x]) /\ Len([ns EXCEPT ![c] = x]) = Len(ns)
      BY <3>1, Replaced
    <3>3. \A i \in 1..Len(ns) : [ns EXCEPT ![c] = x][i] = IF i = c THEN x ELSE ns[i]
      BY <3>1, Replaced
    <3> QED
      BY <3>2, <3>3
  <2> QED
    BY <2>1, <1>2
<1>7. /\ IsSequence(qs) /\ Len(qs) = P + 1 /\ qs[P + 1] = new
      /\ \A k \in 1..P : qs[k] = ps[k]
  BY <1>1, <1>3, Appended
<1>8. us = [ns EXCEPT ![c].properties = Len(ps) + 1]
  BY DEF us, x
<1> HIDE DEF us, qs
<1>9. SameTree(ns, us)
  BY <1>2, <1>5, <1>6 DEF SameTree
<1>10. \A n \in 1..N : us[n].properties = IF n = c THEN P + 1 ELSE ns[n].properties
  BY <1>5, <1>6
<1>11. PropertyAdded(ns, us, ps, qs, c, name)
  BY <1>2, <1>3, <1>4, <1>7, <1>9, <1>10 DEF PropertyAdded
<1>12. \A n \in 1..Len(us) : IsNode(us[n])
  BY <1>1, <1>2, <1>5, <1>6
<1>13. \A k \in 1..Len(qs) : IsProp(qs[k])
  <2>1. \A k \in 1..(P + 1) : k \in 1..P \/ k = P + 1
    OBVIOUS
  <2> QED
    BY <2>1, <1>1, <1>3, <1>4, <1>7
<1>14. Recorded(us, qs)
  BY <1>6, <1>7, <1>12, <1>13 DEF Recorded
<1> QED
  BY <1>8, <1>11, <1>14 DEF qs, new

\* A node changes in fields that are no pointers.
LEMMA NodeChanged ==
  ASSUME NEW ns, NEW ps, Recorded(ns, ps), NEW n \in 1..Len(ns), NEW x, AsNode(ns[n], x)
  PROVE  LET us == [ns EXCEPT ![n] = x]
         IN  /\ Recorded(us, ps) /\ SameTree(ns, us)
             /\ \A m \in 1..Len(ns) : us[m].properties = ns[m].properties
<1> DEFINE us == [ns EXCEPT ![n] = x]
<1>1. IsSequence(ns) /\ IsSequence(ps) /\ \A m \in 1..Len(ns) : IsNode(ns[m])
  BY DEF Recorded
<1>2. /\ IsSequence(us) /\ Len(ns) \in Nat /\ Len(us) = Len(ns)
      /\ \A i \in 1..Len(ns) : us[i] = IF i = n THEN x ELSE ns[i]
  <2>1. /\ IsSequence([ns EXCEPT ![n] = x]) /\ Len([ns EXCEPT ![n] = x]) = Len(ns)
        /\ \A i \in 1..Len(ns) : [ns EXCEPT ![n] = x][i] = IF i = n THEN x ELSE ns[i]
    <3>1. IsSequence(ns) /\ n \in 1..Len(ns)
      BY <1>1
    <3> QED
      BY <3>1, Replaced
  <2>2. Len(ns) \in Nat
    BY <1>1, Replaced
  <2> QED
    BY <2>1, <2>2
<1> HIDE DEF us
<1>3. \A m \in 1..Len(ns) : /\ IsNode(us[m]) /\ us[m].parent = ns[m].parent
                            /\ us[m].sibling = ns[m].sibling /\ us[m].children = ns[m].children
                            /\ us[m].properties = ns[m].properties
  BY <1>1, <1>2 DEF AsNode
<1>4. Recorded(us, ps) /\ SameTree(ns, us)
  BY <1>1, <1>2, <1>3 DEF Recorded, SameTree
<1> QED
  BY <1>3, <1>4 DEF us

\* A property changes, but not in its name or link.
LEMMA PropChanged ==
  ASSUME NEW ns, NEW ps, Recorded(ns, ps), NEW k \in 1..Len(ps), NEW x, IsProp(x),
         x.name = ps[k].name, x.next_prop = ps[k].next_prop
  PROVE  LET qs == [ps EXCEPT ![k] = x]
         IN  Recorded(ns, qs) /\ SameProps(ps, qs)
<1> DEFINE qs == [ps EXCEPT ![k] = x]
<1>1. /\ IsSequence(ns) /\ IsSequence(ps) /\ \A m \in 1..Len(ns) : IsNode(ns[m])
      /\ \A j \in 1..Len(ps) : IsProp(ps[j])
  BY DEF Recorded
<1>2. /\ IsSequence(qs) /\ Len(ps) \in Nat /\ Len(qs) = Len(ps)
      /\ \A i \in 1..Len(ps) : qs[i] = IF i = k THEN x ELSE ps[i]
  BY <1>1, Replaced
<1> HIDE DEF qs
<1>3. \A j \in 1..Len(ps) : /\ IsProp(qs[j]) /\ qs[j].name = ps[j].name
                            /\ qs[j].next_prop = ps[j].next_prop
  BY <1>1, <1>2
<1>4. Recorded(ns, qs) /\ SameProps(ps, qs)
  BY <1>1, <1>2, <1>3 DEF Recorded, SameProps
<1> QED
  BY <1>4 DEF qs

-----------------------------------------------------------------------------
(***************************************************************************)
(* What each token does to the tree.                                       *)
(***************************************************************************)

\* Lengths are numbers.
LEMMA WiredLengths ==
  ASSUME NEW t, NEW ns, NEW ps, NEW r, Wired(t, ns, ps, r)
  PROVE  Len(t) \in Nat /\ Len(ns) \in Nat /\ Len(ps) \in Nat
BY Appended DEF Wired, Recorded

\* A token is added to those read.
LEMMA TokenRead ==
  ASSUME NEW t, IsSequence(t), NEW e
  PROVE  /\ TokenAdded(t, Append(t, e)) /\ IsSequence(Append(t, e))
         /\ Append(t, e)[Len(t) + 1] = e
BY Appended DEF TokenAdded

\* NODE_START: the new node is wired into the tree, and is the current one.
LEMMA StartWired ==
  ASSUME NEW t, NEW ns, NEW ps, NEW r, Wired(t, ns, ps, r),
         NEW c, NEW d, Stacked(t, ns, c, d),
         NEW e, e.kind = "NODE_START", NEW us, NodeAdded(ns, us, c), Recorded(us, ps)
  PROVE  /\ Wired(Append(t, e), us, ps, IF c = NULL /\ e.name = "" THEN Len(ns) + 1 ELSE r)
         /\ Stacked(Append(t, e), us, Len(ns) + 1, d + 1)
<1> DEFINE u == Append(t, e)
<1>1. Len(t) \in Nat /\ Len(ns) \in Nat /\ Len(ps) \in Nat
  BY WiredLengths
<1>2. /\ IsSequence(t) /\ Linked(ns, ps) /\ Parents(t, ns) /\ ChildrenListed(ns)
      /\ PropertiesListed(t, ns, ps) /\ Rooted(t, ns, r)
  BY DEF Wired
<1>3. TokenAdded(t, u) /\ IsSequence(u) /\ u[Len(t) + 1] = e
  BY <1>2, TokenRead
<1> HIDE DEF u
<1>4. u[Len(t) + 1].kind = "NODE_START"
  BY <1>3
<1>5. c \in 0..Len(ns)
  BY <1>1, CurrentIsNode
<1>6. Linked(us, ps)
  BY <1>1, <1>2, <1>5, AddNodeLinked
<1>7. Parents(u, us)
  BY <1>2, <1>3, <1>4, AddNodeParents
<1>8. ChildrenListed(us)
  BY <1>2, <1>5, <1>6, AddNodeChildren
<1>9. PropertiesListed(u, us, ps)
  BY <1>1, <1>2, <1>3, <1>4, AddNodeProperties
<1>10. Rooted(u, us, IF c = NULL /\ u[Len(t) + 1].name = "" THEN Len(ns) + 1 ELSE r)
  BY <1>2, <1>3, <1>4, AddNodeRooted
<1>11. Stacked(u, us, Len(ns) + 1, d + 1)
  BY <1>2, <1>3, <1>4, AddNodeStacked
<1>12. Rooted(u, us, IF c = NULL /\ e.name = "" THEN Len(ns) + 1 ELSE r)
  BY <1>3, <1>10
<1>13. Wired(u, us, ps, IF c = NULL /\ e.name = "" THEN Len(ns) + 1 ELSE r)
  BY <1>3, <1>6, <1>7, <1>8, <1>9, <1>12 DEF Wired
<1> QED
  BY <1>11, <1>13 DEF u

\* NODE_END: the tree stays, and the parent is the current node.
LEMMA EndWired ==
  ASSUME NEW t, NEW ns, NEW ps, NEW r, Wired(t, ns, ps, r), NEW e, e.kind = "NODE_END"
  PROVE  /\ Wired(Append(t, e), ns, ps, r)
         /\ \A c, d : Stacked(t, ns, c, d) /\ c # NULL =>
                        Stacked(Append(t, e), ns, ns[c].parent, d - 1)
<1> DEFINE u == Append(t, e)
<1>1. Len(t) \in Nat /\ Len(ns) \in Nat /\ Len(ps) \in Nat
  BY WiredLengths
<1>2. /\ IsSequence(t) /\ Recorded(ns, ps) /\ Linked(ns, ps) /\ Parents(t, ns)
      /\ ChildrenListed(ns) /\ PropertiesListed(t, ns, ps) /\ Rooted(t, ns, r)
  BY DEF Wired
<1>3. TokenAdded(t, u) /\ IsSequence(u) /\ u[Len(t) + 1] = e
  BY <1>2, TokenRead
<1> HIDE DEF u
<1>4. u[Len(t) + 1].kind = "NODE_END" /\ u[Len(t) + 1].kind # "NODE_START"
  BY <1>3
<1>5. Parents(u, ns) /\ Rooted(u, ns, r)
  BY <1>1, <1>2, <1>3, <1>4, OtherTokenParents
<1>6. PropertiesListed(u, ns, ps)
  BY <1>2, <1>3, <1>4, EndNodeProperties
<1>7. Wired(u, ns, ps, r)
  BY <1>2, <1>3, <1>5, <1>6 DEF Wired
<1>8. ASSUME NEW c, NEW d, Stacked(t, ns, c, d), c # NULL PROVE Stacked(u, ns, ns[c].parent, d - 1)
  BY <1>1, <1>3, <1>4, <1>8, EndNodeStacked
<1> QED
  BY <1>7, <1>8 DEF u

\* PROPERTY outside all nodes: the tree stays.
LEMMA LostWired ==
  ASSUME NEW t, NEW ns, NEW ps, NEW r, Wired(t, ns, ps, r), NEW d, Stacked(t, ns, NULL, d),
         NEW e, e.kind = "PROPERTY"
  PROVE  Wired(Append(t, e), ns, ps, r)
<1> DEFINE u == Append(t, e)
<1>1. Len(t) \in Nat /\ Len(ns) \in Nat /\ Len(ps) \in Nat
  BY WiredLengths
<1>2. /\ IsSequence(t) /\ Recorded(ns, ps) /\ Linked(ns, ps) /\ Parents(t, ns)
      /\ ChildrenListed(ns) /\ PropertiesListed(t, ns, ps) /\ Rooted(t, ns, r)
  BY DEF Wired
<1>3. TokenAdded(t, u) /\ IsSequence(u) /\ u[Len(t) + 1] = e
  BY <1>2, TokenRead
<1> HIDE DEF u
<1>4. u[Len(t) + 1].kind = "PROPERTY" /\ u[Len(t) + 1].kind # "NODE_START"
  BY <1>3
<1>5. Parents(u, ns) /\ Rooted(u, ns, r)
  BY <1>1, <1>2, <1>3, <1>4, OtherTokenParents
<1>6. PropertiesListed(u, ns, ps)
  BY <1>1, <1>2, <1>3, <1>4, LostProperty
<1>7. Wired(u, ns, ps, r)
  BY <1>2, <1>3, <1>5, <1>6 DEF Wired
<1> QED
  BY <1>7 DEF u

\* PROPERTY: the current node has it.
LEMMA PropertyWired ==
  ASSUME NEW t, NEW ns, NEW ps, NEW r, Wired(t, ns, ps, r),
         NEW c, c # NULL, NEW d, Stacked(t, ns, c, d), NEW e, e.kind = "PROPERTY",
         NEW us, NEW qs, PropertyAdded(ns, us, ps, qs, c, e.name), Recorded(us, qs)
  PROVE  Wired(Append(t, e), us, qs, r) /\ Stacked(Append(t, e), us, c, d)
<1> DEFINE u == Append(t, e)
<1>1. Len(t) \in Nat /\ Len(ns) \in Nat /\ Len(ps) \in Nat
  BY WiredLengths
<1>2. /\ IsSequence(t) /\ Linked(ns, ps) /\ Parents(t, ns)
      /\ ChildrenListed(ns) /\ PropertiesListed(t, ns, ps) /\ Rooted(t, ns, r)
  BY DEF Wired
<1>3. TokenAdded(t, u) /\ IsSequence(u) /\ u[Len(t) + 1] = e
  BY <1>2, TokenRead
<1> HIDE DEF u
<1>4. u[Len(t) + 1].kind = "PROPERTY" /\ u[Len(t) + 1].kind # "NODE_START"
  BY <1>3
<1>5. c \in 1..Len(ns)
  <2>1. c \in 0..Len(ns)
    BY <1>1, CurrentIsNode
  <2> QED
    BY <2>1, <1>1 DEF NULL
<1>6. SameTree(ns, us)
  BY DEF PropertyAdded
<1>7. Parents(u, ns) /\ Rooted(u, ns, r)
  BY <1>1, <1>2, <1>3, <1>4, OtherTokenParents
<1>8. Stacked(u, ns, c, d)
  BY <1>3, <1>4, PropertyStacked
<1>9. Parents(u, us) /\ Rooted(u, us, r) /\ Stacked(u, us, c, d)
  BY <1>6, <1>7, <1>8, SameTreeMirrors
<1>10. ChildrenListed(us)
  BY <1>2, <1>6, SameTreeChildren
<1>11. Linked(us, qs)
  BY <1>2, <1>5, AddPropertyLinked
<1>12. PropertiesListed(u, us, qs)
  <2>1. PropertyAdded(ns, us, ps, qs, c, u[Len(t) + 1].name)
    BY <1>3
  <2> QED
    BY <2>1, <1>2, <1>3, <1>4, <1>5, <1>11, AddPropertyListed
<1>13. Wired(u, us, qs, r)
  BY <1>2, <1>3, <1>9, <1>10, <1>11, <1>12 DEF Wired
<1> QED
  BY <1>9, <1>13 DEF u

\* Nodes and properties change in fields that are no pointers.
LEMMA SameWired ==
  ASSUME NEW t, NEW ns, NEW ps, NEW r, Wired(t, ns, ps, r), NEW us, NEW qs, Recorded(us, qs),
         SameTree(ns, us), \A n \in 1..Len(ns) : us[n].properties = ns[n].properties,
         SameProps(ps, qs)
  PROVE  Wired(t, us, qs, r)
<1>1. /\ IsSequence(t) /\ Linked(ns, ps) /\ Parents(t, ns)
      /\ ChildrenListed(ns) /\ PropertiesListed(t, ns, ps) /\ Rooted(t, ns, r)
  BY DEF Wired
<1>2. Parents(t, us) /\ Rooted(t, us, r)
  BY <1>1, SameTreeMirrors
<1>3. ChildrenListed(us)
  BY <1>1, SameTreeChildren
<1>4. Linked(us, qs)
  BY <1>1, SameLinked
<1>5. PropertiesListed(t, us, qs)
  BY <1>1, SameListed
<1> QED
  BY <1>1, <1>2, <1>3, <1>4, <1>5 DEF Wired

\* The root is one of the nodes.
LEMMA RootIsNode ==
  ASSUME NEW t, NEW ns, Len(ns) \in Nat, NEW r, Rooted(t, ns, r)
  PROVE  r \in 0..Len(ns)
<1> DEFINE S == TopsOf(t, ns)
<1>1. S \in SUBSET (1..Len(ns)) /\ r = IF S = {} THEN NULL ELSE Max(S)
  BY DEF TopsOf, Rooted
<1> HIDE DEF S
<1>2. CASE S = {}
  BY <1>1, <1>2 DEF NULL
<1>3. CASE S # {}
  <2>1. \A y : y \in 1..Len(ns) => y \in 0..Len(ns)
    OBVIOUS
  <2>2. S \in SUBSET (0..Len(ns))
    BY <2>1, <1>1
  <2>3. Max(S) \in S
    BY <2>2, <1>3, Greatest
  <2> QED
    BY <2>2, <2>3, <1>1, <1>3
<1> QED
  BY <1>2, <1>3

-----------------------------------------------------------------------------
(***************************************************************************)
(* The inductive invariant of the parser.                                  *)
(***************************************************************************)
States == {"reset", "structs", "second", "returned", "halted", "fault"}

Calls(N) == [node : 1..N, address_cells : 0..3, size_cells : 0..2]

Visits(N, P) ==
  [node : 0..N, prop : 0..P, next_address_cells : 0..3, next_size_cells : 0..2]

\* The calls of the second pass yet to be made, and the one in progress.
Pending(calls_left, v, N, P) ==
  /\ calls_left \in Seq(Calls(N))
  /\ v \in Visits(N, P) /\ (v = NoVisit \/ v.node # NULL)

TreeInv ==
  /\ state \in States
  /\ Wired(tokens, nodes, props, root_node)
  /\ current \in 0..Len(nodes) /\ depth \in Nat /\ err \in Nat
  /\ state \in {"reset", "structs"} =>
       Stacked(tokens, nodes, current, depth) /\ todo = << >> /\ visit = NoVisit
  /\ Pending(todo, visit, Len(nodes), Len(props))

\* At first nothing is pending, and then as long as there is only NoVisit.
LEMMA NothingPending ==
  ASSUME NEW N \in Nat, NEW P \in Nat
  PROVE  Pending(<< >>, NoVisit, N, P)
<1>1. NoVisit \in Visits(N, P)
  BY DEF NoVisit, Visits, NULL
<1>2. << >> \in Seq(Calls(N))
  BY EmptySeq
<1> QED
  BY <1>1, <1>2 DEF Pending

\* The empty tree mirrors the empty blob.
LEMMA InitTree == Init => TreeInv
<1> SUFFICES ASSUME Init PROVE TreeInv
  OBVIOUS
<1>1. /\ state = "reset" /\ tokens = << >> /\ current = 0 /\ depth = 0 /\ root_node = 0
      /\ nodes = << >> /\ props = << >> /\ todo = << >> /\ visit = NoVisit /\ err = 0
  BY DEF Init, NULL, EC_SUCCESS
<1>2. Len(<< >>) = 0 /\ << >> \in Seq({}) /\ 1..0 = {}
  BY EmptySeq
<1>3. IsSequence(<< >>)
  BY <1>2 DEF IsSequence
<1>4. StartsOf(<< >>, 0) = {} /\ EndsOf(<< >>, 0) = {}
  BY <1>2 DEF StartsOf, EndsOf
<1>5. Cardinality({}) = 0
  BY FS_EmptySet
<1>6. DepthOf(<< >>, 0) = 0
  <2>1. Cardinality(StartsOf(<< >>, 0)) = 0 /\ Cardinality(EndsOf(<< >>, 0)) = 0
    BY <1>4, <1>5
  <2> QED
    BY <2>1 DEF DepthOf
<1>7. Recorded(<< >>, << >>) /\ Linked(<< >>, << >>)
  BY <1>2, <1>3 DEF Recorded, Linked
<1>8. Parents(<< >>, << >>)
  BY <1>2, <1>4, <1>5 DEF Parents
<1>9. ChildrenListed(<< >>) /\ PropertiesListed(<< >>, << >>, << >>)
  BY <1>2 DEF ChildrenListed, PropertiesListed
<1>10. TopsOf(<< >>, << >>) = {}
  BY <1>2 DEF TopsOf
<1>11. Rooted(<< >>, << >>, 0)
  BY <1>10 DEF Rooted, NULL
<1>12. Wired(<< >>, << >>, << >>, 0)
  BY <1>3, <1>7, <1>8, <1>9, <1>11 DEF Wired
<1>13. OpenOf(<< >>, 0, 0) = 0
  BY DEF OpenOf, NULL
<1>14. Stacked(<< >>, << >>, 0, 0)
  <2>1. 0 = DepthOf(<< >>, Len(<< >>)) /\ 0 = OpenOf(<< >>, Len(<< >>), 0)
    BY <1>2, <1>6, <1>13
  <2> QED
    BY <2>1, <1>2 DEF Stacked
<1>15. Pending(<< >>, NoVisit, 0, 0)
  BY NothingPending
<1> QED
  BY <1>1, <1>2, <1>12, <1>14, <1>15 DEF TreeInv, States

\* An end of the parser, for good or ill.
LEMMA Ended ==
  ASSUME TreeInv, state' \in {"returned", "halted", "fault"}, err' \in Nat,
         Wired(tokens', nodes, props, root_node),
         UNCHANGED <<current, depth, root_node, nodes, props, todo, visit>>
  PROVE  TreeInv'
<1>1. state' \in States /\ ~(state' \in {"reset", "structs"})
  BY DEF States
<1>2. Wired(tokens', nodes', props', root_node')
  OBVIOUS
<1>3. /\ current' \in 0..Len(nodes') /\ depth' \in Nat
      /\ Pending(todo', visit', Len(nodes'), Len(props'))
  BY DEF TreeInv
<1> QED
  BY <1>1, <1>2, <1>3 DEF TreeInv

\* PANIC, ASSERT and faults.
LEMMA StopTree ==
  ASSUME TreeInv, NEW how \in {"halted", "fault"}, Stop(how), UNCHANGED tokens
  PROVE  TreeInv'
<1>1. /\ state' = how /\ err' = err
      /\ UNCHANGED <<current, depth, root_node, nodes, props, todo, visit>>
  BY DEF Stop
<1>2. Wired(tokens', nodes, props, root_node) /\ err' \in Nat
  BY <1>1 DEF TreeInv
<1>3. state' \in {"returned", "halted", "fault"}
  BY <1>1
<1> QED
  BY <1>1, <1>2, <1>3, Ended

\* A return.
LEMMA ReturnTree ==
  ASSUME TreeInv, NEW e \in Nat, Return(e), UNCHANGED tokens
  PROVE  TreeInv'
<1>1. /\ state' = "returned" /\ err' = e
      /\ UNCHANGED <<current, depth, root_node, nodes, props, todo, visit>>
  BY DEF Return
<1>2. Wired(tokens', nodes, props, root_node) /\ err' \in Nat
  BY <1>1 DEF TreeInv
<1> QED
  BY <1>1, <1>2, Ended

\* parse_header keeps the invariant.
LEMMA HeaderTree ==
  ASSUME TreeInv, NEW magic, NEW reserves, parse_header(magic, reserves)
  PROVE  TreeInv'
<1>1. CASE Return(EC_DT_BLOB_INVALID_MAGIC) /\ UNCHANGED tokens
  <2>1. EC_DT_BLOB_INVALID_MAGIC \in Nat
    BY DEF EC_DT_BLOB_INVALID_MAGIC
  <2> QED
    BY <1>1, <2>1, ReturnTree
<1>2. CASE Stop("halted") /\ UNCHANGED tokens
  BY <1>2, StopTree
<1>3. CASE /\ state = "reset" /\ state' = "structs" /\ UNCHANGED tokens
           /\ UNCHANGED <<current, depth, root_node, nodes, props, phandle_map, todo, visit, err>>
  BY <1>3 DEF TreeInv, States
<1> QED
  BY <1>1, <1>2, <1>3 DEF parse_header

\* device_tree_parse_node keeps the invariant.
LEMMA NodeTree ==
  ASSUME TreeInv, NEW name, Read(Start(name)), device_tree_parse_node(name)
  PROVE  TreeInv'
<1>1. /\ state = "structs" /\ tokens' = Append(tokens, Start(name)) /\ UNCHANGED <<state, props, todo, visit, err>>
      /\ current' = Len(nodes) + 1 /\ depth' = depth + 1
      /\ root_node' = IF depth = 0 /\ name = "" THEN Len(nodes) + 1 ELSE root_node
  BY DEF Read, device_tree_parse_node
<1>2. /\ Wired(tokens, nodes, props, root_node) /\ Stacked(tokens, nodes, current, depth)
      /\ todo = << >> /\ visit = NoVisit /\ current \in 0..Len(nodes) /\ depth \in Nat /\ err \in Nat
  BY <1>1 DEF TreeInv
<1>3. Len(nodes) \in Nat /\ Len(props) \in Nat
  BY <1>2, WiredLengths
<1>4. NodeAdded(nodes, nodes', current) /\ Recorded(nodes', props)
  <2> DEFINE nm == IF depth = 0 /\ name = "" THEN "/" ELSE name
             old == IF current = NULL THEN nodes ELSE [nodes EXCEPT ![current].children = Len(nodes) + 1]
             us  == Append(old, [name |-> nm, parent |-> current,
                                 sibling |-> IF current = NULL THEN NULL ELSE nodes[current].children,
                                 children |-> NULL, properties |-> NULL, compatible |-> << >>,
                                 address_cells |-> 0, size_cells |-> 0])
  <2>1. nodes' = us
    BY DEF device_tree_parse_node, NewNode
  <2>2. Recorded(nodes, props)
    BY <1>2 DEF Wired
  <2> HIDE DEF nm
  <2>3. NodeAdded(nodes, us, current) /\ Recorded(us, props)
    BY <2>2, <1>2, NodePushed
  <2> HIDE DEF us
  <2> QED
    BY <2>1, <2>3
<1>5. Start(name).kind = "NODE_START" /\ Start(name).name = name
  BY DEF Start
<1>6. (current = NULL) <=> (depth = 0)
  BY <1>2, <1>3, CurrentIsNode
<1>7. /\ Wired(tokens', nodes', props, IF current = NULL /\ Start(name).name = ""
                                        THEN Len(nodes) + 1 ELSE root_node)
      /\ Stacked(tokens', nodes', Len(nodes) + 1, depth + 1)
  <2>1. /\ Wired(Append(tokens, Start(name)), nodes', props,
                 IF current = NULL /\ Start(name).name = "" THEN Len(nodes) + 1 ELSE root_node)
        /\ Stacked(Append(tokens, Start(name)), nodes', Len(nodes) + 1, depth + 1)
    BY <1>2, <1>4, <1>5, StartWired
  <2> QED
    BY <2>1, <1>1
<1>8. (IF current = NULL /\ Start(name).name = "" THEN Len(nodes) + 1 ELSE root_node) = root_node'
  BY <1>1, <1>5, <1>6
<1>9. Wired(tokens', nodes', props', root_node') /\ Stacked(tokens', nodes', current', depth')
  BY <1>1, <1>7, <1>8
<1>10. Len(nodes') = Len(nodes) + 1
  BY <1>4 DEF NodeAdded
<1>11. Pending(todo', visit', Len(nodes'), Len(props'))
  <2>1. Len(nodes') \in Nat
    BY <1>3, <1>10
  <2>2. Pending(<< >>, NoVisit, Len(nodes'), Len(props))
    BY <2>1, <1>3, NothingPending
  <2> QED
    BY <2>2, <1>1, <1>2
<1>12. current' \in 0..Len(nodes') /\ depth' \in Nat
  <2>1. \A x \in Nat : x + 1 \in 0..(x + 1) /\ x + 1 \in Nat
    OBVIOUS
  <2>2. Len(nodes) + 1 \in 0..(Len(nodes) + 1) /\ depth + 1 \in Nat
    BY <2>1, <1>2, <1>3
  <2> QED
    BY <2>2, <1>1, <1>10
<1>13. todo' = << >> /\ visit' = NoVisit /\ state' \in States /\ err' \in Nat
  BY <1>1, <1>2 DEF States
<1> QED
  BY <1>9, <1>11, <1>12, <1>13 DEF TreeInv

\* node_end keeps the invariant.
LEMMA NodeEndTree ==
  ASSUME TreeInv, Read(NodeEnd), node_end
  PROVE  TreeInv'
<1>1. state = "structs" /\ tokens' = Append(tokens, NodeEnd)
  BY DEF Read
<1>2. /\ Wired(tokens, nodes, props, root_node) /\ Stacked(tokens, nodes, current, depth)
      /\ todo = << >> /\ visit = NoVisit /\ current \in 0..Len(nodes) /\ depth \in Nat /\ err \in Nat
      /\ Pending(todo, visit, Len(nodes), Len(props))
  BY <1>1 DEF TreeInv
<1>3. NodeEnd.kind = "NODE_END"
  BY DEF NodeEnd
<1>4. /\ Wired(tokens', nodes, props, root_node)
      /\ current # NULL => Stacked(tokens', nodes, nodes[current].parent, depth - 1)
  <2>1. /\ Wired(Append(tokens, NodeEnd), nodes, props, root_node)
        /\ \A c, d : Stacked(tokens, nodes, c, d) /\ c # NULL =>
                        Stacked(Append(tokens, NodeEnd), nodes, nodes[c].parent, d - 1)
    BY <1>2, <1>3, EndWired
  <2> QED
    BY <2>1, <1>1, <1>2
<1>5. CASE current = NULL /\ Stop("fault")
  <2>1. /\ state' = "fault" /\ err' = err
        /\ UNCHANGED <<current, depth, root_node, nodes, props, todo, visit>>
    BY <1>5 DEF Stop
  <2>2. state' \in {"returned", "halted", "fault"} /\ err' \in Nat
    BY <2>1, <1>2
  <2> QED
    BY <2>1, <2>2, <1>4, Ended
<1>6. CASE current # NULL /\ ~(current = NULL /\ Stop("fault"))
  <2>1. /\ current' = nodes[current].parent /\ depth' = depth - 1
        /\ UNCHANGED <<state, root_node, nodes, props, todo, visit, err>>
    BY <1>6 DEF node_end
  <2>2. Wired(tokens', nodes', props', root_node') /\ Stacked(tokens', nodes', current', depth')
    BY <2>1, <1>4, <1>6
  <2>3. Len(nodes) \in Nat
    BY <1>2, WiredLengths
  <2>4. Len(nodes') \in Nat
    BY <2>1, <2>3
  <2>5. current' \in 0..Len(nodes') /\ depth' \in Nat
    <3>1. current' \in 0..Len(nodes')
      BY <2>2, <2>4, CurrentIsNode
    <3>2. depth' \in Nat
      BY <2>2 DEF Stacked
    <3> QED
      BY <3>1, <3>2
  <2>6. /\ Pending(todo', visit', Len(nodes'), Len(props')) /\ todo' = << >> /\ visit' = NoVisit
        /\ state' \in States /\ err' \in Nat
    BY <2>1, <1>1, <1>2 DEF States
  <2> QED
    BY <2>2, <2>5, <2>6 DEF TreeInv
<1> QED
  BY <1>5, <1>6 DEF node_end

\* A property of a blob that counts cells has a number as its value.
LEMMA CellsAreNumbers ==
  ASSUME NEW p \in BlobProperties, p.name \in {"#address-cells", "#size-cells"}
  PROVE  p.value \in Nat
<1> DEFINE T == UNION {ToSet(b) : b \in Blobs}
<1>1. \A q \in Properties \union T :
        q.name \in {"#address-cells", "#size-cells", "phandle"} => q.value \in Nat
  BY DeviceTreeAssumption
<1>2. p \in Properties \/ p \in {[name |-> t.name, value |-> t.value] :
                                   t \in {u \in T : u.kind = "PROPERTY"}}
  BY DEF BlobProperties
<1> HIDE DEF T
<1>3. CASE p \in Properties
  BY <1>1, <1>3
<1>4. CASE p \in {[name |-> t.name, value |-> t.value] : t \in {u \in T : u.kind = "PROPERTY"}}
  <2>1. PICK t \in {u \in T : u.kind = "PROPERTY"} : p = [name |-> t.name, value |-> t.value]
    BY <1>4
  <2>2. t \in T /\ p.name = t.name /\ p.value = t.value
    BY <2>1
  <2> QED
    BY <2>2, <1>1
<1> QED
  BY <1>2, <1>3, <1>4

\* device_tree_first_pass_property keeps the invariant.
LEMMA PropertyTree ==
  ASSUME TreeInv, NEW p \in BlobProperties, Read(Property(p)), device_tree_first_pass_property(p)
  PROVE  TreeInv'
<1>1. state = "structs" /\ tokens' = Append(tokens, Property(p))
  BY DEF Read
<1>2. /\ Wired(tokens, nodes, props, root_node) /\ Stacked(tokens, nodes, current, depth)
      /\ todo = << >> /\ visit = NoVisit /\ current \in 0..Len(nodes) /\ depth \in Nat /\ err \in Nat
      /\ Pending(todo, visit, Len(nodes), Len(props))
  BY <1>1 DEF TreeInv
<1>3. Property(p).kind = "PROPERTY" /\ Property(p).name = p.name
  BY DEF Property
<1>4. CASE current = NULL /\ Stop("fault")
  <2>1. /\ state' = "fault" /\ err' = err
        /\ UNCHANGED <<current, depth, root_node, nodes, props, todo, visit>>
    BY <1>4 DEF Stop
  <2>2. state' \in {"returned", "halted", "fault"} /\ err' \in Nat
    BY <2>1, <1>2
  <2>3. Stacked(tokens, nodes, NULL, depth)
    BY <1>2, <1>4
  <2>4. Wired(Append(tokens, Property(p)), nodes, props, root_node)
    BY <2>3, <1>2, <1>3, LostWired
  <2>5. Wired(tokens', nodes, props, root_node)
    BY <2>4, <1>1
  <2> QED
    BY <2>1, <2>2, <2>5, Ended
<1>5. CASE current # NULL /\ ~(current = NULL /\ Stop("fault"))
  <2> DEFINE qs == Append(props, [name |-> p.name, type |-> "RAW", value |-> p.value,
                                  next_prop |-> nodes[current].properties])
             us == [nodes EXCEPT ![current].properties = Len(props) + 1]
  <2>1. /\ props' = qs /\ nodes' = us
        /\ UNCHANGED <<state, current, depth, root_node, todo, visit, err>>
    BY <1>5 DEF device_tree_first_pass_property
  <2>2. Len(nodes) \in Nat /\ Len(props) \in Nat
    BY <1>2, WiredLengths
  <2>3. current \in 1..Len(nodes)
    <3>1. \A x \in 0..Len(nodes) : x # 0 => x \in 1..Len(nodes)
      BY <2>2
    <3> QED
      BY <3>1, <1>2, <1>5 DEF NULL
  <2>4. Recorded(nodes, props) /\ (p.name \in {"#address-cells", "#size-cells"} => p.value \in Nat)
    BY <1>2, CellsAreNumbers DEF Wired
  <2>5. PropertyAdded(nodes, us, props, qs, current, p.name) /\ Recorded(us, qs)
    BY <2>3, <2>4, PropertyPushed
  <2> HIDE DEF us, qs
  <2>6. PropertyAdded(nodes, us, props, qs, current, Property(p).name)
    BY <2>5, <1>3
  <2>7. /\ Wired(Append(tokens, Property(p)), us, qs, root_node)
        /\ Stacked(Append(tokens, Property(p)), us, current, depth)
    BY <2>5, <2>6, <1>2, <1>3, <1>5, PropertyWired
  <2>8. Wired(tokens', nodes', props', root_node') /\ Stacked(tokens', nodes', current', depth')
    BY <2>1, <2>7, <1>1
  <2>9. Len(us) = Len(nodes) /\ Len(qs) = Len(props) + 1
    BY <2>5 DEF PropertyAdded, SameTree
  <2>10. Len(nodes') = Len(nodes) /\ Len(nodes') \in Nat /\ Len(props') \in Nat
    <3>1. Len(props) + 1 \in Nat
      BY <2>2
    <3> QED
      BY <3>1, <2>1, <2>2, <2>9
  <2>11. Pending(todo', visit', Len(nodes'), Len(props'))
    <3>1. Pending(<< >>, NoVisit, Len(nodes'), Len(props'))
      BY <2>10, NothingPending
    <3> QED
      BY <3>1, <2>1, <1>2
  <2>12. /\ todo' = << >> /\ visit' = NoVisit /\ state' \in States /\ err' \in Nat
         /\ current' \in 0..Len(nodes') /\ depth' \in Nat
    BY <2>1, <2>10, <1>1, <1>2 DEF States
  <2> QED
    BY <2>8, <2>11, <2>12 DEF TreeInv
<1> QED
  BY <1>4, <1>5 DEF device_tree_first_pass_property

\* structs_end keeps the invariant: the second pass begins at a node.
LEMMA StructsEndTree ==
  ASSUME TreeInv, state = "structs", structs_end, UNCHANGED tokens
  PROVE  TreeInv'
<1>1. CASE Stop("halted")
  BY <1>1, StopTree
<1>2. CASE Return(EC_DT_BLOB_EMPTY_TREE)
  <2>1. EC_DT_BLOB_EMPTY_TREE \in Nat
    BY DEF EC_DT_BLOB_EMPTY_TREE
  <2> QED
    BY <1>2, <2>1, ReturnTree
<1>3. CASE /\ current = NULL /\ root_node # NULL /\ state' = "second"
           /\ todo' = <<Call(root_node, DEFAULT_ADDRESS_CELLS, DEFAULT_SIZE_CELLS)>>
           /\ UNCHANGED <<current, depth, root_node, nodes, props, phandle_map, visit, err>>
  <2>1. /\ Wired(tokens, nodes, props, root_node)
        /\ current \in 0..Len(nodes) /\ depth \in Nat /\ err \in Nat
        /\ Pending(todo, visit, Len(nodes), Len(props))
    BY DEF TreeInv
  <2>2. Len(nodes) \in Nat
    BY <2>1, WiredLengths
  <2>3. root_node \in 0..Len(nodes)
    BY <2>1, <2>2, RootIsNode DEF Wired
  <2>4. root_node \in 1..Len(nodes)
    BY <2>2, <2>3, <1>3 DEF NULL
  <2>5. Call(root_node, DEFAULT_ADDRESS_CELLS, DEFAULT_SIZE_CELLS) \in Calls(Len(nodes))
    BY <2>4 DEF Call, Calls, DEFAULT_ADDRESS_CELLS, DEFAULT_SIZE_CELLS
  <2>6. todo' \in Seq(Calls(Len(nodes)))
    BY <2>5, <1>3
  <2>7. Pending(todo', visit', Len(nodes'), Len(props'))
    BY <2>1, <2>6, <1>3 DEF Pending
  <2>8. state' \in States /\ ~(state' \in {"reset", "structs"})
    BY <1>3 DEF States
  <2>9. Wired(tokens', nodes', props', root_node')
    BY <2>1, <1>3
  <2>10. current' \in 0..Len(nodes') /\ depth' \in Nat /\ err' \in Nat
    BY <2>1, <1>3
  <2> QED
    BY <2>7, <2>8, <2>9, <2>10 DEF TreeInv
<1> QED
  BY <1>1, <1>2, <1>3 DEF structs_end

\* Nothing changes when nothing the invariant is about does.
LEMMA IdleTree ==
  ASSUME TreeInv, UNCHANGED vars
  PROVE  TreeInv'
BY DEF TreeInv, vars

\* Every token keeps the invariant.
LEMMA TokenTree ==
  ASSUME TreeInv, Token
  PROVE  TreeInv'
<1>1. ASSUME NEW name \in NodeNames \union {""}, Read(Start(name)), device_tree_parse_node(name)
      PROVE  TreeInv'
  BY <1>1, NodeTree
<1>2. CASE Read(NodeEnd) /\ node_end
  BY <1>2, NodeEndTree
<1>3. ASSUME NEW p \in BlobProperties, Read(Property(p)), device_tree_first_pass_property(p)
      PROVE  TreeInv'
  BY <1>3, PropertyTree
<1>4. CASE UNCHANGED vars
  BY <1>4, IdleTree
<1>5. CASE state = "structs" /\ structs_end /\ UNCHANGED tokens
  BY <1>5, StructsEndTree
<1>6. CASE Stop("halted") /\ UNCHANGED tokens
  BY <1>6, StopTree
<1> QED
  BY <1>1, <1>2, <1>3, <1>4, <1>5, <1>6 DEF Token

-----------------------------------------------------------------------------
(***************************************************************************)
(* The second pass.                                                        *)
(***************************************************************************)

\* An error with another one pushed on it is a number.
LEMMA PushedIsNumber ==
  ASSUME NEW e, NEW code
  PROVE  error_push(e, code) \in Nat
<1> DEFINE x == (e * 2 ^ SizeofErrorCode) % 2 ^ WordBits
           S == {j \in 0..(WordBits - 1) : Bit(x, j) \/ Bit(code, j)}
<1>1. error_push(e, code) = SumSet({2 ^ k : k \in S})
  BY DEF error_push, BitOr
<1>2. S \in SUBSET Nat /\ S \in SUBSET (0..(WordBits - 1)) /\ WordBits - 1 \in Int
  BY WordBitsAssumption
<1>3. IsFiniteSet(0..(WordBits - 1))
  BY <1>2, FS_Interval
<1> HIDE DEF S
<1>4. IsFiniteSet(S)
  BY <1>2, <1>3, FS_Subset
<1>5. SumSet({2 ^ k : k \in S}) \in Nat
  BY <1>2, <1>4, MasksAreNumbers
<1> QED
  BY <1>1, <1>5

\* device_tree_get_property finds a property of that name or none.
LEMMA FoundByName ==
  ASSUME TreeInv, NEW n \in 1..Len(nodes), NEW name, device_tree_get_property(n, name) # NULL
  PROVE  /\ device_tree_get_property(n, name) \in 1..Len(props)
         /\ props[device_tree_get_property(n, name)].name = name
<1> DEFINE l == PropertiesFrom[nodes[n].properties]
           I == {i \in 1..Len(l) : props[l[i]].name = name}
<1>1. device_tree_get_property(n, name) =
        IF (IF I # {} THEN Min(I) ELSE 0) = 0 THEN NULL ELSE l[IF I # {} THEN Min(I) ELSE 0]
  BY DEF device_tree_get_property, SelectInSeq
<1>2. Linked(nodes, props) /\ Wired(tokens, nodes, props, root_node)
  BY DEF TreeInv, Wired
<1>3. Len(nodes) \in Nat /\ Len(props) \in Nat
  BY <1>2, WiredLengths
<1>4. nodes[n].properties \in 0..Len(props) /\ \A k \in 1..Len(props) : props[k].next_prop \in 0..(k - 1)
  BY <1>2 DEF Linked
<1>5. \A k \in 0..Len(props) : PropertiesOf(props)[k] \in Seq(1..Len(props))
  BY <1>3, <1>4, PropertiesHold
<1>6. PropertiesFrom = PropertiesOf(props)
  BY DEF PropertiesFrom, PropertiesOf
<1>7. l \in Seq(1..Len(props))
  BY <1>4, <1>5, <1>6
<1> HIDE DEF l
<1>8. I # {}
  <2> HIDE DEF I
  <2> QED
    BY <1>1
<1>9. I \in SUBSET Nat /\ \A i \in I : l[i] \in 1..Len(props) /\ props[l[i]].name = name
  BY <1>7, ElementOfSeq
<1> HIDE DEF I
<1>10. Min(I) \in I
  BY <1>8, <1>9, Least
<1>11. device_tree_get_property(n, name) = l[Min(I)]
  BY <1>1, <1>8
<1> QED
  BY <1>9, <1>10, <1>11

\* A step of the second pass that changes no pointer keeps the invariant.
LEMMA SecondTree ==
  ASSUME TreeInv, state = "second", UNCHANGED <<state, tokens, current, depth, root_node, err>>,
         Recorded(nodes', props'), SameTree(nodes, nodes'),
         \A n \in 1..Len(nodes) : nodes'[n].properties = nodes[n].properties,
         SameProps(props, props'),
         Pending(todo', visit', Len(nodes), Len(props))
  PROVE  TreeInv'
<1>1. Wired(tokens, nodes, props, root_node)
  BY DEF TreeInv
<1>2. Wired(tokens, nodes', props', root_node)
  BY <1>1, SameWired
<1>3. Len(nodes') = Len(nodes) /\ Len(props') = Len(props)
  BY DEF SameTree, SameProps
<1>4. Wired(tokens', nodes', props', root_node')
  BY <1>2
<1>5. /\ current' \in 0..Len(nodes') /\ depth' \in Nat /\ err' \in Nat
      /\ Pending(todo', visit', Len(nodes'), Len(props'))
  BY <1>3 DEF TreeInv
<1>6. state' \in States /\ ~(state' \in {"reset", "structs"})
  BY DEF States
<1> QED
  BY <1>4, <1>5, <1>6 DEF TreeInv

\* What does not change is the same.
LEMMA Unchanged ==
  ASSUME NEW ns, NEW ps, Recorded(ns, ps)
  PROVE  /\ SameTree(ns, ns) /\ SameProps(ps, ps)
BY Appended DEF SameTree, SameProps, Recorded

\* EnterNode keeps the invariant.
LEMMA EnterTree ==
  ASSUME TreeInv, EnterNode
  PROVE  TreeInv'
<1> DEFINE call == Head(todo)
           n == call.node
           x == [nodes[n] EXCEPT !.address_cells = call.address_cells,
                                 !.size_cells = call.size_cells]
<1>1. /\ state = "second" /\ visit = NoVisit /\ todo # << >>
      /\ nodes' = [nodes EXCEPT ![n].address_cells = call.address_cells,
                                ![n].size_cells = call.size_cells]
      /\ visit' = [node |-> n, prop |-> nodes[n].properties,
                   next_address_cells |-> call.address_cells,
                   next_size_cells |-> call.size_cells]
      /\ todo' = Tail(todo)
      /\ UNCHANGED <<state, tokens, current, depth, root_node, props, phandle_map, err>>
  BY DEF EnterNode
<1>2. todo \in Seq(Calls(Len(nodes))) /\ Wired(tokens, nodes, props, root_node)
  BY DEF TreeInv, Pending
<1>3. Recorded(nodes, props) /\ Linked(nodes, props)
  BY <1>2 DEF Wired
<1>4. call \in Calls(Len(nodes)) /\ todo' \in Seq(Calls(Len(nodes)))
  BY <1>1, <1>2, HeadTailProperties
<1> HIDE DEF call
<1>5. /\ n \in 1..Len(nodes) /\ call.address_cells \in 0..3 /\ call.size_cells \in 0..2
  BY <1>4 DEF Calls
<1>6. IsNode(nodes[n]) /\ IsSequence(nodes)
  BY <1>3, <1>5 DEF Recorded
<1>7. AsNode(nodes[n], x)
  BY <1>5, <1>6 DEF AsNode, IsNode
<1>8. nodes' = [nodes EXCEPT ![n] = x]
  <2>1. PICK S : nodes \in Seq(S)
    BY <1>6 DEF IsSequence
  <2>2. nodes \in [1..Len(nodes) -> S]
    BY <2>1, LenProperties
  <2> QED
    BY <2>2, <1>1, <1>5
<1>9. /\ Recorded([nodes EXCEPT ![n] = x], props) /\ SameTree(nodes, [nodes EXCEPT ![n] = x])
      /\ \A m \in 1..Len(nodes) : [nodes EXCEPT ![n] = x][m].properties = nodes[m].properties
  <2> HIDE DEF n, x
  <2> QED
    BY <1>3, <1>5, <1>7, NodeChanged
<1>10. /\ Recorded(nodes', props') /\ SameTree(nodes, nodes')
       /\ \A m \in 1..Len(nodes) : nodes'[m].properties = nodes[m].properties
  BY <1>1, <1>8, <1>9
<1>11. SameProps(props, props')
  BY <1>1, <1>3, Unchanged
<1>12. nodes[n].properties \in 0..Len(props)
  BY <1>3, <1>5 DEF Linked
<1>13. visit' \in Visits(Len(nodes), Len(props)) /\ visit'.node # NULL
  <2>1. Len(nodes) \in Nat
    BY <1>2, WiredLengths
  <2>2. n \in 0..Len(nodes) /\ n # 0
    BY <2>1, <1>5
  <2> HIDE DEF n
  <2> QED
    BY <2>2, <1>1, <1>5, <1>12 DEF Visits, NULL
<1>14. Pending(todo', visit', Len(nodes), Len(props))
  BY <1>4, <1>13 DEF Pending
<1> QED
  BY <1>1, <1>10, <1>11, <1>14, SecondTree

\* A property has been interpreted: the visit goes on to the next one.
LEMMA InterpretTree ==
  ASSUME TreeInv, state = "second", visit.prop # NULL, UNCHANGED tokens,
         NEW type, NEW v \in Visits(Len(nodes), Len(props)), v.node = visit.node, Interpret(type, v),
         Recorded(nodes', props), SameTree(nodes, nodes'),
         \A n \in 1..Len(nodes) : nodes'[n].properties = nodes[n].properties
  PROVE  TreeInv'
<1> DEFINE k == visit.prop
           x == [props[k] EXCEPT !.type = type]
<1>1. /\ props' = [props EXCEPT ![k] = x]
      /\ visit' = [v EXCEPT !.prop = props[k].next_prop]
      /\ UNCHANGED <<state, current, depth, root_node, todo, err>>
  BY DEF Interpret
<1>2. /\ todo \in Seq(Calls(Len(nodes))) /\ visit \in Visits(Len(nodes), Len(props))
      /\ (visit = NoVisit \/ visit.node # NULL) /\ Wired(tokens, nodes, props, root_node)
  BY DEF TreeInv, Pending
<1>3. Recorded(nodes, props) /\ Linked(nodes, props)
  BY <1>2 DEF Wired
<1>4. Len(props) \in Nat
  BY <1>2, WiredLengths
<1>5. k \in 1..Len(props) /\ visit.node # NULL
  <2>1. k \in 0..Len(props) /\ k # 0
    BY <1>2 DEF Visits, NULL
  <2>2. visit # NoVisit
    BY <2>1 DEF NoVisit, NULL
  <2> QED
    BY <2>1, <2>2, <1>2, <1>4
<1> HIDE DEF k
<1>6. IsProp(props[k]) /\ props[k].next_prop \in 0..(k - 1)
  BY <1>3, <1>5 DEF Recorded, Linked
<1>7. IsProp(x) /\ x.name = props[k].name /\ x.next_prop = props[k].next_prop
  BY <1>6 DEF IsProp
<1> HIDE DEF x
<1>8. Recorded(nodes', [props EXCEPT ![k] = x]) /\ SameProps(props, [props EXCEPT ![k] = x])
  BY <1>5, <1>7, PropChanged
<1>9. props[k].next_prop \in 0..Len(props)
  <2>1. \A y \in 0..(k - 1) : y \in 0..Len(props)
    BY <1>4, <1>5
  <2> QED
    BY <2>1, <1>6
<1>10. visit' \in Visits(Len(nodes), Len(props)) /\ visit'.node = visit.node
  BY <1>1, <1>9 DEF Visits
<1>11. Pending(todo', visit', Len(nodes), Len(props))
  BY <1>1, <1>2, <1>5, <1>10 DEF Pending
<1>12. Recorded(nodes', props') /\ SameProps(props, props')
  BY <1>1, <1>8
<1> QED
  BY <1>1, <1>11, <1>12, SecondTree

\* ReadProperty keeps the invariant.
LEMMA ReadTree ==
  ASSUME TreeInv, ReadProperty
  PROVE  TreeInv'
<1> DEFINE p == props[visit.prop]
<1>1. /\ state = "second" /\ visit.prop # NULL /\ UNCHANGED tokens
      /\ \/ compatible_property(p) \/ address_cells_property(p) \/ size_cells_property(p)
         \/ phandle_property(p) \/ other_property(p)
  BY DEF ReadProperty
<1>2. /\ visit \in Visits(Len(nodes), Len(props)) /\ (visit = NoVisit \/ visit.node # NULL)
      /\ Wired(tokens, nodes, props, root_node)
  BY DEF TreeInv, Pending
<1>3. Recorded(nodes, props) /\ Linked(nodes, props) /\ SameTree(nodes, nodes)
  BY <1>2, Unchanged DEF Wired
<1>4. Len(props) \in Nat /\ Len(nodes) \in Nat
  BY <1>2, WiredLengths
<1>5. visit.prop \in 1..Len(props) /\ visit.node \in 1..Len(nodes)
  <2>1. visit.prop \in 0..Len(props) /\ visit.prop # 0 /\ visit.node \in 0..Len(nodes)
    BY <1>1, <1>2 DEF Visits, NULL
  <2>2. visit # NoVisit
    BY <2>1 DEF NoVisit, NULL
  <2>3. visit.node # 0
    BY <2>2, <1>2 DEF NULL
  <2> QED
    BY <2>1, <2>3, <1>4
<1>6. IsProp(p)
  BY <1>3, <1>5 DEF Recorded
<1> HIDE DEF p
<1>7. ASSUME NEW type, NEW v \in Visits(Len(nodes), Len(props)), v.node = visit.node,
             Interpret(type, v), UNCHANGED nodes
      PROVE  TreeInv'
  <2>1. /\ Recorded(nodes', props) /\ SameTree(nodes, nodes')
        /\ \A n \in 1..Len(nodes) : nodes'[n].properties = nodes[n].properties
    BY <1>3, <1>7
  <2> QED
    BY <2>1, <1>1, <1>7, InterpretTree
<1>8. CASE compatible_property(p)
  <2>1. CASE Stop("halted")
    BY <2>1, <1>1, StopTree
  <2>2. CASE ~Stop("halted")
    <3> DEFINE n == visit.node
               x == [nodes[n] EXCEPT !.compatible = p.value]
    <3>1. Interpret("COMPATIBLE", visit) /\ nodes' = [nodes EXCEPT ![n] = x]
      BY <2>2, <1>8 DEF compatible_property
    <3>2. IsNode(nodes[n])
      BY <1>3, <1>5 DEF Recorded
    <3>3. AsNode(nodes[n], x)
      BY <3>2 DEF AsNode, IsNode
    <3>4. n \in 1..Len(nodes)
      BY <1>5
    <3> HIDE DEF n, x
    <3>5. /\ Recorded([nodes EXCEPT ![n] = x], props) /\ SameTree(nodes, [nodes EXCEPT ![n] = x])
          /\ \A m \in 1..Len(nodes) : [nodes EXCEPT ![n] = x][m].properties = nodes[m].properties
      BY <3>3, <3>4, <1>3, NodeChanged
    <3>6. /\ Recorded(nodes', props) /\ SameTree(nodes, nodes')
          /\ \A m \in 1..Len(nodes) : nodes'[m].properties = nodes[m].properties
      BY <3>1, <3>5
    <3> QED
      BY <3>1, <3>6, <1>1, <1>2, InterpretTree
  <2> QED
    BY <2>1, <2>2
<1>9. CASE address_cells_property(p)
  <2>1. p.name = "#address-cells" /\ p.value \in Nat
    BY <1>6, <1>9 DEF address_cells_property, IsProp
  <2>2. CASE Return(error_push(EC_DT_ADDRESS_CELLS_TOO_LARGE, EC_DT_BLOB_REWRITE_FAILED))
    <3>1. error_push(EC_DT_ADDRESS_CELLS_TOO_LARGE, EC_DT_BLOB_REWRITE_FAILED) \in Nat
      BY PushedIsNumber
    <3> QED
      BY <3>1, <2>2, <1>1, ReturnTree
  <2>3. CASE /\ p.value <= 3 /\ UNCHANGED nodes
             /\ Interpret("ADDRESS_CELLS", [visit EXCEPT !.next_address_cells = p.value])
    <3>1. p.value \in 0..3
      BY <2>1, <2>3
    <3> DEFINE v == [visit EXCEPT !.next_address_cells = p.value]
    <3>2. v \in Visits(Len(nodes), Len(props)) /\ v.node = visit.node
      BY <3>1, <1>2 DEF Visits
    <3>3. Interpret("ADDRESS_CELLS", v)
      BY <2>3
    <3> HIDE DEF v
    <3> QED
      BY <3>2, <3>3, <2>3, <1>7
  <2> QED
    BY <2>2, <2>3, <1>9 DEF address_cells_property
<1>10. CASE size_cells_property(p)
  <2>1. p.name = "#size-cells" /\ p.value \in Nat
    BY <1>6, <1>10 DEF size_cells_property, IsProp
  <2>2. CASE Return(error_push(EC_DT_SIZE_CELLS_TOO_LARGE, EC_DT_BLOB_REWRITE_FAILED))
    <3>1. error_push(EC_DT_SIZE_CELLS_TOO_LARGE, EC_DT_BLOB_REWRITE_FAILED) \in Nat
      BY PushedIsNumber
    <3> QED
      BY <3>1, <2>2, <1>1, ReturnTree
  <2>3. CASE /\ p.value <= 2 /\ UNCHANGED nodes
             /\ Interpret("SIZE_CELLS", [visit EXCEPT !.next_size_cells = p.value])
    <3>1. p.value \in 0..2
      BY <2>1, <2>3
    <3> DEFINE v == [visit EXCEPT !.next_size_cells = p.value]
    <3>2. v \in Visits(Len(nodes), Len(props)) /\ v.node = visit.node
      BY <3>1, <1>2 DEF Visits
    <3>3. Interpret("SIZE_CELLS", v)
      BY <2>3
    <3> HIDE DEF v
    <3> QED
      BY <3>2, <3>3, <2>3, <1>7
  <2> QED
    BY <2>2, <2>3, <1>10 DEF size_cells_property
<1>11. CASE phandle_property(p)
  <2>1. Interpret("PHANDLE", visit) /\ UNCHANGED nodes
    BY <1>11 DEF phandle_property
  <2> QED
    BY <2>1, <1>2, <1>7
<1>12. CASE other_property(p)
  <2>1. Interpret(p.type, visit) /\ UNCHANGED nodes
    BY <1>12 DEF other_property
  <2> QED
    BY <2>1, <1>2, <1>7
<1> QED
  BY <1>1, <1>8, <1>9, <1>10, <1>11, <1>12

\* The calls for the children of the node visited are for nodes.
LEMMA ChildrenCalled ==
  ASSUME TreeInv, visit # NoVisit
  PROVE  LET children == SiblingsFrom[nodes[visit.node].children]
         IN  /\ visit.node \in 1..Len(nodes)
             /\ [i \in 1..Len(children) |-> ChildCall(children[i])] \in Seq(Calls(Len(nodes)))
<1>1. /\ visit \in Visits(Len(nodes), Len(props)) /\ visit.node # NULL
      /\ Wired(tokens, nodes, props, root_node)
  BY DEF TreeInv, Pending
<1>2. Len(nodes) \in Nat /\ Linked(nodes, props)
  BY <1>1, WiredLengths DEF Wired
<1>3. visit.node \in 1..Len(nodes)
  <2>1. visit.node \in 0..Len(nodes)
    BY <1>1 DEF Visits
  <2> QED
    BY <2>1, <1>1, <1>2 DEF NULL
<1> DEFINE children == SiblingsFrom[nodes[visit.node].children]
           made == [i \in 1..Len(children) |-> ChildCall(children[i])]
<1>4. children \in Seq(1..Len(nodes))
  <2>1. /\ \A n \in 1..Len(nodes) : nodes[n].sibling \in 0..(n - 1)
        /\ nodes[visit.node].children = 0 \/ nodes[visit.node].children \in (visit.node + 1)..Len(nodes)
    BY <1>2, <1>3 DEF Linked, NULL
  <2>2. nodes[visit.node].children \in 0..Len(nodes)
    BY <2>1, <1>2, <1>3
  <2>3. \A n \in 0..Len(nodes) : SiblingsOf(nodes)[n] \in Seq(1..Len(nodes))
    BY <2>1, <1>2, SiblingsHold
  <2>4. SiblingsFrom = SiblingsOf(nodes)
    BY DEF SiblingsFrom, SiblingsOf
  <2> QED
    BY <2>2, <2>3, <2>4
<1> HIDE DEF children
<1>5. \A i \in 1..Len(children) : ChildCall(children[i]) \in Calls(Len(nodes))
  <2>1. \A i \in 1..Len(children) : children[i] \in 1..Len(nodes)
    BY <1>4, ElementOfSeq
  <2>2. visit.next_address_cells \in 0..3 /\ visit.next_size_cells \in 0..2
    BY <1>1 DEF Visits
  <2> QED
    BY <2>1, <2>2 DEF ChildCall, Call, Calls
<1>6. Len(children) \in Nat
  BY <1>4, LenProperties
<1>7. made \in [1..Len(children) -> Calls(Len(nodes))]
  BY <1>5
<1>8. made \in Seq(Calls(Len(nodes)))
  <2> HIDE DEF made
  <2> QED
    BY <1>6, <1>7, SeqDef
<1> QED
  BY <1>3, <1>8 DEF children

\* FinishNode keeps the invariant: what it rewrites is a property named reg.
LEMMA FinishTree ==
  ASSUME TreeInv, FinishNode
  PROVE  TreeInv'
<1> DEFINE reg == device_tree_get_property(visit.node, "reg")
           children == SiblingsFrom[nodes[visit.node].children]
           made == [i \in 1..Len(children) |-> ChildCall(children[i])]
<1>1. /\ state = "second" /\ visit # NoVisit /\ UNCHANGED tokens
      /\ \/ Stop("halted")
         \/ /\ \/ UNCHANGED props
               \/ reg # NULL /\ rewrite_reg_property(reg)
            /\ todo' = made \o todo /\ visit' = NoVisit
            /\ UNCHANGED <<state, current, depth, root_node, nodes, phandle_map, err>>
  BY DEF FinishNode
<1>2. visit.node \in 1..Len(nodes) /\ made \in Seq(Calls(Len(nodes)))
  BY <1>1, ChildrenCalled
<1> HIDE DEF reg, made
<1>3. /\ todo \in Seq(Calls(Len(nodes))) /\ Wired(tokens, nodes, props, root_node)
  BY DEF TreeInv, Pending
<1>4. Recorded(nodes, props) /\ SameTree(nodes, nodes) /\ SameProps(props, props)
  BY <1>3, Unchanged DEF Wired
<1>5. CASE Stop("halted")
  BY <1>1, <1>5, StopTree
<1>6. CASE /\ \/ UNCHANGED props
              \/ reg # NULL /\ rewrite_reg_property(reg)
           /\ todo' = made \o todo /\ visit' = NoVisit
           /\ UNCHANGED <<state, current, depth, root_node, nodes, phandle_map, err>>
  <2>1. Pending(todo', visit', Len(nodes), Len(props))
    <3>1. todo' \in Seq(Calls(Len(nodes)))
      BY <1>2, <1>3, <1>6, ConcatProperties
    <3>2. Len(nodes) \in Nat /\ Len(props) \in Nat
      BY <1>3, WiredLengths
    <3>3. visit' \in Visits(Len(nodes), Len(props))
      BY <3>2, <1>6, NothingPending DEF Pending
    <3> QED
      BY <3>1, <3>3, <1>6 DEF Pending
  <2>2. Recorded(nodes, props') /\ SameProps(props, props')
    <3>1. CASE UNCHANGED props
      BY <3>1, <1>4
    <3>2. CASE reg # NULL /\ rewrite_reg_property(reg)
      <4> DEFINE x == [props[reg] EXCEPT !.type = "REG", !.value = RegValue(@)]
      <4>1. reg \in 1..Len(props) /\ props[reg].name = "reg"
        BY <3>2, <1>2, FoundByName DEF reg
      <4>2. IsProp(props[reg]) /\ IsSequence(props)
        BY <4>1, <1>4 DEF Recorded
      <4>3. IsProp(x) /\ x.name = props[reg].name /\ x.next_prop = props[reg].next_prop
        <5>1. DOMAIN x = DOMAIN props[reg]
          OBVIOUS
        <5>2. x.name = props[reg].name /\ x.next_prop = props[reg].next_prop
          BY <4>2 DEF IsProp
        <5>3. ~(x.name \in {"#address-cells", "#size-cells"})
          BY <5>2, <4>1
        <5> HIDE DEF x
        <5> QED
          BY <5>1, <5>2, <5>3, <4>2 DEF IsProp
      <4>4. props' = [props EXCEPT ![reg] = x]
        <5>1. PICK S : props \in Seq(S)
          BY <4>2 DEF IsSequence
        <5>2. props \in [1..Len(props) -> S]
          BY <5>1, LenProperties
        <5>3. props' = [props EXCEPT ![reg].type = "REG", ![reg].value = RegValue(@)]
          BY <3>2 DEF rewrite_reg_property
        <5> QED
          BY <5>2, <5>3, <4>1
      <4> HIDE DEF x
      <4>5. Recorded(nodes, [props EXCEPT ![reg] = x]) /\ SameProps(props, [props EXCEPT ![reg] = x])
        BY <4>1, <4>3, <1>4, PropChanged
      <4> QED
        BY <4>4, <4>5
    <3> QED
      BY <3>1, <3>2, <1>6
  <2>3. /\ Recorded(nodes', props') /\ SameTree(nodes, nodes')
        /\ \A n \in 1..Len(nodes) : nodes'[n].properties = nodes[n].properties
    BY <2>2, <1>4, <1>6
  <2> QED
    BY <2>1, <2>2, <2>3, <1>1, <1>6, SecondTree
<1> QED
  BY <1>1, <1>5, <1>6

\* The last return keeps the invariant.
LEMMA DoneTree ==
  ASSUME TreeInv, SecondPassDone
  PROVE  TreeInv'
<1>1. EC_SUCCESS \in Nat /\ Return(EC_SUCCESS) /\ UNCHANGED tokens
  BY DEF SecondPassDone, EC_SUCCESS
<1> QED
  BY <1>1, ReturnTree

\* Every step keeps the invariant.
LEMMA NextTree ==
  ASSUME TreeInv, [Next]_vars
  PROVE  TreeInv'
<1>1. ASSUME NEW magic \in BOOLEAN, NEW reserves \in BOOLEAN, parse_header(magic, reserves)
      PROVE  TreeInv'
  BY <1>1, HeaderTree
<1> QED
  BY <1>1, TokenTree, EnterTree, ReadTree, FinishTree, DoneTree, IdleTree DEF Next

-----------------------------------------------------------------------------
(***************************************************************************)
(* The theorems.                                                           *)
(***************************************************************************)

\* The invariant gives every variable its type.
LEMMA TreeTyped ==
  ASSUME TreeInv
  PROVE  TypeOK
<1>1. Wired(tokens, nodes, props, root_node) /\ Pending(todo, visit, Len(nodes), Len(props))
      /\ state \in States /\ current \in 0..Len(nodes) /\ depth \in Nat /\ err \in Nat
  BY DEF TreeInv
<1>2. Len(nodes) \in Nat /\ Len(props) \in Nat
  BY <1>1, WiredLengths
<1>3. root_node \in 0..Len(nodes)
  BY <1>1, <1>2, RootIsNode DEF Wired
<1>4. Recorded(nodes, props) /\ Linked(nodes, props)
  BY <1>1 DEF Wired
<1>5. \A n \in 1..Len(nodes) :
        /\ {nodes[n].parent, nodes[n].sibling} \subseteq 0..(n - 1)
        /\ nodes[n].children \in {NULL} \union (n + 1)..Len(nodes)
        /\ nodes[n].properties \in 0..Len(props)
        /\ nodes[n].address_cells \in 0..3 /\ nodes[n].size_cells \in 0..2
  BY <1>4 DEF Recorded, Linked, IsNode
<1>6. \A k \in 1..Len(props) : props[k].next_prop \in 0..(k - 1)
  BY <1>4 DEF Linked
<1>7. \A i \in 1..Len(todo) : todo[i].node \in 1..Len(nodes)
  <2>1. todo \in Seq(Calls(Len(nodes)))
    BY <1>1 DEF Pending
  <2>2. \A i \in 1..Len(todo) : todo[i] \in Calls(Len(nodes))
    BY <2>1, ElementOfSeq
  <2> QED
    BY <2>2 DEF Calls
<1>8. visit.node \in 0..Len(nodes) /\ visit.prop \in 0..Len(props)
  BY <1>1 DEF Pending, Visits
<1> QED
  BY <1>1, <1>3, <1>5, <1>6, <1>7, <1>8 DEF TypeOK, States

\* Types: nodes point to older parents and siblings and to younger children,
\* the depth does not pass below zero, and the second pass only looks at nodes
\* and properties there are.
THEOREM TypeCorrect == Spec => []TypeOK
<1>1. Init => TreeInv
  BY InitTree
<1>2. TreeInv /\ [Next]_vars => TreeInv'
  BY NextTree
<1>3. TreeInv => TypeOK
  BY TreeTyped
<1> QED
  BY <1>1, <1>2, <1>3, PTL DEF Spec

\* What the blob says, in the terms of TreeMirrorsBlob.
LEMMA BlobTerms ==
  /\ \A k : Starts(k) = StartsOf(tokens, k) /\ Ends(k) = EndsOf(tokens, k)
            /\ Depth(k) = DepthOf(tokens, k)
  /\ \A k, d : OpenAt(k, d) = OpenOf(tokens, k, d)
  /\ \A n : StartOf(n) = FirstOf(tokens, Len(tokens), n)
  /\ \A n : ParentIn(n) = EnclosingOf(tokens, Len(tokens), n)
  /\ \A n : Declared(n) = DeclaredOf(tokens, n)
<1>1. \A k : Starts(k) = StartsOf(tokens, k) /\ Ends(k) = EndsOf(tokens, k)
             /\ Depth(k) = DepthOf(tokens, k)
  BY DEF Starts, StartsOf, Ends, EndsOf, Depth, DepthOf
<1>2. \A k, d : OpenAt(k, d) = OpenOf(tokens, k, d)
  BY DEF NULL, OpenAt, OpenOf, Starts, StartsOf, Ends, EndsOf, Depth, DepthOf
<1>3. \A n : StartOf(n) = FirstOf(tokens, Len(tokens), n)
  BY DEF StartOf, FirstOf, Starts, StartsOf
<1>4. \A n : ParentIn(n) = EnclosingOf(tokens, Len(tokens), n)
  BY <1>1, <1>2, <1>3 DEF ParentIn, EnclosingOf
<1>5. \A n : Declared(n) = DeclaredOf(tokens, n)
  BY <1>1, <1>2 DEF Declared, DeclaredOf
<1> QED
  BY <1>1, <1>2, <1>3, <1>4, <1>5

\* The invariant says that the pointers mirror the blob.
LEMMA TreeMirrors ==
  ASSUME TreeInv
  PROVE  TreeMirrorsBlob
<1>1. Wired(tokens, nodes, props, root_node)
      /\ (state = "structs" => Stacked(tokens, nodes, current, depth))
  BY DEF TreeInv
<1>2. Len(nodes) \in Nat /\ Len(props) \in Nat
  BY <1>1, WiredLengths
<1>3. /\ Linked(nodes, props) /\ Parents(tokens, nodes) /\ ChildrenListed(nodes)
      /\ PropertiesListed(tokens, nodes, props) /\ Rooted(tokens, nodes, root_node)
  BY <1>1 DEF Wired
<1>4. SiblingsFrom = SiblingsOf(nodes) /\ PropertiesFrom = PropertiesOf(props)
  BY DEF SiblingsFrom, SiblingsOf, PropertiesFrom, PropertiesOf
<1>5. \A n \in 1..Len(nodes) : nodes[n].parent = ParentIn(n)
  BY <1>3, BlobTerms DEF Parents
<1>6. ASSUME NEW n \in 1..Len(nodes)
      PROVE  LET listed == SiblingsFrom[nodes[n].children]
             IN  /\ \A i \in DOMAIN listed : ParentIn(listed[i]) = n
                 /\ Len(listed) = Cardinality({m \in Nodes : nodes[m].parent = n})
  <2> DEFINE listed == SiblingsFrom[nodes[n].children]
  <2>1. /\ \A m \in 1..Len(nodes) : nodes[m].sibling \in 0..(m - 1)
        /\ nodes[n].children = 0 \/ nodes[n].children \in (n + 1)..Len(nodes)
    BY <1>3 DEF Linked, NULL
  <2>2. nodes[n].children \in 0..Len(nodes)
    BY <2>1, <1>2
  <2>3. \A m \in 0..Len(nodes) : Cardinality(ToSet(SiblingsOf(nodes)[m])) = Len(SiblingsOf(nodes)[m])
    BY <2>1, <1>2, SiblingsHold
  <2>4. Cardinality(ToSet(listed)) = Len(listed)
    BY <2>2, <2>3, <1>4
  <2>5. \A m : m \in ToSet(listed) <=> m \in 1..Len(nodes) /\ nodes[m].parent = n
    BY <1>3, <1>4 DEF ChildrenListed
  <2>6. \A i \in DOMAIN listed : listed[i] \in ToSet(listed)
    BY DEF ToSet
  <2> HIDE DEF listed
  <2>7. ToSet(listed) = {m \in Nodes : nodes[m].parent = n}
    BY <2>5 DEF Nodes
  <2>8. \A i \in DOMAIN listed : ParentIn(listed[i]) = n
    BY <2>5, <2>6, <1>5
  <2>9. Len(listed) = Cardinality({m \in Nodes : nodes[m].parent = n})
    BY <2>4, <2>7
  <2> QED
    BY <2>8, <2>9 DEF listed
<1>7. ASSUME NEW n \in 1..Len(nodes)
      PROVE  LET listed   == PropertiesFrom[nodes[n].properties]
                 declared == Declared(n)
             IN  /\ Len(listed) = Cardinality(declared)
                 /\ {props[listed[i]].name : i \in DOMAIN listed} = {tokens[k].name : k \in declared}
  <2>1. /\ Len(PropertiesOf(props)[nodes[n].properties]) = Cardinality(DeclaredOf(tokens, n))
        /\ NamesListed(nodes, props, n) = NamesDeclared(tokens, n)
    BY <1>3 DEF PropertiesListed
  <2>2. Declared(n) = DeclaredOf(tokens, n)
    BY BlobTerms
  <2> QED
    BY <2>1, <2>2, <1>4 DEF NamesListed, NamesDeclared
<1>8. state = "structs" => current = OpenAt(Len(tokens), Depth(Len(tokens)))
  BY <1>1, BlobTerms DEF Stacked
<1>9. LET tops == {n \in Nodes : ParentIn(n) = NULL /\ tokens[StartOf(n)].name = ""}
      IN  root_node = IF tops = {} THEN NULL ELSE Max(tops)
  <2>1. {n \in Nodes : ParentIn(n) = NULL /\ tokens[StartOf(n)].name = ""} = TopsOf(tokens, nodes)
    BY BlobTerms DEF Nodes, TopsOf
  <2> QED
    BY <2>1, <1>3 DEF Rooted
<1> QED
  BY <1>5, <1>6, <1>7, <1>8, <1>9 DEF TreeMirrorsBlob, Nodes

\* The pointers mirror the nesting of every blob, of any size, at every token
\* and through the second pass: device_tree_parse_node and NODE_END keep
\* parent, sibling, children, properties and current in step with the tokens.
THEOREM MirrorsEveryBlob == Spec => []TreeMirrorsBlob
<1>1. Init => TreeInv
  BY InitTree
<1>2. TreeInv /\ [Next]_vars => TreeInv'
  BY NextTree
<1>3. TreeInv => TreeMirrorsBlob
  BY TreeMirrors
<1> QED
  BY <1>1, <1>2, <1>3, PTL DEF Spec

-----------------------------------------------------------------------------
(***************************************************************************)
(* The values of the properties, as the first pass leaves them: Own is the *)
(* properties on the list of a node, ValuesOf what the tokens declare.     *)
(***************************************************************************)
Own(ns, ps, n) == ToSet(PropertiesOf(ps)[ns[n].properties])

ValuesOf(t, n, name) == {t[k].value : k \in {j \in DeclaredOf(t, n) : t[j].name = name}}

\* The values the second pass and the drivers rely on.
Sane(p) ==
  /\ p.name = "reg" => p.value \in Nat \ {0}
  /\ p.name = "compatible" => p.value \in Seq(STRING)

\* Each property has the value the blob declares, and no node has two of a name.
Valued(t, ns, ps) ==
  /\ \A n \in 1..Len(ns) : \A k \in Own(ns, ps, n) :
       /\ ValuesOf(t, n, ps[k].name) = {ps[k].value}
       /\ \A l \in Own(ns, ps, n) : ps[l].name = ps[k].name => l = k
  /\ \A n, m \in 1..Len(ns) : n # m => Own(ns, ps, n) \intersect Own(ns, ps, m) = {}
  /\ \A k \in 1..Len(ps) : Sane(ps[k])

\* The properties of a node are properties, and a node without a list has none.
LEMMA OwnBounds ==
  ASSUME NEW ns, NEW ps, Linked(ns, ps), Len(ps) \in Nat, NEW n \in 1..Len(ns)
  PROVE  /\ \A k \in Own(ns, ps, n) : k \in 1..Len(ps)
         /\ ns[n].properties = NULL => Own(ns, ps, n) = {}
<1>1. /\ ns[n].properties \in 0..Len(ps) /\ \A k \in 1..Len(ps) : ps[k].next_prop \in 0..(k - 1)
  BY DEF Linked
<1>2. /\ PropertiesOf(ps)[0] = << >>
      /\ \A k \in 0..Len(ps) : \A m \in ToSet(PropertiesOf(ps)[k]) : m \in 1..k
  BY <1>1, PropertiesHold
<1>3. \A m \in 1..ns[n].properties : m \in 1..Len(ps)
  BY <1>1
<1>4. ToSet(<< >>) = {}
  BY DEF ToSet
<1> QED
  BY <1>1, <1>2, <1>3, <1>4 DEF Own, NULL

\* Tokens read before keep what they declare.
LEMMA ValuesKept ==
  ASSUME NEW t, NEW u, TokenAdded(t, u), NEW n, DeclaredOf(u, n) = DeclaredOf(t, n), NEW name
  PROVE  ValuesOf(u, n, name) = ValuesOf(t, n, name)
<1>1. \A k \in DeclaredOf(t, n) : u[k] = t[k]
  BY DEF DeclaredOf, TokenAdded
<1> QED
  BY <1>1 DEF ValuesOf

\* A new node has no properties, and the others keep theirs.
LEMMA AddNodeValued ==
  ASSUME NEW t, NEW u, TokenAdded(t, u), u[Len(t) + 1].kind = "NODE_START",
         NEW ns, NEW us, NEW c, NodeAdded(ns, us, c),
         NEW ps, Len(ps) \in Nat, Linked(ns, ps), Linked(us, ps), Valued(t, ns, ps)
  PROVE  Valued(u, us, ps)
<1>1. PICK N \in Nat : N = Len(ns) /\ Len(us) = N + 1
  BY DEF NodeAdded
<1>2. \A n \in 1..N : Own(us, ps, n) = Own(ns, ps, n)
  BY <1>1 DEF NodeAdded, Own
<1>3. Own(us, ps, N + 1) = {}
  <2>1. us[N + 1].properties = NULL /\ N + 1 \in 1..Len(us)
    BY <1>1 DEF NodeAdded
  <2> QED
    BY <2>1, OwnBounds
<1>4. \A n, name : ValuesOf(u, n, name) = ValuesOf(t, n, name)
  <2> TAKE n, name
  <2>1. DeclaredOf(u, n) = DeclaredOf(t, n)
    BY OtherTokenDeclares
  <2> QED
    BY <2>1, ValuesKept
<1>5. \A n \in 1..(N + 1) : n \in 1..N \/ n = N + 1
  OBVIOUS
<1>6. /\ \A n \in 1..N : \A k \in Own(ns, ps, n) :
            /\ ValuesOf(t, n, ps[k].name) = {ps[k].value}
            /\ \A l \in Own(ns, ps, n) : ps[l].name = ps[k].name => l = k
      /\ \A n, m \in 1..N : n # m => Own(ns, ps, n) \intersect Own(ns, ps, m) = {}
      /\ \A k \in 1..Len(ps) : Sane(ps[k])
  BY <1>1 DEF Valued
<1>7. \A n \in 1..(N + 1) : \A k \in Own(us, ps, n) :
            /\ ValuesOf(u, n, ps[k].name) = {ps[k].value}
            /\ \A l \in Own(us, ps, n) : ps[l].name = ps[k].name => l = k
  BY <1>2, <1>3, <1>4, <1>5, <1>6, ZenonT(60)
<1>8. \A n, m \in 1..(N + 1) : n # m => Own(us, ps, n) \intersect Own(us, ps, m) = {}
  <2> SUFFICES ASSUME NEW n \in 1..(N + 1), NEW m \in 1..(N + 1), n # m
               PROVE  Own(us, ps, n) \intersect Own(us, ps, m) = {}
    OBVIOUS
  <2>1. CASE n = N + 1 \/ m = N + 1
    BY <2>1, <1>3
  <2>2. CASE n \in 1..N /\ m \in 1..N
    BY <2>2, <1>2, <1>6
  <2> QED
    BY <2>1, <2>2, <1>5
<1> QED
  BY <1>1, <1>6, <1>7, <1>8 DEF Valued

\* The end of a node declares nothing.
LEMMA EndNodeValued ==
  ASSUME NEW t, NEW u, TokenAdded(t, u), u[Len(t) + 1].kind = "NODE_END",
         NEW ns, NEW ps, Valued(t, ns, ps)
  PROVE  Valued(u, ns, ps)
<1>1. \A n, name : ValuesOf(u, n, name) = ValuesOf(t, n, name)
  <2> TAKE n, name
  <2>1. DeclaredOf(u, n) = DeclaredOf(t, n)
    BY OtherTokenDeclares
  <2> QED
    BY <2>1, ValuesKept
<1> QED
  BY <1>1 DEF Valued

\* A property of a new name.
LEMMA AddPropertyValued ==
  ASSUME NEW t, NEW u, TokenAdded(t, u), u[Len(t) + 1].kind = "PROPERTY",
         NEW ns, NEW us, NEW ps, NEW qs, NEW c \in 1..Len(ns),
         PropertyAdded(ns, us, ps, qs, c, u[Len(t) + 1].name),
         \A k \in 1..Len(ps) : qs[k].value = ps[k].value,
         qs[Len(ps) + 1].value = u[Len(t) + 1].value, Sane(qs[Len(ps) + 1]),
         Linked(ns, ps), Linked(us, qs), NEW d, Stacked(t, ns, c, d),
         PropertiesListed(t, ns, ps), Valued(t, ns, ps),
         \A k \in Own(ns, ps, c) : ps[k].name # u[Len(t) + 1].name
  PROVE  Valued(u, us, qs)
<1>1. PICK N \in Nat : N = Len(ns) /\ Len(us) = N
  BY DEF PropertyAdded, SameTree
<1>2. PICK P \in Nat : P = Len(ps) /\ Len(qs) = P + 1
  BY DEF PropertyAdded
<1> DEFINE name == u[Len(t) + 1].name
           value == u[Len(t) + 1].value
<1>3. \A k \in 1..P : /\ qs[k].next_prop = ps[k].next_prop
                      /\ qs[k].name = ps[k].name /\ qs[k].value = ps[k].value
  BY <1>2 DEF PropertyAdded
<1>4. /\ qs[P + 1].next_prop = ns[c].properties /\ qs[P + 1].name = name
      /\ qs[P + 1].value = value /\ Sane(qs[P + 1])
  BY <1>2 DEF PropertyAdded
<1>5. /\ \A n \in 1..N : ns[n].properties \in 0..P
      /\ \A k \in 1..P : ps[k].next_prop \in 0..(k - 1)
      /\ \A k \in 1..(P + 1) : qs[k].next_prop \in 0..(k - 1)
  BY <1>1, <1>2 DEF Linked
<1>6. /\ Len(ps) \in Nat /\ \A k \in 1..Len(ps) : ps[k].next_prop \in 0..(k - 1)
      /\ Len(qs) \in Nat /\ \A k \in 1..Len(qs) : qs[k].next_prop \in 0..(k - 1)
      /\ Len(ps) <= Len(qs) /\ \A k \in 1..Len(ps) : qs[k].next_prop = ps[k].next_prop
  BY <1>2, <1>3, <1>5
<1>7. \A k \in 0..P : PropertiesOf(qs)[k] = PropertiesOf(ps)[k]
  <2>1. \A k \in 0..Len(ps) : PropertiesOf(qs)[k] = PropertiesOf(ps)[k]
    BY <1>6, PropertiesKept
  <2> QED
    BY <2>1, <1>2
<1>8. \A n \in 1..N : us[n].properties = IF n = c THEN P + 1 ELSE ns[n].properties
  BY <1>1, <1>2 DEF PropertyAdded
<1>9. \A n \in 1..N : n # c => Own(us, qs, n) = Own(ns, ps, n)
  BY <1>5, <1>7, <1>8 DEF Own
<1>10. Own(us, qs, c) = {P + 1} \union Own(ns, ps, c)
  <2>1. Descends(PropertyLinks(qs), Len(qs)) /\ IsList(PropertyLinks(qs), Len(qs), PropertiesOf(qs))
    BY <1>6, PropertiesAreLists
  <2>2. \A x \in 0..Len(qs) : x # 0 =>
          ToSet(PropertiesOf(qs)[x]) =
            {x} \union ToSet(PropertiesOf(qs)[PropertyLinks(qs)[x]])
    BY <2>1, ListElements
  <2>3. P + 1 \in 0..Len(qs) /\ P + 1 \in 1..Len(qs) /\ P + 1 # 0
    BY <1>2
  <2>4. PropertyLinks(qs)[P + 1] = ns[c].properties
    BY <2>3, <1>4 DEF PropertyLinks
  <2>5. ToSet(PropertiesOf(qs)[P + 1]) = {P + 1} \union ToSet(PropertiesOf(qs)[ns[c].properties])
    BY <2>2, <2>3, <2>4
  <2>6. c \in 1..N /\ ns[c].properties \in 0..P /\ us[c].properties = P + 1
    BY <1>1, <1>5, <1>8
  <2> QED
    BY <2>5, <2>6, <1>7 DEF Own
<1>11. \A n \in 1..N : \A k \in Own(ns, ps, n) : k \in 1..P
  BY <1>1, <1>2, OwnBounds
<1>12. \A n \in 1..N : n # c => \A nm : ValuesOf(u, n, nm) = ValuesOf(t, n, nm)
  <2> SUFFICES ASSUME NEW n \in 1..N, n # c, NEW nm
               PROVE  ValuesOf(u, n, nm) = ValuesOf(t, n, nm)
    OBVIOUS
  <2>1. /\ Len(t) \in Nat /\ Len(u) = Len(t) + 1 /\ \A j \in 1..Len(t) : u[j] = t[j]
        /\ OpenOf(t, Len(t), DepthOf(t, Len(t))) = c
    BY DEF TokenAdded, Stacked
  <2> DEFINE own == u[Len(t) + 1].kind = "PROPERTY" /\ OpenOf(t, Len(t), DepthOf(t, Len(t))) = n
  <2>2. DeclaredOf(u, n) = DeclaredOf(t, n) \union (IF own THEN {Len(t) + 1} ELSE {})
    BY <2>1, TokenDeclares
  <2>3. ~own
    BY <2>1
  <2>4. DeclaredOf(u, n) = DeclaredOf(t, n)
    BY <2>2, <2>3
  <2> QED
    BY <2>4, ValuesKept
<1>13. DeclaredOf(u, c) = DeclaredOf(t, c) \union {Len(t) + 1}
  <2>1. /\ Len(t) \in Nat /\ Len(u) = Len(t) + 1 /\ \A j \in 1..Len(t) : u[j] = t[j]
        /\ OpenOf(t, Len(t), DepthOf(t, Len(t))) = c
    BY DEF TokenAdded, Stacked
  <2> DEFINE own == u[Len(t) + 1].kind = "PROPERTY" /\ OpenOf(t, Len(t), DepthOf(t, Len(t))) = c
  <2>2. DeclaredOf(u, c) = DeclaredOf(t, c) \union (IF own THEN {Len(t) + 1} ELSE {})
    BY <2>1, TokenDeclares
  <2> QED
    BY <2>1, <2>2
<1>14. \A k \in DeclaredOf(t, c) : u[k] = t[k]
  BY DEF DeclaredOf, TokenAdded
<1>15. \A k \in DeclaredOf(t, c) : t[k].name # name
  <2>1. NamesListed(ns, ps, c) = NamesDeclared(t, c)
    BY DEF PropertiesListed
  <2>2. NamesListed(ns, ps, c) = {ps[k].name : k \in Own(ns, ps, c)}
    BY NamesOfList DEF Own
  <2> QED
    BY <2>1, <2>2 DEF NamesDeclared
<1>16. ValuesOf(u, c, name) = {value}
  BY <1>13, <1>14, <1>15 DEF ValuesOf
<1>17. \A nm : nm # name => ValuesOf(u, c, nm) = ValuesOf(t, c, nm)
  BY <1>13, <1>14 DEF ValuesOf
<1> HIDE DEF name, value
<1>18. /\ \A n \in 1..N : \A k \in Own(ns, ps, n) :
            /\ ValuesOf(t, n, ps[k].name) = {ps[k].value}
            /\ \A l \in Own(ns, ps, n) : ps[l].name = ps[k].name => l = k
      /\ \A n, m \in 1..N : n # m => Own(ns, ps, n) \intersect Own(ns, ps, m) = {}
      /\ \A k \in 1..P : Sane(ps[k])
  BY <1>1, <1>2 DEF Valued
<1>19. \A n \in 1..N : n # c => \A k \in Own(us, qs, n) :
            /\ ValuesOf(u, n, qs[k].name) = {qs[k].value}
            /\ \A l \in Own(us, qs, n) : qs[l].name = qs[k].name => l = k
  <2> SUFFICES ASSUME NEW n \in 1..N, n # c, NEW k \in Own(us, qs, n)
               PROVE  /\ ValuesOf(u, n, qs[k].name) = {qs[k].value}
                      /\ \A l \in Own(us, qs, n) : qs[l].name = qs[k].name => l = k
    OBVIOUS
  <2>1. \A l \in Own(us, qs, n) : /\ l \in Own(ns, ps, n)
                                  /\ qs[l].name = ps[l].name /\ qs[l].value = ps[l].value
    BY <1>3, <1>9, <1>11
  <2>2. ValuesOf(t, n, ps[k].name) = {ps[k].value}
    BY <2>1, <1>18
  <2>3. \A l \in Own(ns, ps, n) : ps[l].name = ps[k].name => l = k
    BY <2>1, <1>18
  <2>4. ValuesOf(u, n, qs[k].name) = ValuesOf(t, n, ps[k].name)
    BY <2>1, <1>12
  <2> QED
    BY <2>1, <2>2, <2>3, <2>4
<1>20. c \in 1..N /\ \A k \in Own(ns, ps, c) : ps[k].name # name
  BY <1>1 DEF name
<1>21. ASSUME NEW k \in Own(us, qs, c)
       PROVE  /\ ValuesOf(u, c, qs[k].name) = {qs[k].value}
              /\ \A l \in Own(us, qs, c) : qs[l].name = qs[k].name => l = k
  <2>1. \A l \in Own(us, qs, c) : l = P + 1 \/ (l \in Own(ns, ps, c) /\ l \in 1..P
                                     /\ qs[l].name = ps[l].name /\ qs[l].value = ps[l].value)
    BY <1>3, <1>10, <1>11, <1>20
  <2>2. CASE k = P + 1
    BY <2>1, <2>2, <1>4, <1>16, <1>20
  <2>3. CASE k # P + 1
    <3>1. k \in Own(ns, ps, c) /\ qs[k].name = ps[k].name /\ qs[k].value = ps[k].value
      BY <2>1, <2>3
    <3>2. ps[k].name # name
      BY <3>1, <1>20
    <3>3. ValuesOf(t, c, ps[k].name) = {ps[k].value}
      BY <3>1, <1>18, <1>20
    <3>4. \A l \in Own(ns, ps, c) : ps[l].name = ps[k].name => l = k
      BY <3>1, <1>18, <1>20
    <3>5. ValuesOf(u, c, qs[k].name) = {qs[k].value}
      BY <3>1, <3>2, <3>3, <1>17
    <3>6. ASSUME NEW l \in Own(us, qs, c), qs[l].name = qs[k].name PROVE l = k
      BY <3>1, <3>2, <3>4, <3>6, <2>1, <1>4
    <3> QED
      BY <3>5, <3>6
  <2> QED
    BY <2>2, <2>3
<1>22. \A n, m \in 1..N : n # m => Own(us, qs, n) \intersect Own(us, qs, m) = {}
  <2>1. P + 1 \notin 1..P
    OBVIOUS
  <2>2. \A n \in 1..N : P + 1 \notin Own(ns, ps, n)
    BY <2>1, <1>11
  <2> QED
    BY <2>2, <1>9, <1>10, <1>18
<1>23. \A k \in 1..(P + 1) : Sane(qs[k])
  <2>1. \A k \in 1..P : Sane(qs[k])
    <3> SUFFICES ASSUME NEW k \in 1..P PROVE Sane(qs[k])
      OBVIOUS
    <3>1. Sane(ps[k])
      BY <1>2 DEF Valued
    <3>2. qs[k].name = ps[k].name /\ qs[k].value = ps[k].value
      BY <1>3
    <3> QED
      BY <3>1, <3>2 DEF Sane
  <2>2. \A k \in 1..(P + 1) : k \in 1..P \/ k = P + 1
    OBVIOUS
  <2> QED
    BY <2>1, <2>2, <1>4
<1> QED
  BY <1>1, <1>2, <1>19, <1>21, <1>22, <1>23 DEF Valued

\* What the first pass has left to the second one.
ValueInv ==
  state \in {"reset", "structs"} =>
    /\ Valued(tokens, nodes, props)
    /\ \A n \in 1..Len(nodes) : nodes[n].compatible = << >>
    /\ phandle_map = << >>

\* An empty blob has no values.
LEMMA InitValue == Init => ValueInv
<1> SUFFICES ASSUME Init PROVE ValueInv
  OBVIOUS
<1>1. nodes = << >> /\ props = << >> /\ phandle_map = << >> /\ tokens = << >>
  BY DEF Init
<1>2. Len(<< >>) = 0 /\ 1..0 = {}
  BY EmptySeq
<1> QED
  BY <1>1, <1>2 DEF ValueInv, Valued

\* A new node has no properties and no strings.
LEMMA NodeValue ==
  ASSUME TreeInv, TreeInv', ValueInv, NEW name, Read(Start(name)), device_tree_parse_node(name)
  PROVE  ValueInv'
<1>1. /\ state = "structs" /\ tokens' = Append(tokens, Start(name)) /\ UNCHANGED <<props, phandle_map>>
  BY DEF Read, device_tree_parse_node
<1>2. /\ Wired(tokens, nodes, props, root_node) /\ current \in 0..Len(nodes)
      /\ Linked(nodes', props')
  BY <1>1 DEF TreeInv, Wired
<1>3. /\ Valued(tokens, nodes, props) /\ phandle_map = << >>
      /\ \A n \in 1..Len(nodes) : nodes[n].compatible = << >>
  BY <1>1 DEF ValueInv
<1>4. Len(nodes) \in Nat /\ Len(props) \in Nat /\ Recorded(nodes, props) /\ Linked(nodes, props)
      /\ IsSequence(tokens) /\ IsSequence(nodes)
  BY <1>2, WiredLengths DEF Wired, Recorded
<1> DEFINE nm == IF depth = 0 /\ name = "" THEN "/" ELSE name
           old == IF current = NULL THEN nodes ELSE [nodes EXCEPT ![current].children = Len(nodes) + 1]
           new == [name |-> nm, parent |-> current,
                   sibling |-> IF current = NULL THEN NULL ELSE nodes[current].children,
                   children |-> NULL, properties |-> NULL, compatible |-> << >>,
                   address_cells |-> 0, size_cells |-> 0]
           us  == Append(old, new)
<1>5. nodes' = us
  BY DEF device_tree_parse_node, NewNode
<1> HIDE DEF nm
<1>6. NodeAdded(nodes, us, current)
  BY <1>2, <1>4, NodePushed
<1>7. \A n \in 1..(Len(nodes) + 1) : us[n].compatible = << >>
  <2>1. IsSequence(old) /\ Len(old) = Len(nodes)
        /\ \A n \in 1..Len(nodes) : old[n].compatible = << >>
    <3>1. CASE current = NULL
      BY <3>1, <1>3, <1>4
    <3>2. CASE current # NULL
      <4> DEFINE x == [nodes[current] EXCEPT !.children = Len(nodes) + 1]
      <4>1. current \in 1..Len(nodes)
        BY <3>2, <1>2, <1>4 DEF NULL
      <4>2. IsNode(nodes[current])
        BY <4>1, <1>4 DEF Recorded
      <4>3. x.compatible = << >>
        BY <4>1, <4>2, <1>3 DEF IsNode
      <4>4. old = [nodes EXCEPT ![current] = x]
        BY <3>2
      <4> HIDE DEF x
      <4>5. /\ IsSequence([nodes EXCEPT ![current] = x])
            /\ Len([nodes EXCEPT ![current] = x]) = Len(nodes)
            /\ \A n \in 1..Len(nodes) : [nodes EXCEPT ![current] = x][n] = IF n = current THEN x ELSE nodes[n]
        BY <4>1, <1>4, Replaced
      <4> QED
        BY <4>3, <4>4, <4>5, <1>3
    <3> QED
      BY <3>1, <3>2
  <2>2. new.compatible = << >>
    OBVIOUS
  <2> HIDE DEF old, new
  <2>3. /\ \A n \in 1..Len(old) : us[n] = old[n]
        /\ us[Len(old) + 1] = new
    BY <2>1, Appended
  <2>4. \A n \in 1..(Len(nodes) + 1) : n \in 1..Len(nodes) \/ n = Len(nodes) + 1
    BY <1>4
  <2> QED
    BY <2>1, <2>2, <2>3, <2>4
<1>8. Len(us) = Len(nodes) + 1
  BY <1>6 DEF NodeAdded
<1> HIDE DEF us
<1>9. TokenAdded(tokens, tokens') /\ tokens'[Len(tokens) + 1].kind = "NODE_START"
  <2>1. TokenAdded(tokens, Append(tokens, Start(name)))
        /\ Append(tokens, Start(name))[Len(tokens) + 1] = Start(name)
    BY <1>4, TokenRead
  <2>2. Start(name).kind = "NODE_START"
    BY DEF Start
  <2> QED
    BY <2>1, <2>2, <1>1
<1>10. Valued(tokens', us, props)
  <2>1. Linked(us, props)
    BY <1>1, <1>2, <1>5
  <2> QED
    BY <2>1, <1>3, <1>4, <1>6, <1>9, AddNodeValued
<1> QED
  BY <1>1, <1>3, <1>5, <1>7, <1>8, <1>10 DEF ValueInv

\* The values of a blob's properties.
LEMMA BlobIsSane ==
  ASSUME NEW p \in BlobProperties
  PROVE  Sane(p)
<1> DEFINE T == UNION {ToSet(b) : b \in Blobs}
<1>1. \A q \in Properties \union T :
        /\ q.name = "reg" => q.value \in Nat \ {0}
        /\ q.name = "compatible" => q.value \in Seq(STRING)
  BY DeviceTreeAssumption
<1>2. p \in Properties \/ p \in {[name |-> t.name, value |-> t.value] :
                                   t \in {u \in T : u.kind = "PROPERTY"}}
  BY DEF BlobProperties
<1> HIDE DEF T
<1>3. CASE p \in Properties
  BY <1>1, <1>3 DEF Sane
<1>4. CASE p \in {[name |-> t.name, value |-> t.value] : t \in {u \in T : u.kind = "PROPERTY"}}
  <2>1. PICK t \in {u \in T : u.kind = "PROPERTY"} : p = [name |-> t.name, value |-> t.value]
    BY <1>4
  <2>2. t \in T /\ p.name = t.name /\ p.value = t.value
    BY <2>1
  <2> QED
    BY <2>2, <1>1 DEF Sane
<1> QED
  BY <1>2, <1>3, <1>4

\* A property of a name the node does not have yet.
LEMMA PropertyValue ==
  ASSUME TreeInv, TreeInv', ValueInv, NEW p \in BlobProperties, NewName(p.name),
         Read(Property(p)), device_tree_first_pass_property(p)
  PROVE  ValueInv'
<1>1. state = "structs" /\ tokens' = Append(tokens, Property(p))
  BY DEF Read
<1>2. CASE state' = "fault"
  BY <1>2 DEF ValueInv
<1>3. CASE state' # "fault"
  <2> DEFINE y == [name |-> p.name, type |-> "RAW", value |-> p.value,
                   next_prop |-> nodes[current].properties]
             qs == Append(props, y)
             us == [nodes EXCEPT ![current].properties = Len(props) + 1]
  <2>1. /\ current # NULL /\ props' = qs /\ nodes' = us /\ UNCHANGED phandle_map
    BY <1>3 DEF device_tree_first_pass_property, Stop
  <2>2. /\ Wired(tokens, nodes, props, root_node) /\ current \in 0..Len(nodes)
        /\ Stacked(tokens, nodes, current, depth)
        /\ Linked(nodes', props')
    BY <1>1 DEF TreeInv, Wired
  <2>3. /\ Valued(tokens, nodes, props) /\ phandle_map = << >>
        /\ \A n \in 1..Len(nodes) : nodes[n].compatible = << >>
    BY <1>1 DEF ValueInv
  <2>4. /\ Len(nodes) \in Nat /\ Len(props) \in Nat /\ Recorded(nodes, props) /\ Linked(nodes, props)
        /\ IsSequence(tokens) /\ IsSequence(nodes) /\ IsSequence(props)
        /\ PropertiesListed(tokens, nodes, props)
    BY <2>2, WiredLengths DEF Wired, Recorded
  <2>5. current \in 1..Len(nodes)
    BY <2>1, <2>2, <2>4 DEF NULL
  <2>6. p.name \in {"#address-cells", "#size-cells"} => p.value \in Nat
    BY CellsAreNumbers
  <2>7. PropertyAdded(nodes, us, props, qs, current, p.name)
    BY <2>4, <2>5, <2>6, PropertyPushed
  <2>8. y.name = p.name /\ y.value = p.value
    OBVIOUS
  <2> HIDE DEF y
  <2>9. /\ \A k \in 1..Len(props) : qs[k] = props[k]
        /\ qs[Len(props) + 1] = y
    BY <2>4, Appended
  <2>10. \A n \in 1..Len(nodes) : us[n].compatible = << >>
    <3> DEFINE x == [nodes[current] EXCEPT !.properties = Len(props) + 1]
    <3>1. IsNode(nodes[current])
      BY <2>4, <2>5 DEF Recorded
    <3>2. x.compatible = << >>
      BY <3>1, <2>3, <2>5 DEF IsNode
    <3>3. us = [nodes EXCEPT ![current] = x]
      OBVIOUS
    <3> HIDE DEF x
    <3>4. \A n \in 1..Len(nodes) : [nodes EXCEPT ![current] = x][n] = IF n = current THEN x ELSE nodes[n]
      BY <2>4, <2>5, Replaced
    <3> QED
      BY <3>2, <3>3, <3>4, <2>3
  <2> HIDE DEF us, qs
  <2>11. /\ TokenAdded(tokens, tokens') /\ tokens'[Len(tokens) + 1].kind = "PROPERTY"
         /\ tokens'[Len(tokens) + 1].name = p.name /\ tokens'[Len(tokens) + 1].value = p.value
    <3>1. TokenAdded(tokens, Append(tokens, Property(p)))
          /\ Append(tokens, Property(p))[Len(tokens) + 1] = Property(p)
      BY <2>4, TokenRead
    <3>2. Property(p).kind = "PROPERTY" /\ Property(p).name = p.name /\ Property(p).value = p.value
      BY DEF Property
    <3> QED
      BY <3>1, <3>2, <1>1
  <2>12. Sane(qs[Len(props) + 1])
    BY <2>8, <2>9, BlobIsSane DEF Sane
  <2>13. \A k \in Own(nodes, props, current) : props[k].name # p.name
    BY <2>1 DEF NewName, Own, PropertiesFrom, PropertiesOf
  <2>14. /\ PropertyAdded(nodes, us, props, qs, current, tokens'[Len(tokens) + 1].name)
         /\ \A k \in 1..Len(props) : qs[k].value = props[k].value
         /\ qs[Len(props) + 1].value = tokens'[Len(tokens) + 1].value
         /\ \A k \in Own(nodes, props, current) : props[k].name # tokens'[Len(tokens) + 1].name
         /\ Linked(us, qs)
    BY <2>1, <2>2, <2>7, <2>8, <2>9, <2>11, <2>13
  <2>15. Valued(tokens', us, qs)
    BY <2>2, <2>3, <2>4, <2>5, <2>11, <2>12, <2>14, AddPropertyValued
  <2>16. Len(us) = Len(nodes)
    BY <2>7 DEF PropertyAdded, SameTree
  <2> QED
    BY <2>1, <2>3, <2>10, <2>15, <2>16 DEF ValueInv
<1> QED
  BY <1>2, <1>3

\* The end of a node.
LEMMA NodeEndValue ==
  ASSUME TreeInv, ValueInv, Read(NodeEnd), node_end
  PROVE  ValueInv'
<1>1. state = "structs" /\ tokens' = Append(tokens, NodeEnd)
  BY DEF Read
<1>2. UNCHANGED <<nodes, props, phandle_map>>
  BY DEF node_end, Stop
<1>3. IsSequence(tokens)
  BY DEF TreeInv, Wired
<1>4. TokenAdded(tokens, tokens') /\ tokens'[Len(tokens) + 1].kind = "NODE_END"
  <2>1. TokenAdded(tokens, Append(tokens, NodeEnd))
        /\ Append(tokens, NodeEnd)[Len(tokens) + 1] = NodeEnd
    BY <1>3, TokenRead
  <2>2. NodeEnd.kind = "NODE_END"
    BY DEF NodeEnd
  <2> QED
    BY <2>1, <2>2, <1>1
<1>5. Valued(tokens, nodes, props)
  BY <1>1 DEF ValueInv
<1>6. Valued(tokens', nodes, props)
  BY <1>4, <1>5, EndNodeValued
<1> QED
  BY <1>1, <1>2, <1>6 DEF ValueInv

\* Every step keeps the values.
LEMMA NextValue ==
  ASSUME TreeInv, TreeInv', ValueInv, [Next]_vars
  PROVE  ValueInv'
<1>1. CASE UNCHANGED vars
  BY <1>1 DEF vars, ValueInv
<1>2. ASSUME NEW magic \in BOOLEAN, NEW reserves \in BOOLEAN, parse_header(magic, reserves)
      PROVE  ValueInv'
  BY <1>2 DEF parse_header, Return, Stop, ValueInv
<1>3. CASE Token
  <2>1. ASSUME NEW name \in NodeNames \union {""}, Read(Start(name)), device_tree_parse_node(name)
        PROVE  ValueInv'
    BY <2>1, NodeValue
  <2>2. CASE Read(NodeEnd) /\ node_end
    BY <2>2, NodeEndValue
  <2>3. ASSUME NEW p \in BlobProperties, NewName(p.name), Read(Property(p)),
               device_tree_first_pass_property(p)
        PROVE  ValueInv'
    BY <2>3, PropertyValue
  <2>4. CASE state = "structs" /\ structs_end /\ UNCHANGED tokens
    BY <2>4 DEF structs_end, Stop, Return, ValueInv
  <2>5. CASE Stop("halted") /\ UNCHANGED tokens
    BY <2>5 DEF Stop, ValueInv
  <2> QED
    BY <2>1, <2>2, <2>3, <2>4, <2>5, <1>1, <1>3 DEF Token
<1>4. CASE EnterNode \/ ReadProperty \/ FinishNode \/ SecondPassDone
  <2>1. ~(state' \in {"reset", "structs"})
    <3>1. CASE EnterNode
      BY <3>1 DEF EnterNode
    <3>2. CASE ReadProperty
      BY <3>2 DEF ReadProperty, compatible_property, address_cells_property, size_cells_property,
                  phandle_property, other_property, Interpret, Stop, Return
    <3>3. CASE FinishNode
      BY <3>3 DEF FinishNode, Stop
    <3>4. CASE SecondPassDone
      BY <3>4 DEF SecondPassDone, Return
    <3> QED
      BY <3>1, <3>2, <3>3, <3>4, <1>4
  <2> QED
    BY <2>1 DEF ValueInv
<1> QED
  BY <1>1, <1>2, <1>3, <1>4 DEF Next

-----------------------------------------------------------------------------
(***************************************************************************)
(* The second pass.  seen are the nodes entered so far; those of them      *)
(* other than the one visited are done.                                    *)
(***************************************************************************)
Waiting(td) == {td[i].node : i \in 1..Len(td)}

Done(seen, v) == seen \ {v.node}

\* The pass reaches the root and what hangs below the nodes done, each once.
Reaches(ns, r, seen, td, v) ==
  /\ \A m \in seen : m \in 1..Len(ns) /\ m \notin Waiting(td)
  /\ \A i, j \in 1..Len(td) : td[i].node = td[j].node => i = j
  /\ r \in seen \union Waiting(td)
  /\ v.node # NULL => v.node \in seen
  /\ \A m \in 1..Len(ns) : ns[m].parent \in Done(seen, v) => m \in seen \union Waiting(td)
  /\ \A m \in seen \union Waiting(td) : m = r \/ ns[m].parent \in Done(seen, v)

\* What a node passes on to its children, own being what it was passed itself.
PassedOn(t, n, name, own) ==
  IF ValuesOf(t, n, name) = {} THEN own ELSE CHOOSE x \in ValuesOf(t, n, name) : TRUE

CellsOf(t, ns, r, m, ac, sc) ==
  IF m = r THEN ac = DEFAULT_ADDRESS_CELLS /\ sc = DEFAULT_SIZE_CELLS
  ELSE /\ ac = PassedOn(t, ns[m].parent, "#address-cells", ns[ns[m].parent].address_cells)
       /\ sc = PassedOn(t, ns[m].parent, "#size-cells", ns[ns[m].parent].size_cells)

\* Every node entered has the cells its parent passes on, and so have the calls.
CellsPassed(t, ns, r, seen, td) ==
  /\ \A m \in seen : CellsOf(t, ns, r, m, ns[m].address_cells, ns[m].size_cells)
  /\ \A i \in 1..Len(td) : CellsOf(t, ns, r, td[i].node, td[i].address_cells, td[i].size_cells)

\* The properties of n the pass has read, all but those the visit has yet to.
ReadOf(ns, ps, seen, v, n) ==
  {k \in Own(ns, ps, n) : n \in seen /\ (n = v.node => k \notin ToSet(PropertiesOf(ps)[v.prop]))}

\* x is the value of the property of that name read, default if none was.
TakenFrom(ps, read, name, x, default) ==
  /\ \A k \in read : ps[k].name = name => x = ps[k].value
  /\ (\A k \in read : ps[k].name # name) => x = default

\* What the properties read have set.
Applied(ns, ps, seen, v, pm) ==
  /\ \A n \in 1..Len(ns) :
       TakenFrom(ps, ReadOf(ns, ps, seen, v, n), "compatible", ns[n].compatible, << >>)
  /\ v.node # NULL =>
       /\ \A k \in ToSet(PropertiesOf(ps)[v.prop]) : k \in Own(ns, ps, v.node)
       /\ TakenFrom(ps, ReadOf(ns, ps, seen, v, v.node), "#address-cells",
                    v.next_address_cells, ns[v.node].address_cells)
       /\ TakenFrom(ps, ReadOf(ns, ps, seen, v, v.node), "#size-cells",
                    v.next_size_cells, ns[v.node].size_cells)
  /\ \A e : e \in ToSet(pm) <=>
       \E n \in 1..Len(ns) : \E k \in ReadOf(ns, ps, seen, v, n) :
         ps[k].name = "phandle" /\ e = [phandle |-> ps[k].value, node |-> n]

\* reg of the length d, cut by the cells of the node.
RegCut(ac, sc, d) ==
  [n_pairs   |-> d \div (ac + sc),
   addresses |-> [i \in 1..(d \div (ac + sc)) |-> CellsFrom((i - 1) * (ac + sc), ac)],
   sizes     |-> [i \in 1..(d \div (ac + sc)) |-> CellsFrom((i - 1) * (ac + sc) + ac, sc)]]

Cut(ac, sc, p, d) ==
  /\ p.type = "REG" /\ d \in Nat /\ ac + sc # 0 /\ d % (ac + sc) = 0
  /\ p.value = RegCut(ac, sc, d)

\* A property has the value declared; reg of a node done has been cut.
Holds(t, ns, ps, done, n, k, d) ==
  /\ ValuesOf(t, n, ps[k].name) = {d}
  /\ ps[k].name = "reg" => d \in Nat \ {0}
  /\ ps[k].name = "compatible" => d \in Seq(STRING)
  /\ IF ps[k].name = "reg" /\ n \in done
     THEN Cut(ns[n].address_cells, ns[n].size_cells, ps[k], d)
     ELSE ps[k].value = d

\* The names of a node's properties differ.
NamesDiffer(ns, ps) ==
  \A n \in 1..Len(ns) : \A k, l \in Own(ns, ps, n) : ps[l].name = ps[k].name => l = k

\* No two nodes share a property.
OwnApart(ns, ps) ==
  \A n, m \in 1..Len(ns) : n # m => Own(ns, ps, n) \intersect Own(ns, ps, m) = {}

Held(t, ns, ps, done) ==
  \A n \in 1..Len(ns) : \A k \in Own(ns, ps, n) : \E d : Holds(t, ns, ps, done, n, k, d)

\* The invariant of the second pass.
Passes(seen, t, ns, ps, r, pm, td, v) ==
  /\ Reaches(ns, r, seen, td, v) /\ CellsPassed(t, ns, r, seen, td)
  /\ Applied(ns, ps, seen, v, pm) /\ Held(t, ns, ps, Done(seen, v))

PassInv ==
  /\ state = "second" \/ Succeeded =>
       /\ NamesDiffer(nodes, props) /\ OwnApart(nodes, props)
       /\ nodes[root_node].parent = NULL /\ root_node \in 1..Len(nodes)
       /\ IsSequence(phandle_map)
       /\ \E seen : Passes(seen, tokens, nodes, props, root_node, phandle_map, todo, visit)
  /\ Succeeded => todo = << >> /\ visit = NoVisit

\* Lists of properties are the same when neither links nor their heads change.
LEMMA SameOwn ==
  ASSUME NEW ns, NEW us, SameTree(ns, us), \A n \in 1..Len(ns) : us[n].properties = ns[n].properties,
         NEW ps, NEW qs, SameProps(ps, qs), Linked(ns, ps)
  PROVE  /\ \A x \in 0..Len(ps) : PropertiesOf(qs)[x] = PropertiesOf(ps)[x]
         /\ \A n \in 1..Len(ns) : Own(us, qs, n) = Own(ns, ps, n)
<1>1. /\ Len(ps) \in Nat /\ Len(qs) = Len(ps)
      /\ \A k \in 1..Len(ps) : qs[k].next_prop = ps[k].next_prop
  BY DEF SameProps
<1>2. \A k \in 1..Len(ps) : ps[k].next_prop \in 0..(k - 1)
  BY DEF Linked
<1>3. /\ Len(qs) \in Nat /\ \A k \in 1..Len(qs) : qs[k].next_prop \in 0..(k - 1)
      /\ Len(ps) <= Len(qs)
  BY <1>1, <1>2
<1>4. \A x \in 0..Len(ps) : PropertiesOf(qs)[x] = PropertiesOf(ps)[x]
  BY <1>1, <1>2, <1>3, PropertiesKept
<1>5. \A n \in 1..Len(ns) : ns[n].properties \in 0..Len(ps)
  BY DEF Linked
<1> QED
  BY <1>4, <1>5 DEF Own

\* NoVisit is at no node.
LEMMA NotVisiting == NoVisit.node = 0 /\ NoVisit.prop = 0
BY DEF NoVisit, NULL

\* The pass begins with the call for the root.
LEMMA StartPasses ==
  ASSUME NEW t, NEW ns, NEW ps, NEW r, NEW pm, NEW call,
         Valued(t, ns, ps), Linked(ns, ps), Len(ps) \in Nat, \A n \in 1..Len(ns) : ns[n].compatible = << >>, pm = << >>,
         call.node = r, call.address_cells = DEFAULT_ADDRESS_CELLS,
         call.size_cells = DEFAULT_SIZE_CELLS
  PROVE  Passes({}, t, ns, ps, r, pm, <<call>>, NoVisit)
<1>1. Len(<<call>>) = 1 /\ <<call>>[1] = call
  OBVIOUS
<1>2. \A i \in 1..Len(<<call>>) : i = 1
  BY <1>1
<1>3. Waiting(<<call>>) = {r}
  <2>1. 1 \in 1..Len(<<call>>)
    BY <1>1
  <2> QED
    BY <2>1, <1>1, <1>2 DEF Waiting
<1>4. Done({}, NoVisit) = {}
  BY DEF Done
<1>5. Reaches(ns, r, {}, <<call>>, NoVisit)
  BY <1>2, <1>3, <1>4, NotVisiting DEF Reaches, NULL
<1>6. CellsPassed(t, ns, r, {}, <<call>>)
  BY <1>1, <1>2 DEF CellsPassed, CellsOf
<1>7. \A n : ReadOf(ns, ps, {}, NoVisit, n) = {}
  BY DEF ReadOf
<1>8. ToSet(pm) = {}
  BY DEF ToSet
<1>9. Applied(ns, ps, {}, NoVisit, pm)
  BY <1>7, <1>8, NotVisiting DEF Applied, TakenFrom, NULL
<1>10. ASSUME NEW n \in 1..Len(ns), NEW k \in Own(ns, ps, n)
       PROVE  \E d : Holds(t, ns, ps, {}, n, k, d)
  <2>1. ValuesOf(t, n, ps[k].name) = {ps[k].value}
    BY DEF Valued
  <2>2. k \in 1..Len(ps)
    BY OwnBounds
  <2>3. Sane(ps[k])
    BY <2>2 DEF Valued
  <2>4. Holds(t, ns, ps, {}, n, k, ps[k].value)
    BY <2>1, <2>3 DEF Holds, Sane
  <2> QED
    BY <2>4
<1>11. Held(t, ns, ps, Done({}, NoVisit))
  BY <1>4, <1>10 DEF Held
<1> QED
  BY <1>5, <1>6, <1>9, <1>11 DEF Passes

\* What waits, one by one.
LEMMA WaitingSplits ==
  ASSUME NEW S, NEW td \in Seq(S), td # << >>,
         \A i, j \in 1..Len(td) : td[i].node = td[j].node => i = j
  PROVE  /\ Head(td).node \in Waiting(td) /\ Head(td).node \notin Waiting(Tail(td))
         /\ Waiting(td) = {Head(td).node} \union Waiting(Tail(td))
         /\ \A i, j \in 1..Len(Tail(td)) : Tail(td)[i].node = Tail(td)[j].node => i = j
         /\ 1 \in 1..Len(td) /\ td[1] = Head(td)
         /\ \A i \in 1..Len(Tail(td)) : i + 1 \in 1..Len(td) /\ Tail(td)[i] = td[i + 1]
<1>1. PICK L \in Nat : L = Len(td) /\ L > 0
  BY EmptySeq, LenProperties
<1>2. Head(td) = td[1] /\ 1 \in 1..L
  BY <1>1, HeadTailProperties
<1>3. Len(Tail(td)) = L - 1 /\ \A i \in 1..(L - 1) : Tail(td)[i] = td[i + 1]
  BY <1>1, HeadTailProperties
<1>4. \A i \in 1..(L - 1) : i + 1 \in 1..L /\ i + 1 # 1
  BY <1>1
<1>5. \A i \in 1..L : i = 1 \/ (i - 1 \in 1..(L - 1) /\ (i - 1) + 1 = i)
  BY <1>1
<1>6. \A i, j \in 1..L : td[i].node = td[j].node => i = j
  BY <1>1
<1>7. Waiting(td) = {td[i].node : i \in 1..L} /\ Waiting(Tail(td)) = {td[i + 1].node : i \in 1..(L - 1)}
  BY <1>1, <1>3 DEF Waiting
<1>8. Head(td).node \in Waiting(td) /\ Head(td).node \notin Waiting(Tail(td))
  BY <1>2, <1>4, <1>6, <1>7
<1>9. Waiting(td) = {Head(td).node} \union Waiting(Tail(td))
  <2>1. ASSUME NEW x \in Waiting(td) PROVE x \in {Head(td).node} \union Waiting(Tail(td))
    <3>1. PICK i \in 1..L : x = td[i].node
      BY <2>1, <1>7
    <3>2. CASE i = 1
      BY <3>1, <3>2, <1>2
    <3>3. CASE i # 1
      <4>1. i - 1 \in 1..(L - 1) /\ x = td[(i - 1) + 1].node
        BY <3>1, <3>3, <1>5
      <4> QED
        BY <4>1, <1>7
    <3> QED
      BY <3>2, <3>3
  <2>2. ASSUME NEW x \in Waiting(Tail(td)) PROVE x \in Waiting(td)
    BY <2>2, <1>4, <1>7
  <2> QED
    BY <2>1, <2>2, <1>8
<1>10. ASSUME NEW i \in 1..(L - 1), NEW j \in 1..(L - 1), Tail(td)[i].node = Tail(td)[j].node
       PROVE  i = j
  <2>1. td[i + 1].node = td[j + 1].node /\ i + 1 \in 1..L /\ j + 1 \in 1..L
    BY <1>3, <1>4, <1>10
  <2>2. i + 1 = j + 1
    BY <2>1, <1>6
  <2> QED
    BY <2>2
<1> QED
  BY <1>1, <1>2, <1>3, <1>4, <1>8, <1>9, <1>10

\* What waits is nodes.
LEMMA WaitingNodes ==
  ASSUME NEW N, NEW td \in Seq(Calls(N))
  PROVE  \A m \in Waiting(td) : m \in 1..N
<1>1. \A i \in 1..Len(td) : td[i] \in Calls(N)
  BY ElementOfSeq
<1>2. \A i \in 1..Len(td) : td[i].node \in 1..N
  BY <1>1 DEF Calls
<1> QED
  BY <1>2 DEF Waiting

\* EnterNode: the first call waiting is for the node visited now.
LEMMA EnterPasses ==
  ASSUME NEW t, NEW ns, NEW us, NEW ps, NEW r, NEW pm, NEW td \in Seq(Calls(Len(ns))), td # << >>,
         NEW seen, Passes(seen, t, ns, ps, r, pm, td, NoVisit),
         Len(ns) \in Nat, Len(us) = Len(ns), Linked(ns, ps),
         NEW n \in 1..Len(ns), n = Head(td).node,
         \A m \in 1..Len(ns) : us[m].parent = ns[m].parent /\ us[m].properties = ns[m].properties
                               /\ us[m].compatible = ns[m].compatible,
         \A m \in 1..Len(ns) : m # n => /\ us[m].address_cells = ns[m].address_cells
                                        /\ us[m].size_cells = ns[m].size_cells,
         us[n].address_cells = Head(td).address_cells, us[n].size_cells = Head(td).size_cells,
         NEW v, v.node = n, v.prop = ns[n].properties,
         v.next_address_cells = us[n].address_cells, v.next_size_cells = us[n].size_cells
  PROVE  Passes(seen \union {n}, t, us, ps, r, pm, Tail(td), v)
<1> DEFINE W == Waiting(Tail(td))
           sn == seen \union {n}
<1>1. /\ Reaches(ns, r, seen, td, NoVisit) /\ CellsPassed(t, ns, r, seen, td)
      /\ Applied(ns, ps, seen, NoVisit, pm) /\ Held(t, ns, ps, Done(seen, NoVisit))
  BY DEF Passes
<1>2. /\ \A m \in seen : m \in 1..Len(ns) /\ m \notin Waiting(td)
      /\ \A i, j \in 1..Len(td) : td[i].node = td[j].node => i = j
      /\ r \in seen \union Waiting(td)
      /\ \A m \in 1..Len(ns) : ns[m].parent \in Done(seen, NoVisit) => m \in seen \union Waiting(td)
      /\ \A m \in seen \union Waiting(td) : m = r \/ ns[m].parent \in Done(seen, NoVisit)
  BY <1>1 DEF Reaches
<1>3. /\ Waiting(td) = {n} \union W /\ n \notin W
      /\ \A i, j \in 1..Len(Tail(td)) : Tail(td)[i].node = Tail(td)[j].node => i = j
      /\ 1 \in 1..Len(td) /\ td[1] = Head(td)
      /\ \A i \in 1..Len(Tail(td)) : i + 1 \in 1..Len(td) /\ Tail(td)[i] = td[i + 1]
  BY <1>2, WaitingSplits
<1>4. n \notin seen /\ 0 \notin seen /\ \A m \in seen : m # n /\ m \notin W
  BY <1>2, <1>3
<1>5. Done(sn, v) = seen /\ Done(seen, NoVisit) = seen
  BY <1>4, NotVisiting DEF Done
<1>6. sn \union W = seen \union Waiting(td)
  BY <1>3
<1>7. n # NULL
  BY DEF NULL
<1>8. \A m \in seen \union Waiting(td) : m \in 1..Len(ns)
  BY <1>2, WaitingNodes
<1>9. Reaches(us, r, sn, Tail(td), v)
  <2> HIDE DEF W
  <2>1. \A m \in sn : m \in 1..Len(us) /\ m \notin W
    BY <1>2, <1>3, <1>4
  <2>2. \A m \in 1..Len(us) : us[m].parent \in seen => m \in sn \union W
    BY <1>2, <1>5, <1>6
  <2>3. \A m \in sn \union W : m = r \/ us[m].parent \in seen
    BY <1>2, <1>5, <1>6, <1>8
  <2>4. r \in sn \union W
    BY <1>2, <1>6
  <2> QED
    BY <2>1, <2>2, <2>3, <2>4, <1>3, <1>5 DEF Reaches, W
<1>10. CellsPassed(t, us, r, sn, Tail(td))
  <2>1. ASSUME NEW m \in seen \union Waiting(td), NEW ac, NEW sc, CellsOf(t, ns, r, m, ac, sc)
        PROVE  CellsOf(t, us, r, m, ac, sc)
    <3>1. CASE m = r
      BY <2>1, <3>1 DEF CellsOf
    <3>2. CASE m # r
      <4>1. us[m].parent = ns[m].parent /\ ns[m].parent \in seen
        BY <3>2, <1>2, <1>5, <1>8
      <4>2. ns[m].parent \in 1..Len(ns) /\ ns[m].parent # n
        BY <4>1, <1>2, <1>4
      <4>3. /\ us[ns[m].parent].address_cells = ns[ns[m].parent].address_cells
            /\ us[ns[m].parent].size_cells = ns[ns[m].parent].size_cells
        BY <4>2
      <4> QED
        BY <2>1, <3>2, <4>1, <4>3 DEF CellsOf
    <3> QED
      BY <3>1, <3>2
  <2>2. /\ \A m \in seen : CellsOf(t, ns, r, m, ns[m].address_cells, ns[m].size_cells)
        /\ \A i \in 1..Len(td) : CellsOf(t, ns, r, td[i].node, td[i].address_cells, td[i].size_cells)
    BY <1>1 DEF CellsPassed
  <2>3. ASSUME NEW m \in sn PROVE CellsOf(t, us, r, m, us[m].address_cells, us[m].size_cells)
    <3>1. CASE m = n
      <4>1. CellsOf(t, ns, r, n, us[n].address_cells, us[n].size_cells)
        BY <2>2, <1>3
      <4>2. n \in seen \union Waiting(td)
        BY <1>3
      <4> QED
        BY <4>1, <4>2, <3>1, <2>1
    <3>2. CASE m # n
      <4>1. m \in seen /\ m \in 1..Len(ns)
        BY <3>2, <1>2
      <4>2. CellsOf(t, ns, r, m, us[m].address_cells, us[m].size_cells)
        BY <4>1, <3>2, <2>2
      <4> QED
        BY <4>1, <4>2, <2>1
    <3> QED
      BY <3>1, <3>2
  <2>4. ASSUME NEW i \in 1..Len(Tail(td))
        PROVE  CellsOf(t, us, r, Tail(td)[i].node, Tail(td)[i].address_cells, Tail(td)[i].size_cells)
    <3> DEFINE j == i + 1
    <3>1. j \in 1..Len(td) /\ Tail(td)[i] = td[j]
      BY <1>3
    <3> HIDE DEF j
    <3>2. CellsOf(t, ns, r, td[j].node, td[j].address_cells, td[j].size_cells)
      BY <3>1, <2>2
    <3>3. td[j].node \in seen \union Waiting(td)
      BY <3>1 DEF Waiting
    <3>4. CellsOf(t, us, r, td[j].node, td[j].address_cells, td[j].size_cells)
      BY <3>2, <3>3, <2>1
    <3> QED
      BY <3>1, <3>4
  <2> QED
    BY <2>3, <2>4 DEF CellsPassed
<1>11. \A m \in 1..Len(ns) : Own(us, ps, m) = Own(ns, ps, m)
  BY DEF Own
<1>12. \A m \in 1..Len(ns) : ReadOf(us, ps, sn, v, m) = ReadOf(ns, ps, seen, NoVisit, m)
  <2> SUFFICES ASSUME NEW m \in 1..Len(ns)
               PROVE  ReadOf(us, ps, sn, v, m) = ReadOf(ns, ps, seen, NoVisit, m)
    OBVIOUS
  <2>1. CASE m = n
    <3>1. ReadOf(ns, ps, seen, NoVisit, m) = {}
      BY <2>1, <1>4 DEF ReadOf
    <3>2. ToSet(PropertiesOf(ps)[v.prop]) = Own(us, ps, m)
      BY <2>1, <1>11 DEF Own
    <3>3. ReadOf(us, ps, sn, v, m) = {}
      BY <3>2, <2>1 DEF ReadOf
    <3> QED
      BY <3>1, <3>3
  <2>2. CASE m # n
    <3>1. m # v.node /\ m # NoVisit.node /\ (m \in sn <=> m \in seen)
      BY <2>2, NotVisiting
    <3> QED
      BY <3>1, <1>11 DEF ReadOf
  <2> QED
    BY <2>1, <2>2
<1>13. Applied(us, ps, sn, v, pm)
  <2>1. \A m \in 1..Len(us) :
          TakenFrom(ps, ReadOf(us, ps, sn, v, m), "compatible", us[m].compatible, << >>)
    BY <1>1, <1>12 DEF Applied
  <2>2. \A k \in ToSet(PropertiesOf(ps)[v.prop]) : k \in Own(us, ps, v.node)
    BY DEF Own
  <2>3. ReadOf(us, ps, sn, v, n) = {}
    BY <1>4, <1>12 DEF ReadOf
  <2>4. /\ TakenFrom(ps, ReadOf(us, ps, sn, v, v.node), "#address-cells",
                     v.next_address_cells, us[v.node].address_cells)
        /\ TakenFrom(ps, ReadOf(us, ps, sn, v, v.node), "#size-cells",
                     v.next_size_cells, us[v.node].size_cells)
    BY <2>3 DEF TakenFrom
  <2>5. \A e : e \in ToSet(pm) <=>
          \E m \in 1..Len(us) : \E k \in ReadOf(us, ps, sn, v, m) :
            ps[k].name = "phandle" /\ e = [phandle |-> ps[k].value, node |-> m]
    <3>1. \A e : e \in ToSet(pm) <=>
            \E m \in 1..Len(ns) : \E k \in ReadOf(ns, ps, seen, NoVisit, m) :
              ps[k].name = "phandle" /\ e = [phandle |-> ps[k].value, node |-> m]
      BY <1>1 DEF Applied
    <3> DEFINE A(m) == ReadOf(us, ps, sn, v, m)
               B(m) == ReadOf(ns, ps, seen, NoVisit, m)
               is(e, m, k) == ps[k].name = "phandle" /\ e = [phandle |-> ps[k].value, node |-> m]
    <3>2. \A m \in 1..Len(us) : A(m) = B(m)
      BY <1>12
    <3>3. \A e : e \in ToSet(pm) <=> \E m \in 1..Len(us) : \E k \in B(m) : is(e, m, k)
      BY <3>1
    <3> HIDE DEF A, B, is
    <3>4. \A e : e \in ToSet(pm) <=> \E m \in 1..Len(us) : \E k \in A(m) : is(e, m, k)
      BY <3>2, <3>3
    <3> QED
      BY <3>4 DEF A, is
  <2> HIDE DEF sn
  <2> QED
    BY <2>1, <2>2, <2>4, <2>5 DEF Applied
<1>14. Held(t, us, ps, Done(sn, v))
  <2> SUFFICES ASSUME NEW m \in 1..Len(ns), NEW k \in Own(ns, ps, m)
               PROVE  \E d : Holds(t, us, ps, seen, m, k, d)
    BY <1>5, <1>11 DEF Held
  <2>1. PICK d : Holds(t, ns, ps, seen, m, k, d)
    BY <1>1, <1>5 DEF Held
  <2>2. m \in seen => us[m].address_cells = ns[m].address_cells /\ us[m].size_cells = ns[m].size_cells
    BY <1>4
  <2>3. Holds(t, us, ps, seen, m, k, d)
    BY <2>1, <2>2 DEF Holds
  <2> QED
    BY <2>3
<1> QED
  BY <1>9, <1>10, <1>13, <1>14 DEF Passes

\* One more property has been read.
LEMMA TakenStep ==
  ASSUME NEW ps, NEW qs, NEW read, NEW k,
         \A j \in read \union {k} : qs[j].name = ps[j].name /\ qs[j].value = ps[j].value,
         \A j \in read : ps[j].name = ps[k].name => j = k,
         NEW name, NEW x, NEW default, TakenFrom(ps, read, name, x, default)
  PROVE  TakenFrom(qs, read \union {k}, name,
                   IF ps[k].name = name THEN ps[k].value ELSE x, default)
BY DEF TakenFrom

\* The same properties have been read.
LEMMA TakenSame ==
  ASSUME NEW ps, NEW qs, NEW read,
         \A j \in read : qs[j].name = ps[j].name /\ qs[j].value = ps[j].value,
         NEW name, NEW x, NEW default, TakenFrom(ps, read, name, x, default)
  PROVE  TakenFrom(qs, read, name, x, default)
BY DEF TakenFrom

\* ReadProperty: the first property left is the one read, the others are left.
LEMMA LeftSplits ==
  ASSUME NEW ps, Len(ps) \in Nat, \A j \in 1..Len(ps) : ps[j].next_prop \in 0..(j - 1),
         NEW k \in 1..Len(ps)
  PROVE  /\ ToSet(PropertiesOf(ps)[k]) = {k} \union ToSet(PropertiesOf(ps)[ps[k].next_prop])
         /\ k \notin ToSet(PropertiesOf(ps)[ps[k].next_prop])
<1>1. Descends(PropertyLinks(ps), Len(ps)) /\ IsList(PropertyLinks(ps), Len(ps), PropertiesOf(ps))
  BY PropertiesAreLists
<1>2. \A x \in 0..Len(ps) : x # 0 =>
        ToSet(PropertiesOf(ps)[x]) = {x} \union ToSet(PropertiesOf(ps)[PropertyLinks(ps)[x]])
  <2> DEFINE f == PropertiesOf(ps)  next == PropertyLinks(ps)  N == Len(ps)
  <2>1. Descends(next, N) /\ IsList(next, N, f)
    BY <1>1
  <2> HIDE DEF f, next, N
  <2>2. \A x \in 0..N :
           /\ f[x] \in Seq(1..N)
           /\ \A e \in ToSet(f[x]) : e \in 1..x
           /\ IsFiniteSet(ToSet(f[x]))
           /\ Cardinality(ToSet(f[x])) = Len(f[x])
           /\ x # 0 => ToSet(f[x]) = {x} \union ToSet(f[next[x]])
    BY <2>1, ListElements
  <2> QED
    BY <2>2 DEF f, next, N
<1>3. k \in 0..Len(ps) /\ k # 0 /\ ps[k].next_prop \in 0..(k - 1) /\ ps[k].next_prop \in 0..Len(ps)
  OBVIOUS
<1>4. PropertyLinks(ps)[k] = ps[k].next_prop
  BY DEF PropertyLinks
<1>5. \A m \in ToSet(PropertiesOf(ps)[ps[k].next_prop]) : m \in 1..ps[k].next_prop
  BY <1>3, PropertiesHold
<1>6. k \notin 1..ps[k].next_prop
  BY <1>3
<1> QED
  BY <1>2, <1>3, <1>4, <1>5, <1>6

\* Neither the reach nor the cells change with other fields of the nodes.
LEMMA SameReach ==
  ASSUME NEW t, NEW ns, NEW us, NEW r, NEW seen, NEW td, NEW v, NEW w, w.node = v.node,
         \A m \in Waiting(td) : m \in 1..Len(ns),
         Reaches(ns, r, seen, td, v), CellsPassed(t, ns, r, seen, td), SameTree(ns, us),
         \A m \in 1..Len(ns) : us[m].address_cells = ns[m].address_cells
                               /\ us[m].size_cells = ns[m].size_cells
  PROVE  Reaches(us, r, seen, td, w) /\ CellsPassed(t, us, r, seen, td)
<1>1. Len(us) = Len(ns) /\ \A m \in 1..Len(ns) : us[m].parent = ns[m].parent
  BY DEF SameTree
<1>2. /\ \A m \in seen : m \in 1..Len(ns) /\ m \notin Waiting(td)
      /\ \A i, j \in 1..Len(td) : td[i].node = td[j].node => i = j
      /\ r \in seen \union Waiting(td)
      /\ v.node # NULL => v.node \in seen
      /\ \A m \in 1..Len(ns) : ns[m].parent \in Done(seen, v) => m \in seen \union Waiting(td)
      /\ \A m \in seen \union Waiting(td) : m = r \/ ns[m].parent \in Done(seen, v)
  BY DEF Reaches
<1>3. Done(seen, w) = Done(seen, v) /\ \A m \in Done(seen, v) : m \in seen
  BY DEF Done
<1>4. Reaches(us, r, seen, td, w)
  <2>1. \A m \in seen \union Waiting(td) : m = r \/ us[m].parent \in Done(seen, v)
    BY <1>1, <1>2
  <2>2. \A m \in 1..Len(us) : us[m].parent \in Done(seen, v) => m \in seen \union Waiting(td)
    BY <1>1, <1>2
  <2> QED
    BY <2>1, <2>2, <1>1, <1>2, <1>3 DEF Reaches
<1>5. ASSUME NEW m \in seen \union Waiting(td), NEW ac, NEW sc, CellsOf(t, ns, r, m, ac, sc)
      PROVE  CellsOf(t, us, r, m, ac, sc)
  <2>1. CASE m = r
    BY <1>5, <2>1 DEF CellsOf
  <2>2. CASE m # r
    <3>1. us[m].parent = ns[m].parent /\ ns[m].parent \in 1..Len(ns)
      BY <2>2, <1>1, <1>2, <1>3
    <3>2. /\ us[ns[m].parent].address_cells = ns[ns[m].parent].address_cells
          /\ us[ns[m].parent].size_cells = ns[ns[m].parent].size_cells
      BY <3>1
    <3> QED
      BY <1>5, <2>2, <3>1, <3>2 DEF CellsOf
  <2> QED
    BY <2>1, <2>2
<1>6. CellsPassed(t, us, r, seen, td)
  <2>1. /\ \A m \in seen : CellsOf(t, ns, r, m, ns[m].address_cells, ns[m].size_cells)
        /\ \A i \in 1..Len(td) : CellsOf(t, ns, r, td[i].node, td[i].address_cells, td[i].size_cells)
    BY DEF CellsPassed
  <2>2. ASSUME NEW m \in seen PROVE CellsOf(t, us, r, m, us[m].address_cells, us[m].size_cells)
    <3>1. CellsOf(t, ns, r, m, us[m].address_cells, us[m].size_cells)
      BY <2>1, <1>2
    <3> QED
      BY <3>1, <1>5
  <2>3. ASSUME NEW i \in 1..Len(td)
        PROVE  CellsOf(t, us, r, td[i].node, td[i].address_cells, td[i].size_cells)
    <3>1. td[i].node \in seen \union Waiting(td)
      BY DEF Waiting
    <3> QED
      BY <3>1, <2>1, <1>5
  <2> QED
    BY <2>2, <2>3 DEF CellsPassed
<1> QED
  BY <1>4, <1>6

\* ReadProperty: one more property of the node visited is read.
LEMMA ReadPasses ==
  ASSUME NEW t, NEW ns, NEW us, NEW ps, NEW qs, NEW r, NEW pm, NEW pn, NEW td, NEW v, NEW w, NEW seen,
         Passes(seen, t, ns, ps, r, pm, td, v), NamesDiffer(ns, ps), OwnApart(ns, ps),
         Linked(ns, ps), SameTree(ns, us), SameProps(ps, qs), \A m \in Waiting(td) : m \in 1..Len(ns),
         \A m \in 1..Len(ns) : us[m].properties = ns[m].properties
                               /\ us[m].address_cells = ns[m].address_cells
                               /\ us[m].size_cells = ns[m].size_cells,
         NEW k \in 1..Len(ps), k = v.prop, v.node \in 1..Len(ns),
         \A j \in 1..Len(ps) : qs[j].value = ps[j].value /\ (j # k => qs[j] = ps[j]),
         w.node = v.node, w.prop = ps[k].next_prop,
         \A m \in 1..Len(ns) : us[m].compatible =
           IF m = v.node /\ ps[k].name = "compatible" THEN ps[k].value ELSE ns[m].compatible,
         w.next_address_cells =
           IF ps[k].name = "#address-cells" THEN ps[k].value ELSE v.next_address_cells,
         w.next_size_cells =
           IF ps[k].name = "#size-cells" THEN ps[k].value ELSE v.next_size_cells,
         \A e : e \in ToSet(pn) <=> \/ e \in ToSet(pm)
                                    \/ /\ ps[k].name = "phandle"
                                       /\ e = [phandle |-> ps[k].value, node |-> v.node]
  PROVE  Passes(seen, t, us, qs, r, pn, td, w)
<1> DEFINE n == v.node
           L(x) == ToSet(PropertiesOf(ps)[x])
           A(m) == ReadOf(ns, ps, seen, v, m)
           B(m) == ReadOf(us, qs, seen, w, m)
<1>1. /\ Reaches(ns, r, seen, td, v) /\ CellsPassed(t, ns, r, seen, td)
      /\ Applied(ns, ps, seen, v, pm) /\ Held(t, ns, ps, Done(seen, v))
  BY DEF Passes
<1>2. /\ Len(ns) \in Nat /\ Len(us) = Len(ns) /\ Len(ps) \in Nat /\ Len(qs) = Len(ps)
      /\ \A j \in 1..Len(ps) : qs[j].name = ps[j].name
  BY DEF SameTree, SameProps
<1>3. /\ \A x \in 0..Len(ps) : PropertiesOf(qs)[x] = PropertiesOf(ps)[x]
      /\ \A m \in 1..Len(ns) : Own(us, qs, m) = Own(ns, ps, m)
  BY SameOwn
<1>4. L(k) = {k} \union L(ps[k].next_prop) /\ k \notin L(ps[k].next_prop)
  <2>1. \A j \in 1..Len(ps) : ps[j].next_prop \in 0..(j - 1)
    BY DEF Linked
  <2>2. Len(ps) \in Nat /\ k \in 1..Len(ps)
    BY <1>2
  <2>3. \A j \in 1..Len(ps) :
          /\ ToSet(PropertiesOf(ps)[j]) = {j} \union ToSet(PropertiesOf(ps)[ps[j].next_prop])
          /\ j \notin ToSet(PropertiesOf(ps)[ps[j].next_prop])
    BY <2>1, <2>2, LeftSplits
  <2> QED
    BY <2>2, <2>3
<1>5. n # NULL /\ n \in seen /\ Done(seen, w) = Done(seen, v) /\ n \notin Done(seen, v)
  BY <1>1 DEF Reaches, NULL, Done
<1>6. \A j \in L(k) : j \in Own(ns, ps, n)
  BY <1>1, <1>5 DEF Applied
<1>7. \A m \in 1..Len(ns) : \A j \in Own(ns, ps, m) : j \in 1..Len(ps)
  BY <1>2, OwnBounds
<1>8. L(w.prop) = ToSet(PropertiesOf(qs)[w.prop]) /\ L(w.prop) = L(ps[k].next_prop)
  <2>1. ps[k].next_prop \in 0..(k - 1)
    BY DEF Linked
  <2>2. ps[k].next_prop \in 0..Len(ps)
    BY <2>1, <1>2
  <2> QED
    BY <2>2, <1>3
<1>9. k \in Own(ns, ps, n) /\ k \notin A(n)
  BY <1>4, <1>6 DEF ReadOf
<1>10. B(n) = A(n) \union {k}
  <2>1. B(n) = {j \in Own(ns, ps, n) : j \notin L(ps[k].next_prop)}
    BY <1>3, <1>5, <1>8 DEF ReadOf
  <2>2. A(n) = {j \in Own(ns, ps, n) : j \notin L(k)}
    BY <1>5 DEF ReadOf
  <2> HIDE DEF A, B, L
  <2> QED
    BY <2>1, <2>2, <1>4, <1>9
<1>11. \A m \in 1..Len(ns) : m # n => B(m) = A(m)
  BY <1>3 DEF ReadOf
<1>13. Reaches(us, r, seen, td, w) /\ CellsPassed(t, us, r, seen, td)
  BY <1>1, SameReach
<1>14. \A m \in 1..Len(ns) : \A j \in A(m) : j \in Own(ns, ps, m)
  BY DEF ReadOf
<1>15. /\ \A j \in A(n) \union {k} : qs[j].name = ps[j].name /\ qs[j].value = ps[j].value
       /\ \A j \in A(n) : ps[j].name = ps[k].name => j = k
  <2>1. \A j \in A(n) \union {k} : j \in Own(ns, ps, n) /\ j \in 1..Len(ps)
    BY <1>7, <1>9, <1>14
  <2> QED
    BY <2>1, <1>2, <1>9 DEF NamesDiffer
<1>16. \A m \in 1..Len(ns) : \A j \in A(m) : qs[j].name = ps[j].name /\ qs[j].value = ps[j].value
  <2>1. \A m \in 1..Len(ns) : \A j \in A(m) : j \in 1..Len(ps)
    BY <1>7, <1>14
  <2> QED
    BY <2>1, <1>2
<1> HIDE DEF A, B, L
<1>17. ASSUME NEW m \in 1..Len(ns)
       PROVE  TakenFrom(qs, B(m), "compatible", us[m].compatible, << >>)
  <2>1. TakenFrom(ps, A(m), "compatible", ns[m].compatible, << >>)
    BY <1>1 DEF Applied, A
  <2>2. CASE m = n
    <3>1. TakenFrom(qs, A(n) \union {k}, "compatible",
                    IF ps[k].name = "compatible" THEN ps[k].value ELSE ns[n].compatible, << >>)
      BY <2>1, <2>2, <1>15, TakenStep, ZenonT(60)
    <3> QED
      BY <3>1, <2>2, <1>10
  <2>3. CASE m # n
    <3>1. TakenFrom(qs, A(m), "compatible", ns[m].compatible, << >>)
      BY <2>1, <1>16, TakenSame
    <3> QED
      BY <3>1, <2>3, <1>11
  <2> QED
    BY <2>2, <2>3
<1>18. TakenFrom(qs, B(n), "#address-cells", w.next_address_cells, us[n].address_cells)
  <2>1. TakenFrom(ps, A(n), "#address-cells", v.next_address_cells, ns[n].address_cells)
    BY <1>1, <1>5 DEF Applied, A
  <2>2. TakenFrom(qs, A(n) \union {k}, "#address-cells",
                  IF ps[k].name = "#address-cells" THEN ps[k].value ELSE v.next_address_cells,
                  ns[n].address_cells)
    BY <2>1, <1>15, TakenStep
  <2> QED
    BY <2>2, <1>10
<1>19. TakenFrom(qs, B(n), "#size-cells", w.next_size_cells, us[n].size_cells)
  <2>1. TakenFrom(ps, A(n), "#size-cells", v.next_size_cells, ns[n].size_cells)
    BY <1>1, <1>5 DEF Applied, A
  <2>2. TakenFrom(qs, A(n) \union {k}, "#size-cells",
                  IF ps[k].name = "#size-cells" THEN ps[k].value ELSE v.next_size_cells,
                  ns[n].size_cells)
    BY <2>1, <1>15, TakenStep
  <2> QED
    BY <2>2, <1>10
<1>20. \A e : e \in ToSet(pn) <=>
         \E m \in 1..Len(us) : \E j \in B(m) :
           qs[j].name = "phandle" /\ e = [phandle |-> qs[j].value, node |-> m]
  <2> DEFINE is(e, m, j) == ps[j].name = "phandle" /\ e = [phandle |-> ps[j].value, node |-> m]
             iq(e, m, j) == qs[j].name = "phandle" /\ e = [phandle |-> qs[j].value, node |-> m]
  <2>1. \A e : e \in ToSet(pm) <=> \E m \in 1..Len(ns) : \E j \in A(m) : is(e, m, j)
    BY <1>1 DEF Applied, A
  <2>2. \A e : e \in ToSet(pn) <=> e \in ToSet(pm) \/ is(e, n, k)
    OBVIOUS
  <2>3. /\ \A e : \A m \in 1..Len(ns) : \A j \in A(m) : iq(e, m, j) <=> is(e, m, j)
        /\ \A e : iq(e, n, k) <=> is(e, n, k)
    BY <1>15, <1>16
  <2>4. n \in 1..Len(ns)
    OBVIOUS
  <2> HIDE DEF is, iq, n
  <2>5. ASSUME NEW e, e \in ToSet(pn) PROVE \E m \in 1..Len(ns) : \E j \in B(m) : iq(e, m, j)
    <3>1. CASE is(e, n, k)
      BY <3>1, <2>3, <2>4, <1>10
    <3>2. CASE e \in ToSet(pm)
      <4>1. PICK m \in 1..Len(ns) : \E j \in A(m) : is(e, m, j)
        BY <3>2, <2>1
      <4>2. PICK j \in A(m) : is(e, m, j)
        BY <4>1
      <4>3. j \in B(m) /\ iq(e, m, j)
        BY <4>2, <2>3, <1>10, <1>11
      <4> QED
        BY <4>3
    <3> QED
      BY <3>1, <3>2, <2>2, <2>5
  <2>6. ASSUME NEW e, NEW m \in 1..Len(ns), NEW j \in B(m), iq(e, m, j) PROVE e \in ToSet(pn)
    <3>1. CASE m = n /\ j = k
      BY <3>1, <2>2, <2>3, <2>6
    <3>2. CASE ~(m = n /\ j = k)
      <4>1. j \in A(m)
        BY <3>2, <2>6, <1>10, <1>11
      <4> QED
        BY <4>1, <2>1, <2>2, <2>3, <2>6
    <3> QED
      BY <3>1, <3>2
  <2>7. \A e : e \in ToSet(pn) <=> \E m \in 1..Len(ns) : \E j \in B(m) : iq(e, m, j)
    BY <2>5, <2>6
  <2> QED
    BY <2>7, <1>2 DEF iq
<1>21. \A j \in ToSet(PropertiesOf(qs)[w.prop]) : j \in Own(us, qs, w.node)
  BY <1>3, <1>4, <1>6, <1>8
<1>22. Applied(us, qs, seen, w, pn)
  BY <1>2, <1>17, <1>18, <1>19, <1>20, <1>21 DEF Applied, B
<1>23. Held(t, us, qs, Done(seen, w))
  <2> SUFFICES ASSUME NEW m \in 1..Len(ns), NEW j \in Own(ns, ps, m)
               PROVE  \E d : Holds(t, us, qs, Done(seen, v), m, j, d)
    BY <1>2, <1>3, <1>5 DEF Held
  <2>1. PICK d : Holds(t, ns, ps, Done(seen, v), m, j, d)
    BY <1>1 DEF Held
  <2>2. j \in 1..Len(ps)
    BY <1>7
  <2>3. qs[j].name = ps[j].name /\ qs[j].value = ps[j].value
    BY <2>2, <1>2
  <2>4. m \in Done(seen, v) => qs[j] = ps[j]
    <3>1. m \in Done(seen, v) => j # k
      BY <1>5, <1>9 DEF OwnApart
    <3> QED
      BY <3>1, <2>2
  <2>5. us[m].address_cells = ns[m].address_cells /\ us[m].size_cells = ns[m].size_cells
    OBVIOUS
  <2>6. Holds(t, us, qs, Done(seen, v), m, j, d)
    BY <2>1, <2>3, <2>4, <2>5 DEF Holds
  <2> QED
    BY <2>6
<1> QED
  BY <1>13, <1>22, <1>23 DEF Passes

\* The properties a node declares, by the values it holds.
LEMMA HoldsName ==
  ASSUME NEW t, NEW ns, NEW ps, NEW done, Held(t, ns, ps, done), PropertiesListed(t, ns, ps),
         NEW n \in 1..Len(ns), NEW name
  PROVE  /\ ValuesOf(t, n, name) = {} <=> \A k \in Own(ns, ps, n) : ps[k].name # name
         /\ \A k \in Own(ns, ps, n) : ps[k].name = name /\ name # "reg" =>
              ValuesOf(t, n, name) = {ps[k].value}
<1>1. \A k \in Own(ns, ps, n) : \E d : Holds(t, ns, ps, done, n, k, d)
  BY DEF Held
<1>2. ASSUME NEW k \in Own(ns, ps, n), ps[k].name = name
      PROVE  /\ ValuesOf(t, n, name) # {}
             /\ name # "reg" => ValuesOf(t, n, name) = {ps[k].value}
  <2>1. PICK d : Holds(t, ns, ps, done, n, k, d)
    BY <1>1
  <2> QED
    BY <2>1, <1>2 DEF Holds
<1>3. ASSUME ValuesOf(t, n, name) # {} PROVE \E k \in Own(ns, ps, n) : ps[k].name = name
  <2>1. \E j \in DeclaredOf(t, n) : t[j].name = name
    BY <1>3 DEF ValuesOf
  <2>2. name \in NamesDeclared(t, n)
    BY <2>1 DEF NamesDeclared
  <2>3. name \in NamesListed(ns, ps, n)
    BY <2>2 DEF PropertiesListed
  <2>4. NamesListed(ns, ps, n) = {ps[k].name : k \in Own(ns, ps, n)}
    BY NamesOfList DEF Own
  <2> QED
    BY <2>3, <2>4
<1> QED
  BY <1>2, <1>3

\* A node passes on the value of its property, or what it was passed itself.
LEMMA TakenIsPassed ==
  ASSUME NEW t, NEW ns, NEW ps, NEW done, Held(t, ns, ps, done), PropertiesListed(t, ns, ps),
         NEW n \in 1..Len(ns), NEW name, name # "reg", NEW x, NEW own,
         TakenFrom(ps, Own(ns, ps, n), name, x, own)
  PROVE  x = PassedOn(t, n, name, own)
<1>1. /\ ValuesOf(t, n, name) = {} <=> \A k \in Own(ns, ps, n) : ps[k].name # name
      /\ \A k \in Own(ns, ps, n) : ps[k].name = name /\ name # "reg" =>
           ValuesOf(t, n, name) = {ps[k].value}
  BY HoldsName
<1>2. CASE ValuesOf(t, n, name) = {}
  BY <1>1, <1>2 DEF TakenFrom, PassedOn
<1>3. CASE ValuesOf(t, n, name) # {}
  <2>1. PICK k \in Own(ns, ps, n) : ps[k].name = name
    BY <1>1, <1>3
  <2>2. ValuesOf(t, n, name) = {ps[k].value} /\ x = ps[k].value
    BY <2>1, <1>1 DEF TakenFrom
  <2> QED
    BY <2>2, <1>3 DEF PassedOn
<1> QED
  BY <1>2, <1>3

\* tf: the calls made for children, in front of td.
InFront(td, made, children, tf) ==
  /\ Waiting(tf) = ToSet(children) \union Waiting(td)
  /\ \A i, j \in 1..Len(tf) : tf[i].node = tf[j].node => i = j
  /\ \A i \in 1..Len(tf) : \/ \E j \in 1..Len(td) : i = j + Len(made) /\ tf[i] = td[j]
                           \/ i \in 1..Len(made) /\ tf[i] = made[i]

\* Calls put in front of those that wait.
LEMMA FrontWaits ==
  ASSUME NEW S, NEW td \in Seq(S), NEW made \in Seq(S), NEW N, NEW children \in Seq(N),
         Len(made) = Len(children), \A i \in 1..Len(children) : made[i].node = children[i],
         \A i, j \in 1..Len(children) : children[i] = children[j] => i = j,
         \A i, j \in 1..Len(td) : td[i].node = td[j].node => i = j,
         \A m \in ToSet(children) : m \notin Waiting(td)
  PROVE  InFront(td, made, children, made \o td)
<1>1. PICK L \in Nat : L = Len(children) /\ DOMAIN children = 1..L
  BY LenProperties
<1>2. PICK M \in Nat : M = Len(td)
  BY LenProperties
<1>3. Len(made) = L /\ \A i \in 1..L : made[i].node = children[i]
  BY <1>1
<1> DEFINE tf == made \o td
<1>4. Len(tf) = L + M /\ \A i \in 1..(L + M) : tf[i] = IF i <= L THEN made[i] ELSE td[i - L]
  <2>1. /\ Len(tf) = Len(made) + Len(td)
        /\ \A i \in 1..(Len(made) + Len(td)) :
             tf[i] = IF i <= Len(made) THEN made[i] ELSE td[i - Len(made)]
    BY ConcatProperties
  <2> QED
    BY <2>1, <1>2, <1>3
<1> HIDE DEF tf
<1>5. \A i \in 1..L : i \in 1..(L + M) /\ tf[i] = made[i] /\ tf[i].node = children[i]
  BY <1>3, <1>4
<1>6. \A j \in 1..M : j + L \in 1..(L + M) /\ tf[j + L] = td[j]
  BY <1>4
<1>7. \A i \in 1..(L + M) : i \in 1..L \/ (i - L \in 1..M /\ (i - L) + L = i)
  OBVIOUS
<1>8. \A i \in 1..L : children[i] \in ToSet(children)
  BY <1>1 DEF ToSet
<1>9. \A m \in ToSet(children) : \E i \in 1..L : m = children[i]
  BY <1>1 DEF ToSet
<1>10. \A j \in 1..M : td[j].node \in Waiting(td)
  BY <1>2 DEF Waiting
<1>11. Waiting(tf) = ToSet(children) \union Waiting(td)
  <2>1. ASSUME NEW x \in Waiting(tf) PROVE x \in ToSet(children) \union Waiting(td)
    <3>1. PICK i \in 1..(L + M) : x = tf[i].node
      BY <2>1, <1>4 DEF Waiting
    <3>2. CASE i \in 1..L
      BY <3>1, <3>2, <1>5, <1>8
    <3>3. CASE i \notin 1..L
      <4>1. i - L \in 1..M /\ tf[i] = td[i - L]
        BY <3>3, <1>6, <1>7
      <4> QED
        BY <4>1, <3>1, <1>10
    <3> QED
      BY <3>2, <3>3
  <2>2. ASSUME NEW x \in ToSet(children) PROVE x \in Waiting(tf)
    <3>1. PICK i \in 1..L : x = children[i]
      BY <2>2, <1>9
    <3>2. i \in 1..Len(tf) /\ tf[i].node = x
      BY <3>1, <1>4, <1>5
    <3> QED
      BY <3>2 DEF Waiting
  <2>3. ASSUME NEW x \in Waiting(td) PROVE x \in Waiting(tf)
    <3>1. PICK j \in 1..M : x = td[j].node
      BY <2>3, <1>2 DEF Waiting
    <3> DEFINE i == j + L
    <3>2. i \in 1..Len(tf) /\ tf[i].node = x
      BY <3>1, <1>4, <1>6
    <3> HIDE DEF i
    <3> QED
      BY <3>2 DEF Waiting
  <2> QED
    BY <2>1, <2>2, <2>3
<1>12. ASSUME NEW i \in 1..(L + M), NEW j \in 1..(L + M), tf[i].node = tf[j].node PROVE i = j
  <2>1. CASE i \in 1..L /\ j \in 1..L
    BY <2>1, <1>1, <1>5, <1>12
  <2>2. CASE i \in 1..L /\ j \notin 1..L
    <3>1. j - L \in 1..M /\ tf[j] = td[j - L]
      BY <2>2, <1>6, <1>7
    <3> QED
      BY <3>1, <2>2, <1>5, <1>8, <1>10, <1>12
  <2>3. CASE i \notin 1..L /\ j \in 1..L
    <3>1. i - L \in 1..M /\ tf[i] = td[i - L]
      BY <2>3, <1>6, <1>7
    <3> QED
      BY <3>1, <2>3, <1>5, <1>8, <1>10, <1>12
  <2>4. CASE i \notin 1..L /\ j \notin 1..L
    <3>1. i - L \in 1..Len(td) /\ tf[i] = td[i - L] /\ j - L \in 1..Len(td) /\ tf[j] = td[j - L]
      BY <2>4, <1>2, <1>6, <1>7
    <3>2. i - L = j - L
      BY <3>1, <1>12
    <3> QED
      BY <3>2
  <2> QED
    BY <2>1, <2>2, <2>3, <2>4
<1>13. ASSUME NEW i \in 1..(L + M)
       PROVE  \/ \E j \in 1..Len(td) : i = j + Len(made) /\ tf[i] = td[j]
              \/ i \in 1..Len(made) /\ tf[i] = made[i]
  <2>1. CASE i \in 1..L
    BY <2>1, <1>3, <1>5
  <2>2. CASE i \notin 1..L
    <3>1. i - L \in 1..Len(td) /\ tf[i] = td[i - L] /\ i = (i - L) + Len(made)
      BY <2>2, <1>2, <1>3, <1>6, <1>7
    <3> QED
      BY <3>1
  <2> QED
    BY <2>1, <2>2
<1>14. InFront(td, made, children, tf)
  <2>1. \A i, j \in 1..Len(tf) : tf[i].node = tf[j].node => i = j
    BY <1>4, <1>12
  <2>2. \A i \in 1..Len(tf) : \/ \E j \in 1..Len(td) : i = j + Len(made) /\ tf[i] = td[j]
                              \/ i \in 1..Len(made) /\ tf[i] = made[i]
    BY <1>4, <1>13
  <2> QED
    BY <2>1, <2>2, <1>11, Zenon DEF InFront
<1> QED
  BY <1>14 DEF tf

\* made are the calls for children, of which none waits yet.
CallsMade(N, td, children, ac, sc, made) ==
  /\ N \in Nat /\ td \in Seq(Calls(N)) /\ children \in Seq(1..N) /\ made \in Seq(Calls(N))
  /\ Len(made) = Len(children)
  /\ \A i \in 1..Len(children) : made[i] = Call(children[i], ac, sc)
  /\ \A i, j \in 1..Len(children) : children[i] = children[j] => i = j
  /\ \A i, j \in 1..Len(td) : td[i].node = td[j].node => i = j
  /\ \A m \in ToSet(children) : m \notin Waiting(td)

\* tf are the calls of td and those for the nodes below, one for each node.
Joined(td, tf, below, ac, sc) ==
  /\ Waiting(tf) = below \union Waiting(td)
  /\ \A i, j \in 1..Len(tf) : tf[i].node = tf[j].node => i = j
  /\ \A i \in 1..Len(tf) : \/ \E j \in 1..Len(td) : tf[i] = td[j]
                           \/ \E m \in below : tf[i] = Call(m, ac, sc)

\* The calls for the children, in front of those that wait.
LEMMA ChildrenWait ==
  ASSUME NEW N, NEW td, NEW children, NEW ac, NEW sc, NEW made,
         CallsMade(N, td, children, ac, sc, made)
  PROVE  Joined(td, made \o td, ToSet(children), ac, sc)
<1> DEFINE tf == made \o td
<1>1. /\ td \in Seq(Calls(N)) /\ children \in Seq(1..N) /\ made \in Seq(Calls(N))
      /\ Len(made) = Len(children)
      /\ \A i \in 1..Len(children) : made[i] = Call(children[i], ac, sc)
      /\ \A i, j \in 1..Len(children) : children[i] = children[j] => i = j
      /\ \A i, j \in 1..Len(td) : td[i].node = td[j].node => i = j
      /\ \A m \in ToSet(children) : m \notin Waiting(td)
  BY DEF CallsMade
<1>2. \A i \in 1..Len(children) : made[i].node = children[i]
  <2>1. \A x : Call(x, ac, sc).node = x
    BY DEF Call
  <2> QED
    BY <2>1, <1>1
<1>3. InFront(td, made, children, tf)
  BY <1>1, <1>2, FrontWaits
<1>4. \A i \in 1..Len(children) : children[i] \in ToSet(children)
  BY <1>1, LenProperties DEF ToSet
<1> HIDE DEF tf
<1>5. ASSUME NEW i \in 1..Len(tf)
      PROVE  \/ \E j \in 1..Len(td) : tf[i] = td[j]
             \/ \E m \in ToSet(children) : tf[i] = Call(m, ac, sc)
  <2>1. CASE \E j \in 1..Len(td) : i = j + Len(made) /\ tf[i] = td[j]
    BY <2>1
  <2>2. CASE i \in 1..Len(made) /\ tf[i] = made[i]
    BY <2>2, <1>1, <1>4
  <2> QED
    BY <2>1, <2>2, <1>3 DEF InFront
<1> QED
  BY <1>3, <1>5 DEF InFront, Joined, tf

\* FinishNode: the node visited is done, reg cut, and its children wait.
LEMMA FinishPasses ==
  ASSUME NEW t, NEW ns, NEW ps, NEW qs, NEW r, NEW pm, NEW td, NEW tf, NEW v, NEW seen,
         Passes(seen, t, ns, ps, r, pm, td, v), NamesDiffer(ns, ps), OwnApart(ns, ps),
         Wired(t, ns, ps, r), ns[r].parent = NULL, SameProps(ps, qs),
         v.node \in 1..Len(ns), v.prop = NULL,
         \A j \in 1..Len(ps) :
           IF j \in Own(ns, ps, v.node) /\ ps[j].name = "reg"
           THEN Cut(ns[v.node].address_cells, ns[v.node].size_cells, qs[j], ps[j].value)
           ELSE qs[j] = ps[j],
         NEW below, \A m : m \in below <=> m \in 1..Len(ns) /\ ns[m].parent = v.node,
         Joined(td, tf, below, v.next_address_cells, v.next_size_cells)
  PROVE  Passes(seen, t, ns, qs, r, pm, tf, NoVisit)
<1> SUFFICES ASSUME Waiting(tf) = below \union Waiting(td),
                    \A i, j \in 1..Len(tf) : tf[i].node = tf[j].node => i = j,
                    \A i \in 1..Len(tf) :
                      \/ \E j \in 1..Len(td) : tf[i] = td[j]
                      \/ \E m \in below : tf[i] = Call(m, v.next_address_cells, v.next_size_cells)
             PROVE  Passes(seen, t, ns, qs, r, pm, tf, NoVisit)
  BY DEF Joined
<1> DEFINE n == v.node
<1>1. /\ Reaches(ns, r, seen, td, v) /\ CellsPassed(t, ns, r, seen, td)
      /\ Applied(ns, ps, seen, v, pm) /\ Held(t, ns, ps, Done(seen, v))
  BY DEF Passes
<1>2. /\ \A m \in seen : m \in 1..Len(ns) /\ m \notin Waiting(td)
      /\ r \in seen \union Waiting(td)
      /\ \A m \in 1..Len(ns) : ns[m].parent \in Done(seen, v) => m \in seen \union Waiting(td)
      /\ \A m \in seen \union Waiting(td) : m = r \/ ns[m].parent \in Done(seen, v)
  BY <1>1 DEF Reaches
<1>3. n # NULL /\ n \in seen /\ n \notin Done(seen, v)
  BY <1>1 DEF Reaches, NULL, Done
<1>4. Done(seen, NoVisit) = seen /\ seen = Done(seen, v) \union {n}
  <2>1. 0 \notin seen
    BY <1>2
  <2> QED
    BY <2>1, <1>3, NotVisiting DEF Done
<1>5. /\ Len(ns) \in Nat /\ Len(ps) \in Nat /\ Linked(ns, ps) /\ PropertiesListed(t, ns, ps)
      /\ Recorded(ns, ps)
  BY WiredLengths DEF Wired
<1>6. /\ Len(qs) = Len(ps) /\ \A j \in 1..Len(ps) : qs[j].name = ps[j].name
  BY DEF SameProps
<1>7. /\ \A x \in 0..Len(ps) : PropertiesOf(qs)[x] = PropertiesOf(ps)[x]
      /\ \A m \in 1..Len(ns) : Own(ns, qs, m) = Own(ns, ps, m)
  <2>1. SameTree(ns, ns)
    BY <1>5, Unchanged
  <2> QED
    BY <2>1, <1>5, SameOwn
<1>8. \A m \in 1..Len(ns) : \A j \in Own(ns, ps, m) : j \in 1..Len(ps)
  BY <1>5, OwnBounds
<1>9. \A m \in below : m # r /\ m \notin seen /\ m \notin Waiting(td)
  <2> SUFFICES ASSUME NEW m \in below PROVE m # r /\ m \notin seen \union Waiting(td)
    OBVIOUS
  <2>1. ns[m].parent = n
    OBVIOUS
  <2>2. m # r
    BY <2>1, <1>3
  <2> QED
    BY <2>1, <2>2, <1>2, <1>3
<1>10. Reaches(ns, r, seen, tf, NoVisit)
  <2>1. \A m \in seen : m \in 1..Len(ns) /\ m \notin Waiting(tf)
    BY <1>2, <1>9
  <2>2. r \in seen \union Waiting(tf)
    BY <1>2
  <2>3. \A m \in 1..Len(ns) : ns[m].parent \in seen => m \in seen \union Waiting(tf)
    BY <1>2, <1>4
  <2>4. \A m \in seen \union Waiting(tf) : m = r \/ ns[m].parent \in seen
    BY <1>2, <1>3, <1>4
  <2> QED
    BY <2>1, <2>2, <2>3, <2>4, <1>4, NotVisiting DEF Reaches, NULL
<1>11. \A m \in 1..Len(ns) : ReadOf(ns, qs, seen, NoVisit, m) = ReadOf(ns, ps, seen, v, m)
  <2> SUFFICES ASSUME NEW m \in 1..Len(ns)
               PROVE  ReadOf(ns, qs, seen, NoVisit, m) = ReadOf(ns, ps, seen, v, m)
    OBVIOUS
  <2>1. ToSet(PropertiesOf(ps)[v.prop]) = {}
    <3>1. PropertiesOf(ps)[0] = << >>
      BY <1>5, PropertiesHold DEF Linked
    <3> QED
      BY <3>1 DEF ToSet, NULL
  <2>2. m # NoVisit.node
    BY NotVisiting
  <2> QED
    BY <2>1, <2>2, <1>7 DEF ReadOf
<1>12. ReadOf(ns, ps, seen, v, n) = Own(ns, ps, n)
  <2>1. ToSet(PropertiesOf(ps)[v.prop]) = {}
    <3>1. PropertiesOf(ps)[0] = << >>
      BY <1>5, PropertiesHold DEF Linked
    <3> QED
      BY <3>1 DEF ToSet, NULL
  <2> QED
    BY <2>1, <1>3 DEF ReadOf
<1>13. \A m \in below : CellsOf(t, ns, r, m, v.next_address_cells, v.next_size_cells)
  <2>1. /\ TakenFrom(ps, Own(ns, ps, n), "#address-cells", v.next_address_cells, ns[n].address_cells)
        /\ TakenFrom(ps, Own(ns, ps, n), "#size-cells", v.next_size_cells, ns[n].size_cells)
    BY <1>1, <1>3, <1>12 DEF Applied
  <2>2. v.next_address_cells = PassedOn(t, n, "#address-cells", ns[n].address_cells)
    BY <2>1, <1>1, <1>5, TakenIsPassed
  <2>3. v.next_size_cells = PassedOn(t, n, "#size-cells", ns[n].size_cells)
    BY <2>1, <1>1, <1>5, TakenIsPassed
  <2> QED
    BY <2>2, <2>3, <1>9 DEF CellsOf
<1>14. CellsPassed(t, ns, r, seen, tf)
  <2>1. /\ \A m \in seen : CellsOf(t, ns, r, m, ns[m].address_cells, ns[m].size_cells)
        /\ \A j \in 1..Len(td) : CellsOf(t, ns, r, td[j].node, td[j].address_cells, td[j].size_cells)
    BY <1>1 DEF CellsPassed
  <2>2. \A m, a, s : Call(m, a, s).node = m /\ Call(m, a, s).address_cells = a
                     /\ Call(m, a, s).size_cells = s
    BY DEF Call
  <2>3. ASSUME NEW i \in 1..Len(tf)
        PROVE  CellsOf(t, ns, r, tf[i].node, tf[i].address_cells, tf[i].size_cells)
    <3>1. CASE \E j \in 1..Len(td) : tf[i] = td[j]
      BY <3>1, <2>1
    <3>2. CASE \E m \in below : tf[i] = Call(m, v.next_address_cells, v.next_size_cells)
      BY <3>2, <2>2, <1>13
    <3> QED
      BY <3>1, <3>2
  <2> QED
    BY <2>1, <2>3 DEF CellsPassed
<1>15. \A m \in 1..Len(ns) : \A j \in ReadOf(ns, ps, seen, v, m) :
         /\ j \in 1..Len(ps) /\ qs[j].name = ps[j].name
         /\ ps[j].name # "reg" => qs[j].value = ps[j].value
  <2>1. \A m \in 1..Len(ns) : \A j \in ReadOf(ns, ps, seen, v, m) : j \in 1..Len(ps)
    BY <1>8 DEF ReadOf
  <2> QED
    BY <2>1, <1>6
<1>16. Applied(ns, qs, seen, NoVisit, pm)
  <2> DEFINE A(m) == ReadOf(ns, ps, seen, v, m)
             B(m) == ReadOf(ns, qs, seen, NoVisit, m)
             is(e, m, j) == ps[j].name = "phandle" /\ e = [phandle |-> ps[j].value, node |-> m]
             iq(e, m, j) == qs[j].name = "phandle" /\ e = [phandle |-> qs[j].value, node |-> m]
  <2>1. \A e : e \in ToSet(pm) <=> \E m \in 1..Len(ns) : \E j \in A(m) : is(e, m, j)
    BY <1>1 DEF Applied
  <2>2. \A e : \A m \in 1..Len(ns) : \A j \in A(m) : iq(e, m, j) <=> is(e, m, j)
    BY <1>15
  <2>3. \A m \in 1..Len(ns) : TakenFrom(ps, A(m), "compatible", ns[m].compatible, << >>)
    BY <1>1 DEF Applied
  <2>4. \A m \in 1..Len(ns) : B(m) = A(m)
    BY <1>11
  <2>5. \A m \in 1..Len(ns) : \A j \in A(m) :
          qs[j].name = ps[j].name /\ (ps[j].name # "reg" => qs[j].value = ps[j].value)
    BY <1>15
  <2> HIDE DEF A, B
  <2>6. \A m \in 1..Len(ns) : TakenFrom(qs, B(m), "compatible", ns[m].compatible, << >>)
    <3> SUFFICES ASSUME NEW m \in 1..Len(ns)
                 PROVE  TakenFrom(qs, A(m), "compatible", ns[m].compatible, << >>)
      BY <2>4
    <3>1. TakenFrom(ps, A(m), "compatible", ns[m].compatible, << >>)
      BY <2>3
    <3>2. \A j \in A(m) : /\ qs[j].name = "compatible" <=> ps[j].name = "compatible"
                          /\ qs[j].name = "compatible" => qs[j].value = ps[j].value
      BY <2>5
    <3> QED
      BY <3>1, <3>2 DEF TakenFrom
  <2> HIDE DEF is, iq
  <2>7. \A e : e \in ToSet(pm) <=> \E m \in 1..Len(ns) : \E j \in B(m) : iq(e, m, j)
    BY <2>1, <2>2, <2>4
  <2> QED
    BY <2>6, <2>7, NotVisiting DEF Applied, B, iq, NULL
<1>17. Held(t, ns, qs, Done(seen, NoVisit))
  <2> SUFFICES ASSUME NEW m \in 1..Len(ns), NEW j \in Own(ns, ps, m)
               PROVE  \E d : Holds(t, ns, qs, seen, m, j, d)
    BY <1>4, <1>7 DEF Held
  <2>1. PICK d : Holds(t, ns, ps, Done(seen, v), m, j, d)
    BY <1>1 DEF Held
  <2>2. j \in 1..Len(ps) /\ qs[j].name = ps[j].name
    BY <1>6, <1>8
  <2>3. CASE m = n
    <3>1. CASE ps[j].name = "reg"
      <4>1. ps[j].value = d
        BY <2>1, <2>3, <1>3 DEF Holds
      <4>2. Cut(ns[n].address_cells, ns[n].size_cells, qs[j], d)
        BY <4>1, <3>1, <2>2, <2>3
      <4> QED
        BY <4>2, <3>1, <2>1, <2>2, <2>3, <1>3 DEF Holds
    <3>2. CASE ps[j].name # "reg"
      <4>1. qs[j] = ps[j]
        BY <3>2, <2>2
      <4> QED
        BY <4>1, <3>2, <2>1 DEF Holds
    <3> QED
      BY <3>1, <3>2
  <2>4. CASE m # n
    <3>1. j \notin Own(ns, ps, n)
      BY <2>4 DEF OwnApart
    <3>2. qs[j] = ps[j]
      BY <3>1, <2>2
    <3>3. m \in seen <=> m \in Done(seen, v)
      BY <2>4, <1>4
    <3> QED
      BY <3>2, <3>3, <2>1 DEF Holds
  <2> QED
    BY <2>3, <2>4
<1> QED
  BY <1>10, <1>14, <1>16, <1>17 DEF Passes

-----------------------------------------------------------------------------
(***************************************************************************)
(* Error values of the parser.                                             *)
(***************************************************************************)

\* error_push: with EC_DT_BLOB_REWRITE_FAILED on top, whatever is mixed into it
\* from below, the value is no success.
LEMMA PushedTop ==
  ASSUME NEW e
  PROVE  error_is_err(error_push(e, EC_DT_BLOB_REWRITE_FAILED))
<1> DEFINE x == (e * 2 ^ SizeofErrorCode) % 2 ^ WordBits
           S == {j \in 0..(WordBits - 1) : Bit(x, j) \/ Bit(18, j)}
           H == S \ {0, 1}
           M == {2 ^ k : k \in S}
           R == {2 ^ k : k \in H}
<1>1. error_push(e, EC_DT_BLOB_REWRITE_FAILED) = SumSet(M)
  BY DEF error_push, BitOr, EC_DT_BLOB_REWRITE_FAILED
<1>2. S \in SUBSET Nat /\ S \in SUBSET (0..(WordBits - 1)) /\ WordBits - 1 \in Int
  BY WordBitsAssumption
<1>3. IsFiniteSet(0..(WordBits - 1))
  BY <1>2, FS_Interval
<1>4. 1 \in S
  <2>1. Bit(18, 1)
    BY SmallPowers DEF Bit
  <2>2. 1 \in 0..(WordBits - 1)
    <3>1. WordBits >= 8
      BY DeviceTreeAssumption, Zenon
    <3> QED
      BY <3>1, WordBitsAssumption
  <2> QED
    BY <2>1, <2>2
<1> HIDE DEF S
<1>5. IsFiniteSet(S) /\ IsFiniteSet(H) /\ H \in SUBSET Nat
  BY <1>2, <1>3, FS_Subset
<1>6. IsFiniteSet(R) /\ R \in SUBSET Nat
  BY <1>5, MasksAreNumbers
<1>7. ASSUME NEW y \in R PROVE \E h \in Nat : y = 4 * h
  <2>1. PICK k \in H : y = 2 ^ k
    OBVIOUS
  <2>2. k - 2 \in Nat /\ k = 2 + (k - 2)
    BY <1>2
  <2>3. PICK i \in Nat : k = 2 + i
    BY <2>2
  <2>4. 2 ^ k = 4 * 2 ^ i /\ 2 ^ i \in Nat
    BY <2>3, SmallPowers, PowerSum, PowerDoubles
  <2> QED
    BY <2>1, <2>4
<1>8. PICK h \in Nat : SumSet(R) = 4 * h
  <2> HIDE DEF R
  <2> QED
    BY <1>6, <1>7, SumOfFours
<1>9. 1 \notin R /\ 2 \notin R
  <2>1. \A y \in R : \E i \in Nat : y = 4 * i
    BY <1>7
  <2>2. \A i \in Nat : 4 * i # 1 /\ 4 * i # 2
    OBVIOUS
  <2> HIDE DEF R
  <2> QED
    BY <2>1, <2>2
<1>10. SumSet(R \union {2}) = 4 * h + 2
  <2> HIDE DEF R
  <2> QED
    BY <1>6, <1>8, <1>9, SumSetAdd
<1>11. SumSet(M) = 4 * h + 2 \/ SumSet(M) = 4 * h + 3
  <2>1. CASE 0 \notin S
    <3>1. M = R \union {2}
      <4>1. S = H \union {1}
        BY <2>1, <1>4
      <4> HIDE DEF H
      <4>2. {2 ^ k : k \in H \union {1}} = {2 ^ k : k \in H} \union {2 ^ 1}
        BY Zenon
      <4> QED
        BY <4>1, <4>2, SmallPowers
    <3> QED
      BY <3>1, <1>10
  <2>2. CASE 0 \in S
    <3>1. M = (R \union {2}) \union {1}
      <4>1. S = (H \union {1}) \union {0}
        BY <2>2, <1>4
      <4> HIDE DEF H
      <4>2. {2 ^ k : k \in (H \union {1}) \union {0}} = ({2 ^ k : k \in H} \union {2 ^ 1}) \union {2 ^ 0}
        BY Zenon
      <4> QED
        BY <4>1, <4>2, SmallPowers, PowerZero
    <3> DEFINE Q == R \union {2}
    <3>2. Q \in SUBSET Nat /\ IsFiniteSet(Q) /\ 1 \notin Q /\ SumSet(Q) = 4 * h + 2
      <4>1. IsFiniteSet(Q)
        BY <1>6, FS_AddElement
      <4>2. Q \in SUBSET Nat /\ 1 \notin Q
        BY <1>6, <1>9
      <4> QED
        BY <4>1, <4>2, <1>10
    <3>3. M = Q \union {1}
      BY <3>1
    <3> HIDE DEF Q, M
    <3>4. SumSet(Q \union {1}) = SumSet(Q) + 1
      BY <3>2, SumSetAdd
    <3> QED
      BY <3>2, <3>3, <3>4
  <2> QED
    BY <2>1, <2>2
<1> HIDE DEF M
<1>12. PICK s \in Nat : s = SumSet(M) /\ (s = 4 * h + 2 \/ s = 4 * h + 3)
  BY <1>11
<1>13. s % 256 # 0
  <2>1. PICK q, r \in Nat : r = s % 256 /\ s = 256 * q + r
    BY Division
  <2>2. 256 * q = 4 * (64 * q) /\ 64 * q \in Nat
    OBVIOUS
  <2>3. \A i, j \in Nat : 4 * i # 4 * j + 2 /\ 4 * i # 4 * j + 3
    OBVIOUS
  <2>4. 256 * q # 4 * h + 2 /\ 256 * q # 4 * h + 3
    BY <2>2, <2>3
  <2>5. ASSUME r = 0 PROVE FALSE
    <3>1. s = 256 * q + 0
      BY <2>1, <2>5, Zenon
    <3>2. s = 256 * q
      BY <3>1
    <3> QED
      BY <3>2, <2>4, <1>12, Zenon
  <2> QED
    BY <2>1, <2>5
<1> QED
  BY <1>1, <1>12, <1>13, SmallPowers DEF error_is_err, error_is_ok, error_top, EC_SUCCESS

\* EC_SUCCESS is no error.
LEMMA SuccessIsNoError == ~error_is_err(EC_SUCCESS)
BY SmallPowers DEF error_is_err, error_is_ok, error_top, EC_SUCCESS

\* An error pushed on another one is an error.
LEMMA PushedIsError ==
  ASSUME NEW e
  PROVE  error_push(e, EC_DT_BLOB_REWRITE_FAILED) # EC_SUCCESS
BY PushedTop, SuccessIsNoError

-----------------------------------------------------------------------------
(***************************************************************************)
(* The steps keep the invariant of the second pass.                        *)
(***************************************************************************)

\* The root hangs below nothing.
LEMMA RootAtTop ==
  ASSUME NEW t, NEW ns, NEW ps, NEW r, Wired(t, ns, ps, r), r # NULL
  PROVE  r \in 1..Len(ns) /\ ns[r].parent = NULL
<1> DEFINE T == TopsOf(t, ns)
<1>1. Parents(t, ns) /\ r = IF T = {} THEN NULL ELSE Max(T)
  BY DEF Wired, Rooted
<1>2. Len(ns) \in Nat
  BY WiredLengths
<1>3. \A m \in T : m \in 1..Len(ns) /\ EnclosingOf(t, Len(t), m) = NULL
  BY DEF TopsOf
<1> HIDE DEF T
<1>4. T # {} /\ r = Max(T)
  BY <1>1
<1>5. \A m \in 1..Len(ns) : m \in 0..Len(ns)
  OBVIOUS
<1>6. T \in SUBSET (0..Len(ns))
  BY <1>3, <1>5
<1>7. Max(T) \in T
  BY <1>2, <1>4, <1>6, Greatest
<1>8. r \in 1..Len(ns) /\ EnclosingOf(t, Len(t), r) = NULL
  BY <1>3, <1>4, <1>7
<1> QED
  BY <1>1, <1>8 DEF Parents

\* Names and owners stay when pointers and names do.
LEMMA SameNames ==
  ASSUME NEW ns, NEW us, SameTree(ns, us), \A n \in 1..Len(ns) : us[n].properties = ns[n].properties,
         NEW ps, NEW qs, SameProps(ps, qs), Linked(ns, ps), NamesDiffer(ns, ps), OwnApart(ns, ps)
  PROVE  NamesDiffer(us, qs) /\ OwnApart(us, qs)
<1>1. \A n \in 1..Len(ns) : Own(us, qs, n) = Own(ns, ps, n)
  BY SameOwn
<1>2. Len(us) = Len(ns) /\ Len(ps) \in Nat /\ \A k \in 1..Len(ps) : qs[k].name = ps[k].name
  BY DEF SameTree, SameProps
<1>3. \A n \in 1..Len(ns) : \A k \in Own(ns, ps, n) : k \in 1..Len(ps)
  BY <1>2, OwnBounds
<1>4. NamesDiffer(us, qs)
  <2> SUFFICES ASSUME NEW n \in 1..Len(ns), NEW k \in Own(ns, ps, n), NEW l \in Own(ns, ps, n),
                      qs[l].name = qs[k].name
               PROVE  l = k
    BY <1>1, <1>2 DEF NamesDiffer
  <2>1. ps[l].name = ps[k].name
    BY <1>2, <1>3
  <2> QED
    BY <2>1 DEF NamesDiffer
<1>5. OwnApart(us, qs)
  BY <1>1, <1>2 DEF OwnApart
<1> QED
  BY <1>4, <1>5

\* The pass goes on.
LEMMA PassGoesOn ==
  ASSUME TreeInv, PassInv, state = "second", state' = "second", UNCHANGED <<tokens, root_node>>,
         SameTree(nodes, nodes'), SameProps(props, props'),
         \A n \in 1..Len(nodes) : nodes'[n].properties = nodes[n].properties,
         IsSequence(phandle_map'), NEW seen,
         Passes(seen, tokens, nodes', props', root_node, phandle_map', todo', visit')
  PROVE  PassInv'
<1>1. /\ NamesDiffer(nodes, props) /\ OwnApart(nodes, props)
      /\ nodes[root_node].parent = NULL /\ root_node \in 1..Len(nodes)
  BY DEF PassInv
<1>2. Linked(nodes, props)
  BY DEF TreeInv, Wired
<1>3. NamesDiffer(nodes', props') /\ OwnApart(nodes', props')
  BY <1>1, <1>2, SameNames
<1>4. nodes'[root_node'].parent = NULL /\ root_node' \in 1..Len(nodes')
  BY <1>1 DEF SameTree
<1>5. ~Succeeded'
  BY DEF Succeeded
<1>6. \E s : Passes(s, tokens', nodes', props', root_node', phandle_map', todo', visit')
  OBVIOUS
<1> QED
  BY <1>3, <1>4, <1>5, <1>6 DEF PassInv

\* structs_end: the second pass begins.
LEMMA StructsEndPass ==
  ASSUME TreeInv, ValueInv, state = "structs", structs_end, UNCHANGED tokens
  PROVE  PassInv'
<1>1. CASE Stop("halted")
  BY <1>1 DEF Stop, PassInv, Succeeded
<1>2. CASE Return(EC_DT_BLOB_EMPTY_TREE)
  BY <1>2 DEF Return, PassInv, Succeeded, EC_DT_BLOB_EMPTY_TREE, EC_SUCCESS
<1>3. CASE /\ root_node # NULL /\ state' = "second"
           /\ todo' = <<Call(root_node, DEFAULT_ADDRESS_CELLS, DEFAULT_SIZE_CELLS)>>
           /\ UNCHANGED <<root_node, nodes, props, phandle_map, visit>>
  <2> DEFINE call == Call(root_node, DEFAULT_ADDRESS_CELLS, DEFAULT_SIZE_CELLS)
  <2>1. /\ Wired(tokens, nodes, props, root_node) /\ visit = NoVisit
    BY DEF TreeInv
  <2>2. /\ Linked(nodes, props) /\ Len(nodes) \in Nat /\ Len(props) \in Nat
    BY <2>1, WiredLengths DEF Wired
  <2>3. /\ Valued(tokens, nodes, props) /\ phandle_map = << >>
        /\ \A n \in 1..Len(nodes) : nodes[n].compatible = << >>
    BY DEF ValueInv
  <2>4. root_node \in 1..Len(nodes) /\ nodes[root_node].parent = NULL
    BY <2>1, <1>3, RootAtTop
  <2>5. NamesDiffer(nodes, props) /\ OwnApart(nodes, props)
    BY <2>3 DEF Valued, NamesDiffer, OwnApart
  <2>6. /\ call.node = root_node /\ call.address_cells = DEFAULT_ADDRESS_CELLS
        /\ call.size_cells = DEFAULT_SIZE_CELLS
    BY DEF Call
  <2> HIDE DEF call
  <2>7. Passes({}, tokens, nodes, props, root_node, phandle_map, <<call>>, NoVisit)
    BY <2>2, <2>3, <2>6, StartPasses
  <2>8. Passes({}, tokens', nodes', props', root_node', phandle_map', todo', visit')
    BY <2>1, <2>7, <1>3 DEF call
  <2>9. ~Succeeded'
    BY <1>3 DEF Succeeded
  <2>10. /\ NamesDiffer(nodes', props') /\ OwnApart(nodes', props')
         /\ nodes'[root_node'].parent = NULL /\ root_node' \in 1..Len(nodes')
    BY <2>4, <2>5, <1>3
  <2>11. IsSequence(phandle_map')
    <3>1. << >> \in Seq({})
      BY EmptySeq
    <3>2. phandle_map' \in Seq({})
      BY <3>1, <2>3, <1>3
    <3> QED
      BY <3>2 DEF IsSequence
  <2> QED
    BY <2>8, <2>9, <2>10, <2>11 DEF PassInv
<1> QED
  BY <1>1, <1>2, <1>3 DEF structs_end

\* EnterNode keeps the invariant.
LEMMA EnterPass ==
  ASSUME TreeInv, PassInv, EnterNode
  PROVE  PassInv'
<1> DEFINE call == Head(todo)
           n == call.node
           x == [nodes[n] EXCEPT !.address_cells = call.address_cells,
                                 !.size_cells = call.size_cells]
           us == [nodes EXCEPT ![n] = x]
<1>1. /\ state = "second" /\ visit = NoVisit /\ todo # << >>
      /\ nodes' = [nodes EXCEPT ![n].address_cells = call.address_cells,
                                ![n].size_cells = call.size_cells]
      /\ visit' = [node |-> n, prop |-> nodes[n].properties,
                   next_address_cells |-> call.address_cells,
                   next_size_cells |-> call.size_cells]
      /\ todo' = Tail(todo)
      /\ UNCHANGED <<state, tokens, root_node, props, phandle_map>>
  BY DEF EnterNode
<1>2. todo \in Seq(Calls(Len(nodes))) /\ Wired(tokens, nodes, props, root_node)
  BY DEF TreeInv, Pending
<1>3. Recorded(nodes, props) /\ Linked(nodes, props) /\ Len(nodes) \in Nat
  BY <1>2, WiredLengths DEF Wired
<1>4. call \in Calls(Len(nodes))
  BY <1>1, <1>2, HeadTailProperties
<1> HIDE DEF call
<1>5. /\ n \in 1..Len(nodes) /\ call.address_cells \in 0..3 /\ call.size_cells \in 0..2
  BY <1>4 DEF Calls
<1>6. IsNode(nodes[n]) /\ IsSequence(nodes)
  BY <1>3, <1>5 DEF Recorded
<1>7. /\ x.parent = nodes[n].parent /\ x.sibling = nodes[n].sibling /\ x.children = nodes[n].children
      /\ x.properties = nodes[n].properties /\ x.compatible = nodes[n].compatible
      /\ x.address_cells = call.address_cells /\ x.size_cells = call.size_cells
  BY <1>6 DEF IsNode
<1>8. nodes' = us
  <2>1. PICK S : nodes \in Seq(S)
    BY <1>6 DEF IsSequence
  <2>2. nodes \in [1..Len(nodes) -> S]
    BY <2>1, LenProperties
  <2> QED
    BY <2>2, <1>1, <1>5
<1> HIDE DEF x, n
<1>9. Len(us) = Len(nodes) /\ \A i \in 1..Len(nodes) : us[i] = IF i = n THEN x ELSE nodes[i]
  BY <1>5, <1>6, Replaced
<1> HIDE DEF us
<1>10. \A m \in 1..Len(nodes) :
         /\ us[m].parent = nodes[m].parent /\ us[m].sibling = nodes[m].sibling
         /\ us[m].children = nodes[m].children /\ us[m].properties = nodes[m].properties
         /\ us[m].compatible = nodes[m].compatible
         /\ m # n => /\ us[m].address_cells = nodes[m].address_cells
                     /\ us[m].size_cells = nodes[m].size_cells
  BY <1>7, <1>9
<1>11. us[n].address_cells = Head(todo).address_cells /\ us[n].size_cells = Head(todo).size_cells
       /\ n = Head(todo).node
  BY <1>5, <1>7, <1>9 DEF call, n
<1>12. PICK seen : Passes(seen, tokens, nodes, props, root_node, phandle_map, todo, visit)
  BY <1>1 DEF PassInv
<1>13. /\ visit'.node = n /\ visit'.prop = nodes[n].properties
       /\ visit'.next_address_cells = us[n].address_cells /\ visit'.next_size_cells = us[n].size_cells
  BY <1>1, <1>11 DEF call, n
<1>14. Passes(seen \union {n}, tokens, us, props, root_node, phandle_map, Tail(todo), visit')
  <2>1. Passes(seen, tokens, nodes, props, root_node, phandle_map, todo, NoVisit)
    BY <1>1, <1>12
  <2> QED
    BY <2>1, <1>1, <1>2, <1>3, <1>5, <1>9, <1>10, <1>11, <1>13, EnterPasses, SMTT(30)
<1>15. SameTree(nodes, nodes') /\ SameProps(props, props')
  <2>1. SameTree(nodes, us)
    BY <1>3, <1>9, <1>10 DEF SameTree
  <2>2. SameProps(props, props)
    BY <1>3, Unchanged
  <2> QED
    BY <2>1, <2>2, <1>1, <1>8
<1>16. Passes(seen \union {n}, tokens, nodes', props', root_node, phandle_map', todo', visit')
  BY <1>1, <1>8, <1>14
<1>17. \A m \in 1..Len(nodes) : nodes'[m].properties = nodes[m].properties
  BY <1>8, <1>10
<1>18. IsSequence(phandle_map')
  BY <1>1 DEF PassInv
<1> QED
  BY <1>1, <1>15, <1>16, <1>17, <1>18, PassGoesOn

\* An entry in front of a list.
LEMMA PushedFront ==
  ASSUME NEW s, IsSequence(s), NEW x
  PROVE  IsSequence(<<x>> \o s) /\ \A e : e \in ToSet(<<x>> \o s) <=> e \in ToSet(s) \/ e = x
<1>1. PICK S : s \in Seq(S)
  BY DEF IsSequence
<1> DEFINE Z == S \union {x}
<1>2. s \in Seq(Z) /\ x \in Z
  BY <1>1, SeqMonotonic
<1> HIDE DEF Z
<1>3. <<x>> \in Seq(Z) /\ Len(<<x>>) = 1 /\ <<x>>[1] = x
  BY <1>2
<1>4. PICK L \in Nat : L = Len(s) /\ DOMAIN s = 1..L
  BY <1>2, LenProperties
<1> DEFINE u == <<x>> \o s
<1>5. u \in Seq(Z) /\ Len(u) = 1 + L
      /\ \A i \in 1..(1 + L) : u[i] = IF i <= 1 THEN <<x>>[i] ELSE s[i - 1]
  BY <1>2, <1>3, <1>4, ConcatProperties
<1>6. DOMAIN u = 1..(1 + L)
  BY <1>5, LenProperties
<1> HIDE DEF u
<1>7. u[1] = x /\ 1 \in 1..(1 + L) /\ \A i \in 1..L : i + 1 \in 1..(1 + L) /\ u[i + 1] = s[i]
  BY <1>3, <1>5
<1>8. ASSUME NEW e \in ToSet(u) PROVE e \in ToSet(s) \/ e = x
  <2>1. PICK i \in 1..(1 + L) : e = u[i]
    BY <1>6, <1>8 DEF ToSet
  <2>2. CASE i = 1
    BY <2>1, <2>2, <1>7
  <2>3. CASE i # 1
    <3>1. i - 1 \in 1..L /\ e = s[i - 1]
      BY <2>1, <2>3, <1>5
    <3> QED
      BY <3>1, <1>4 DEF ToSet
  <2> QED
    BY <2>2, <2>3
<1>9. x \in ToSet(u)
  BY <1>6, <1>7 DEF ToSet
<1>10. ASSUME NEW e \in ToSet(s) PROVE e \in ToSet(u)
  <2>1. PICK i \in 1..L : e = s[i]
    BY <1>4, <1>10 DEF ToSet
  <2> DEFINE j == i + 1
  <2>2. j \in DOMAIN u /\ u[j] = e
    BY <2>1, <1>6, <1>7
  <2> HIDE DEF j
  <2> QED
    BY <2>2 DEF ToSet
<1> QED
  BY <1>5, <1>8, <1>9, <1>10 DEF u, IsSequence

\* A property has been interpreted, with what it sets.
LEMMA InterpretPass ==
  ASSUME TreeInv, PassInv, state = "second", visit.prop # NULL, UNCHANGED tokens,
         NEW type, NEW v \in Visits(Len(nodes), Len(props)), Interpret(type, v),
         v.node = visit.node, IsSequence(phandle_map'),
         SameTree(nodes, nodes'),
         \A m \in 1..Len(nodes) : /\ nodes'[m].properties = nodes[m].properties
                                  /\ nodes'[m].address_cells = nodes[m].address_cells
                                  /\ nodes'[m].size_cells = nodes[m].size_cells,
         \A m \in 1..Len(nodes) : nodes'[m].compatible =
           IF m = visit.node /\ props[visit.prop].name = "compatible"
           THEN props[visit.prop].value ELSE nodes[m].compatible,
         v.next_address_cells = IF props[visit.prop].name = "#address-cells"
                                THEN props[visit.prop].value ELSE visit.next_address_cells,
         v.next_size_cells = IF props[visit.prop].name = "#size-cells"
                             THEN props[visit.prop].value ELSE visit.next_size_cells,
         \A e : e \in ToSet(phandle_map') <=>
                  \/ e \in ToSet(phandle_map)
                  \/ /\ props[visit.prop].name = "phandle"
                     /\ e = [phandle |-> props[visit.prop].value, node |-> visit.node]
  PROVE  PassInv'
<1> DEFINE k == visit.prop
           x == [props[k] EXCEPT !.type = type]
           qs == [props EXCEPT ![k] = x]
           w == [v EXCEPT !.prop = props[k].next_prop]
<1>1. /\ props' = qs /\ visit' = w
      /\ UNCHANGED <<state, root_node, todo>>
  BY DEF Interpret
<1>2. /\ todo \in Seq(Calls(Len(nodes))) /\ visit \in Visits(Len(nodes), Len(props))
      /\ (visit = NoVisit \/ visit.node # NULL) /\ Wired(tokens, nodes, props, root_node)
  BY DEF TreeInv, Pending
<1>3. Recorded(nodes, props) /\ Linked(nodes, props) /\ Len(props) \in Nat /\ Len(nodes) \in Nat
  BY <1>2, WiredLengths DEF Wired
<1>4. k \in 1..Len(props) /\ visit.node \in 1..Len(nodes)
  <2>1. k \in 0..Len(props) /\ k # 0 /\ visit.node \in 0..Len(nodes)
    BY <1>2 DEF Visits, NULL
  <2>2. visit # NoVisit
    BY <2>1 DEF NoVisit, NULL
  <2>3. visit.node # 0
    BY <2>2, <1>2 DEF NULL
  <2> QED
    BY <2>1, <2>3, <1>3
<1>5. IsProp(props[k]) /\ IsSequence(props)
  BY <1>3, <1>4 DEF Recorded
<1>6. x.name = props[k].name /\ x.next_prop = props[k].next_prop /\ x.value = props[k].value
  BY <1>5 DEF IsProp
<1>7. /\ w.node = visit.node /\ w.prop = props[k].next_prop
      /\ w.next_address_cells = v.next_address_cells /\ w.next_size_cells = v.next_size_cells
  BY DEF Visits
<1> HIDE DEF x, w
<1>8. Len(qs) = Len(props) /\ \A j \in 1..Len(props) : qs[j] = IF j = k THEN x ELSE props[j]
  BY <1>4, <1>5, Replaced
<1> HIDE DEF qs
<1>9. \A j \in 1..Len(props) : /\ qs[j].name = props[j].name /\ qs[j].next_prop = props[j].next_prop
                               /\ qs[j].value = props[j].value /\ (j # k => qs[j] = props[j])
  BY <1>6, <1>8
<1>10. SameProps(props, qs)
  BY <1>3, <1>8, <1>9 DEF SameProps
<1>11. PICK seen : Passes(seen, tokens, nodes, props, root_node, phandle_map, todo, visit)
  BY DEF PassInv
<1>12. NamesDiffer(nodes, props) /\ OwnApart(nodes, props)
  BY DEF PassInv
<1>13. \A m \in Waiting(todo) : m \in 1..Len(nodes)
  BY <1>2, WaitingNodes
<1>14. Passes(seen, tokens, nodes', qs, root_node, phandle_map', todo, w)
  BY <1>3, <1>4, <1>7, <1>9, <1>10, <1>11, <1>12, <1>13, ReadPasses
<1>15. Passes(seen, tokens, nodes', props', root_node, phandle_map', todo', visit')
  BY <1>1, <1>14
<1>16. SameProps(props, props') /\ state' = "second" /\ root_node' = root_node
  BY <1>1, <1>10
<1> QED
  BY <1>15, <1>16, PassGoesOn

\* ReadProperty keeps the invariant.
LEMMA ReadPass ==
  ASSUME TreeInv, PassInv, ReadProperty
  PROVE  PassInv'
<1> DEFINE p == props[visit.prop]
<1>1. /\ state = "second" /\ visit.prop # NULL /\ UNCHANGED tokens
      /\ \/ compatible_property(p) \/ address_cells_property(p) \/ size_cells_property(p)
         \/ phandle_property(p) \/ other_property(p)
  BY DEF ReadProperty
<1>2. /\ visit \in Visits(Len(nodes), Len(props)) /\ (visit = NoVisit \/ visit.node # NULL)
      /\ Wired(tokens, nodes, props, root_node)
  BY DEF TreeInv, Pending
<1>3. Recorded(nodes, props) /\ SameTree(nodes, nodes)
  BY <1>2, Unchanged DEF Wired
<1>4. Len(props) \in Nat /\ Len(nodes) \in Nat
  BY <1>2, WiredLengths
<1>5. visit.prop \in 1..Len(props) /\ visit.node \in 1..Len(nodes)
  <2>1. visit.prop \in 0..Len(props) /\ visit.prop # 0 /\ visit.node \in 0..Len(nodes)
    BY <1>1, <1>2 DEF Visits, NULL
  <2>2. visit # NoVisit
    BY <2>1 DEF NoVisit, NULL
  <2>3. visit.node # 0
    BY <2>2, <1>2 DEF NULL
  <2> QED
    BY <2>1, <2>3, <1>4
<1>6. IsProp(p)
  BY <1>3, <1>5 DEF Recorded
<1>14. IsSequence(phandle_map)
  BY <1>1 DEF PassInv
<1>7. \A e : Return(error_push(e, EC_DT_BLOB_REWRITE_FAILED)) => PassInv'
  <2> SUFFICES ASSUME NEW e, Return(error_push(e, EC_DT_BLOB_REWRITE_FAILED)) PROVE PassInv'
    OBVIOUS
  <2>1. state' = "returned" /\ err' # EC_SUCCESS
    BY PushedIsError DEF Return
  <2> QED
    BY <2>1 DEF PassInv, Succeeded
<1>8. CASE compatible_property(p)
  <2>1. CASE Stop("halted")
    BY <2>1 DEF Stop, PassInv, Succeeded
  <2>2. CASE ~Stop("halted")
    <3> DEFINE n == visit.node
               x == [nodes[n] EXCEPT !.compatible = p.value]
               us == [nodes EXCEPT ![n] = x]
    <3>1. p.name = "compatible" /\ Interpret("COMPATIBLE", visit) /\ nodes' = us /\ UNCHANGED phandle_map
      BY <2>2, <1>8 DEF compatible_property
    <3>2. IsNode(nodes[n]) /\ IsSequence(nodes)
      BY <1>3, <1>5 DEF Recorded
    <3>3. /\ x.parent = nodes[n].parent /\ x.sibling = nodes[n].sibling /\ x.children = nodes[n].children
          /\ x.properties = nodes[n].properties /\ x.compatible = p.value
          /\ x.address_cells = nodes[n].address_cells /\ x.size_cells = nodes[n].size_cells
      BY <3>2 DEF IsNode
    <3>4. n \in 1..Len(nodes)
      BY <1>5
    <3> HIDE DEF n, x
    <3>5. Len(us) = Len(nodes) /\ \A i \in 1..Len(nodes) : us[i] = IF i = n THEN x ELSE nodes[i]
      BY <3>2, <3>4, Replaced
    <3> HIDE DEF us, p
    <3>6. \A m \in 1..Len(nodes) :
            /\ us[m].parent = nodes[m].parent /\ us[m].sibling = nodes[m].sibling
            /\ us[m].children = nodes[m].children /\ us[m].properties = nodes[m].properties
            /\ us[m].address_cells = nodes[m].address_cells /\ us[m].size_cells = nodes[m].size_cells
            /\ us[m].compatible = IF m = n THEN p.value ELSE nodes[m].compatible
      BY <3>3, <3>5
    <3>7. SameTree(nodes, us)
      BY <3>5, <3>6, <1>4 DEF SameTree
    <3>8. \A m \in 1..Len(nodes) : nodes'[m].compatible =
           IF m = visit.node /\ p.name = "compatible" THEN p.value ELSE nodes[m].compatible
      BY <3>1, <3>6 DEF n
    <3>9. \A m \in 1..Len(nodes) : /\ nodes'[m].properties = nodes[m].properties
                                   /\ nodes'[m].address_cells = nodes[m].address_cells
                                   /\ nodes'[m].size_cells = nodes[m].size_cells
      BY <3>1, <3>6
    <3>10. /\ visit.next_address_cells = IF p.name = "#address-cells" THEN p.value
                                         ELSE visit.next_address_cells
           /\ visit.next_size_cells = IF p.name = "#size-cells" THEN p.value
                                      ELSE visit.next_size_cells
           /\ \A e : e \in ToSet(phandle_map') <=>
                  \/ e \in ToSet(phandle_map)
                  \/ p.name = "phandle" /\ e = [phandle |-> p.value, node |-> visit.node]
      BY <3>1
    <3>11. SameTree(nodes, nodes') /\ Interpret("COMPATIBLE", visit) /\ IsSequence(phandle_map')
      BY <3>1, <3>7, <1>14
    <3> QED
      BY <3>8, <3>9, <3>10, <3>11, <1>1, <1>2, InterpretPass DEF p
  <2> QED
    BY <2>1, <2>2
<1>9. ASSUME NEW type, NEW v \in Visits(Len(nodes), Len(props)), v.node = visit.node,
             Interpret(type, v), UNCHANGED nodes, p.name # "compatible",
             v.next_address_cells = IF p.name = "#address-cells" THEN p.value
                                    ELSE visit.next_address_cells,
             v.next_size_cells = IF p.name = "#size-cells" THEN p.value
                                 ELSE visit.next_size_cells,
             IsSequence(phandle_map'),
             \A e : e \in ToSet(phandle_map') <=>
                  \/ e \in ToSet(phandle_map)
                  \/ p.name = "phandle" /\ e = [phandle |-> p.value, node |-> visit.node]
      PROVE  PassInv'
  <2>1. SameTree(nodes, nodes')
    BY <1>3, <1>9
  <2>2. \A m \in 1..Len(nodes) : /\ nodes'[m].properties = nodes[m].properties
                                 /\ nodes'[m].address_cells = nodes[m].address_cells
                                 /\ nodes'[m].size_cells = nodes[m].size_cells
    BY <1>9
  <2>3. \A m \in 1..Len(nodes) : nodes'[m].compatible =
           IF m = visit.node /\ p.name = "compatible" THEN p.value ELSE nodes[m].compatible
    BY <1>9
  <2> QED
    BY <2>1, <2>2, <2>3, <1>1, <1>9, InterpretPass
<1> HIDE DEF p
<1>10. CASE address_cells_property(p)
  <2>1. p.name = "#address-cells" /\ p.value \in Nat
    BY <1>6, <1>10 DEF address_cells_property, IsProp
  <2>2. CASE Return(error_push(EC_DT_ADDRESS_CELLS_TOO_LARGE, EC_DT_BLOB_REWRITE_FAILED))
    BY <2>2, <1>7
  <2>3. CASE /\ p.value <= 3 /\ UNCHANGED <<nodes, phandle_map>>
             /\ Interpret("ADDRESS_CELLS", [visit EXCEPT !.next_address_cells = p.value])
    <3>1. p.value \in 0..3
      BY <2>1, <2>3
    <3> DEFINE v == [visit EXCEPT !.next_address_cells = p.value]
    <3>2. v \in Visits(Len(nodes), Len(props)) /\ v.node = visit.node
          /\ v.next_address_cells = p.value /\ v.next_size_cells = visit.next_size_cells
      BY <3>1, <1>2 DEF Visits
    <3>3. Interpret("ADDRESS_CELLS", v)
      BY <2>3
    <3> HIDE DEF v
    <3>4. \A e : e \in ToSet(phandle_map') <=>
                  \/ e \in ToSet(phandle_map)
                  \/ p.name = "phandle" /\ e = [phandle |-> p.value, node |-> visit.node]
      BY <2>1, <2>3
    <3> QED
      BY <3>2, <3>3, <3>4, <2>1, <2>3, <1>9, <1>14
  <2> QED
    BY <2>2, <2>3, <1>10 DEF address_cells_property
<1>11. CASE size_cells_property(p)
  <2>1. p.name = "#size-cells" /\ p.value \in Nat
    BY <1>6, <1>11 DEF size_cells_property, IsProp
  <2>2. CASE Return(error_push(EC_DT_SIZE_CELLS_TOO_LARGE, EC_DT_BLOB_REWRITE_FAILED))
    BY <2>2, <1>7
  <2>3. CASE /\ p.value <= 2 /\ UNCHANGED <<nodes, phandle_map>>
             /\ Interpret("SIZE_CELLS", [visit EXCEPT !.next_size_cells = p.value])
    <3>1. p.value \in 0..2
      BY <2>1, <2>3
    <3> DEFINE v == [visit EXCEPT !.next_size_cells = p.value]
    <3>2. v \in Visits(Len(nodes), Len(props)) /\ v.node = visit.node
          /\ v.next_size_cells = p.value /\ v.next_address_cells = visit.next_address_cells
      BY <3>1, <1>2 DEF Visits
    <3>3. Interpret("SIZE_CELLS", v)
      BY <2>3
    <3> HIDE DEF v
    <3>4. \A e : e \in ToSet(phandle_map') <=>
                  \/ e \in ToSet(phandle_map)
                  \/ p.name = "phandle" /\ e = [phandle |-> p.value, node |-> visit.node]
      BY <2>1, <2>3
    <3> QED
      BY <3>2, <3>3, <3>4, <2>1, <2>3, <1>9, <1>14
  <2> QED
    BY <2>2, <2>3, <1>11 DEF size_cells_property
<1>12. CASE phandle_property(p)
  <2>1. /\ p.name = "phandle" /\ Interpret("PHANDLE", visit) /\ UNCHANGED nodes
        /\ phandle_map' = <<[phandle |-> p.value, node |-> visit.node]>> \o phandle_map
    BY <1>12 DEF phandle_property
  <2> DEFINE entry == [phandle |-> p.value, node |-> visit.node]
  <2>2. entry = [phandle |-> p.value, node |-> visit.node] /\ phandle_map' = <<entry>> \o phandle_map
    BY <2>1
  <2> HIDE DEF entry
  <2>3. /\ IsSequence(phandle_map')
        /\ \A e : e \in ToSet(phandle_map') <=> e \in ToSet(phandle_map) \/ e = entry
    BY <2>2, <1>14, PushedFront
  <2>4. \A e : e \in ToSet(phandle_map') <=>
                  \/ e \in ToSet(phandle_map)
                  \/ p.name = "phandle" /\ e = [phandle |-> p.value, node |-> visit.node]
    BY <2>1, <2>2, <2>3
  <2> QED
    BY <2>1, <2>3, <2>4, <1>2, <1>9
<1>13. CASE other_property(p)
  <2>1. /\ Interpret(p.type, visit) /\ UNCHANGED <<nodes, phandle_map>>
        /\ p.name \notin {"compatible", "#address-cells", "#size-cells", "phandle"}
    BY <1>13 DEF other_property
  <2>2. \A e : e \in ToSet(phandle_map') <=>
                  \/ e \in ToSet(phandle_map)
                  \/ p.name = "phandle" /\ e = [phandle |-> p.value, node |-> visit.node]
    BY <2>1
  <2> QED
    BY <2>1, <2>2, <1>2, <1>9, <1>14
<1> QED
  BY <1>1, <1>8, <1>10, <1>11, <1>12, <1>13

\* device_tree_get_property finds the property of that name if there is one.
LEMMA PropertyFound ==
  ASSUME TreeInv, NEW n \in 1..Len(nodes), NEW name
  PROVE  LET k == device_tree_get_property(n, name)
         IN  \/ /\ k = NULL
                /\ \A l \in Own(nodes, props, n) : props[l].name # name
             \/ /\ k # NULL /\ k \in 1..Len(props)
                /\ k \in Own(nodes, props, n) /\ props[k].name = name
<1> DEFINE l == PropertiesFrom[nodes[n].properties]
           I == {i \in 1..Len(l) : props[l[i]].name = name}
<1>1. device_tree_get_property(n, name) =
        IF (IF I # {} THEN Min(I) ELSE 0) = 0 THEN NULL ELSE l[IF I # {} THEN Min(I) ELSE 0]
  BY DEF device_tree_get_property, SelectInSeq
<1>2. Linked(nodes, props) /\ Wired(tokens, nodes, props, root_node)
  BY DEF TreeInv, Wired
<1>3. Len(nodes) \in Nat /\ Len(props) \in Nat
  BY <1>2, WiredLengths
<1>4. nodes[n].properties \in 0..Len(props) /\ \A k \in 1..Len(props) : props[k].next_prop \in 0..(k - 1)
  BY <1>2 DEF Linked
<1>5. \A k \in 0..Len(props) : PropertiesOf(props)[k] \in Seq(1..Len(props))
  BY <1>3, <1>4, PropertiesHold
<1>6. PropertiesFrom = PropertiesOf(props)
  BY DEF PropertiesFrom, PropertiesOf
<1>7. l \in Seq(1..Len(props))
  BY <1>4, <1>5, <1>6
<1>8. Own(nodes, props, n) = ToSet(l)
  BY <1>6 DEF Own
<1> HIDE DEF l
<1>9. DOMAIN l = 1..Len(l) /\ Len(l) \in Nat
  BY <1>7, LenProperties
<1>10. I \in SUBSET Nat /\ \A i \in I : l[i] \in 1..Len(props) /\ props[l[i]].name = name /\ i # 0
  BY <1>7, ElementOfSeq
<1>11. \A i \in I : l[i] \in ToSet(l)
  BY <1>9 DEF ToSet
<1>12. ASSUME I = {}, NEW k \in ToSet(l) PROVE props[k].name # name
  <2>1. PICK i \in 1..Len(l) : k = l[i]
    BY <1>9, <1>12 DEF ToSet
  <2> QED
    BY <2>1, <1>12
<1> HIDE DEF I
<1>13. CASE I = {}
  BY <1>1, <1>8, <1>12, <1>13
<1>14. CASE I # {}
  <2>1. Min(I) \in I
    BY <1>10, <1>14, Least
  <2>2. device_tree_get_property(n, name) = l[Min(I)]
    BY <2>1, <1>1, <1>10, <1>14
  <2>3. l[Min(I)] \in 1..Len(props) /\ props[l[Min(I)]].name = name /\ l[Min(I)] \in ToSet(l)
    BY <2>1, <1>10, <1>11
  <2> QED
    BY <2>2, <2>3, <1>8 DEF NULL
<1> QED
  BY <1>13, <1>14

\* What rewrite_reg_property makes of reg.
LEMMA RegRewritten ==
  ASSUME TreeInv, visit.node \in 1..Len(nodes), NEW k \in 1..Len(props), props[k].name = "reg",
         props[k].value \in Nat, Whole(k), rewrite_reg_property(k)
  PROVE  /\ SameProps(props, props')
         /\ \A j \in 1..Len(props) :
              IF j = k THEN Cut(nodes[visit.node].address_cells, nodes[visit.node].size_cells,
                                props'[j], props[j].value)
              ELSE props'[j] = props[j]
<1> DEFINE x == [props[k] EXCEPT !.type = "REG", !.value = RegValue(@)]
           ac == nodes[visit.node].address_cells
           sc == nodes[visit.node].size_cells
<1>1. Recorded(nodes, props)
  BY DEF TreeInv, Wired
<1>2. IsProp(props[k]) /\ IsSequence(props)
  BY <1>1 DEF Recorded
<1>3. /\ x.name = props[k].name /\ x.next_prop = props[k].next_prop
      /\ x.type = "REG" /\ x.value = RegValue(props[k].value)
  BY <1>2 DEF IsProp
<1>4. props' = [props EXCEPT ![k] = x]
  <2>1. PICK S : props \in Seq(S)
    BY <1>2 DEF IsSequence
  <2>2. props \in [1..Len(props) -> S]
    BY <2>1, LenProperties
  <2>3. props' = [props EXCEPT ![k].type = "REG", ![k].value = RegValue(@)]
    BY DEF rewrite_reg_property
  <2> QED
    BY <2>2, <2>3
<1>5. NodeCells = ac + sc
  BY DEF NodeCells
<1>6. ac + sc # 0 /\ props[k].value % (ac + sc) = 0
  BY <1>5 DEF Whole
<1>7. RegValue(props[k].value) = RegCut(ac, sc, props[k].value)
  BY <1>5 DEF RegValue, RegCut
<1> HIDE DEF x
<1>8. /\ Len([props EXCEPT ![k] = x]) = Len(props)
      /\ \A j \in 1..Len(props) : [props EXCEPT ![k] = x][j] = IF j = k THEN x ELSE props[j]
  BY <1>2, Replaced
<1>9. Len(props') = Len(props) /\ \A j \in 1..Len(props) : props'[j] = IF j = k THEN x ELSE props[j]
  BY <1>4, <1>8
<1>10. Cut(ac, sc, x, props[k].value)
  BY <1>3, <1>6, <1>7 DEF Cut
<1>11. SameProps(props, props')
  <2>1. Len(props) \in Nat
    BY WiredLengths DEF TreeInv
  <2> QED
    BY <2>1, <1>3, <1>9 DEF SameProps
<1> QED
  BY <1>9, <1>10, <1>11

\* The children of the node visited: its list holds them, each once.
LEMMA ChildrenOnce ==
  ASSUME TreeInv, NEW n \in 1..Len(nodes)
  PROVE  LET children == SiblingsFrom[nodes[n].children]
         IN  /\ children \in Seq(1..Len(nodes))
             /\ \A i, j \in 1..Len(children) : children[i] = children[j] => i = j
             /\ \A m : m \in ToSet(children) <=> m \in 1..Len(nodes) /\ nodes[m].parent = n
<1> DEFINE children == SiblingsFrom[nodes[n].children]
           next == SiblingLinks(nodes)
           f == SiblingsOf(nodes)
           c == nodes[n].children
<1>1. Wired(tokens, nodes, props, root_node)
  BY DEF TreeInv
<1>2. Len(nodes) \in Nat /\ Linked(nodes, props) /\ ChildrenListed(nodes)
  BY <1>1, WiredLengths DEF Wired
<1>3. /\ \A m \in 1..Len(nodes) : nodes[m].sibling \in 0..(m - 1)
      /\ c = 0 \/ c \in (n + 1)..Len(nodes)
  BY <1>2 DEF Linked, NULL
<1>4. c \in 0..Len(nodes)
  BY <1>2, <1>3
<1>5. children = f[c]
  BY DEF SiblingsFrom, SiblingsOf
<1>6. \A m \in 0..Len(nodes) : SiblingsOf(nodes)[m] \in Seq(1..Len(nodes))
  BY <1>2, <1>3, SiblingsHold
<1>7. Descends(next, Len(nodes)) /\ IsList(next, Len(nodes), f)
  BY <1>2, <1>3, SiblingsAreLists
<1>8. \A m : m \in ToSet(f[c]) <=> m \in 1..Len(nodes) /\ nodes[m].parent = n
  BY <1>2 DEF ChildrenListed
<1>9. f[c] \in Seq(1..Len(nodes))
  BY <1>4, <1>6
<1> HIDE DEF children, next, f, c
<1>10. \A x \in 0..Len(nodes) : \A i, j \in 1..Len(f[x]) : f[x][i] = f[x][j] => i = j
  BY <1>7, ListDistinct
<1>11. \A i, j \in 1..Len(f[c]) : f[c][i] = f[c][j] => i = j
  BY <1>4, <1>10
<1> QED
  BY <1>5, <1>8, <1>9, <1>11 DEF children

\* FinishNode keeps the invariant.
LEMMA FinishPass ==
  ASSUME TreeInv, PassInv, FinishNode
  PROVE  PassInv'
<1> DEFINE reg == device_tree_get_property(visit.node, "reg")
           children == SiblingsFrom[nodes[visit.node].children]
           made == [i \in 1..Len(children) |-> ChildCall(children[i])]
           n == visit.node
           own == Own(nodes, props, n)
<1>1. /\ state = "second" /\ visit # NoVisit /\ visit.prop = NULL /\ UNCHANGED tokens
      /\ \/ Stop("halted")
         \/ /\ \/ reg = NULL /\ UNCHANGED props
               \/ reg # NULL /\ Whole(reg) /\ rewrite_reg_property(reg)
            /\ todo' = made \o todo /\ visit' = NoVisit
            /\ UNCHANGED <<state, current, depth, root_node, nodes, phandle_map, err>>
  BY DEF FinishNode
<1>2. n \in 1..Len(nodes) /\ made \in Seq(Calls(Len(nodes)))
  BY <1>1, ChildrenCalled
<1>3. /\ todo \in Seq(Calls(Len(nodes))) /\ Wired(tokens, nodes, props, root_node)
  BY DEF TreeInv, Pending
<1>4. /\ Recorded(nodes, props) /\ SameTree(nodes, nodes) /\ SameProps(props, props)
      /\ Len(nodes) \in Nat /\ Len(props) \in Nat /\ Linked(nodes, props)
  BY <1>3, Unchanged, WiredLengths DEF Wired
<1>5. /\ children \in Seq(1..Len(nodes))
      /\ \A i, j \in 1..Len(children) : children[i] = children[j] => i = j
      /\ \A m : m \in ToSet(children) <=> m \in 1..Len(nodes) /\ nodes[m].parent = n
  BY <1>2, ChildrenOnce
<1>6. \/ reg = NULL /\ \A l \in own : props[l].name # "reg"
      \/ reg # NULL /\ reg \in 1..Len(props) /\ reg \in own /\ props[reg].name = "reg"
  BY <1>2, PropertyFound
<1>7. /\ Len(made) = Len(children)
      /\ \A i \in 1..Len(children) :
           made[i] = Call(children[i], visit.next_address_cells, visit.next_size_cells)
  <2>1. Len(children) \in Nat
    BY <1>5, LenProperties
  <2>2. DOMAIN made = 1..Len(children) /\ \A i \in 1..Len(children) : made[i] = ChildCall(children[i])
    OBVIOUS
  <2> HIDE DEF made, children
  <2>3. DOMAIN made = 1..Len(made) /\ Len(made) \in Nat
    BY <1>2, LenProperties
  <2>4. Len(made) = Len(children)
    BY <2>1, <2>2, <2>3
  <2> QED
    BY <2>2, <2>4 DEF ChildCall
<1> HIDE DEF reg, made, children
<1>8. CASE Stop("halted")
  BY <1>8 DEF Stop, PassInv, Succeeded
<1>9. CASE /\ \/ reg = NULL /\ UNCHANGED props
              \/ reg # NULL /\ Whole(reg) /\ rewrite_reg_property(reg)
           /\ todo' = made \o todo /\ visit' = NoVisit
           /\ UNCHANGED <<state, current, depth, root_node, nodes, phandle_map, err>>
  <2>1. PICK seen : Passes(seen, tokens, nodes, props, root_node, phandle_map, todo, visit)
    BY <1>1 DEF PassInv
  <2>2. /\ NamesDiffer(nodes, props) /\ OwnApart(nodes, props) /\ nodes[root_node].parent = NULL
        /\ IsSequence(phandle_map)
    BY <1>1 DEF PassInv
  <2>3. Reaches(nodes, root_node, seen, todo, visit) /\ Held(tokens, nodes, props, Done(seen, visit))
    BY <2>1 DEF Passes
  <2>4. \A l \in own : l \in 1..Len(props)
    BY <1>2, <1>4, OwnBounds
  <2>5. /\ SameProps(props, props')
        /\ \A j \in 1..Len(props) :
             IF j \in own /\ props[j].name = "reg"
             THEN Cut(nodes[n].address_cells, nodes[n].size_cells, props'[j], props[j].value)
             ELSE props'[j] = props[j]
    <3>1. CASE reg = NULL /\ UNCHANGED props
      BY <3>1, <1>4, <1>6
    <3>2. CASE reg # NULL /\ Whole(reg) /\ rewrite_reg_property(reg)
      <4>1. reg \in 1..Len(props) /\ reg \in own /\ props[reg].name = "reg"
        BY <3>2, <1>6
      <4>2. props[reg].value \in Nat
        <5>1. PICK d : Holds(tokens, nodes, props, Done(seen, visit), n, reg, d)
          BY <4>1, <2>3, <1>2 DEF Held
        <5>2. n \notin Done(seen, visit)
          BY DEF Done
        <5> QED
          BY <5>1, <5>2, <4>1 DEF Holds
      <4>3. \A j \in own : props[j].name = "reg" => j = reg
        BY <4>1, <2>2, <1>2 DEF NamesDiffer
      <4>4. /\ SameProps(props, props')
            /\ \A j \in 1..Len(props) :
              IF j = reg THEN Cut(nodes[visit.node].address_cells, nodes[visit.node].size_cells,
                                  props'[j], props[j].value)
              ELSE props'[j] = props[j]
        BY <4>1, <4>2, <3>2, <1>2, RegRewritten
      <4> QED
        BY <4>1, <4>3, <4>4
    <3> QED
      BY <3>1, <3>2, <1>9
  <2>6. \A m \in ToSet(children) : m \notin Waiting(todo)
    <3>1. ASSUME NEW m \in ToSet(children), m \in Waiting(todo) PROVE FALSE
      <4>1. m \in 1..Len(nodes) /\ nodes[m].parent = n
        BY <1>5
      <4>2. m = root_node \/ nodes[m].parent \in Done(seen, visit)
        BY <2>3, <3>1 DEF Reaches
      <4>3. n # 0
        BY <1>2
      <4> QED
        BY <4>1, <4>2, <4>3, <2>2 DEF Done, NULL
    <3> QED
      BY <3>1
  <2>7. \A i, j \in 1..Len(todo) : todo[i].node = todo[j].node => i = j
    BY <2>3 DEF Reaches
  <2> DEFINE tf == made \o todo
  <2>8. Joined(todo, tf, ToSet(children), visit.next_address_cells, visit.next_size_cells)
    <3>1. CallsMade(Len(nodes), todo, children, visit.next_address_cells, visit.next_size_cells, made)
      BY <2>6, <2>7, <1>2, <1>3, <1>4, <1>5, <1>7 DEF CallsMade
    <3> QED
      BY <3>1, ChildrenWait
  <2>9. todo' = tf
    BY <1>9
  <2> HIDE DEF tf
  <2>10. Passes(seen, tokens, nodes, props', root_node, phandle_map, tf, NoVisit)
    BY <2>1, <2>2, <2>5, <2>8, <1>1, <1>2, <1>3, <1>5, FinishPasses
  <2>11. Passes(seen, tokens, nodes', props', root_node, phandle_map', todo', visit')
    BY <2>9, <2>10, <1>9
  <2>12. /\ state' = "second" /\ UNCHANGED <<tokens, root_node>> /\ SameTree(nodes, nodes')
         /\ IsSequence(phandle_map')
         /\ \A m \in 1..Len(nodes) : nodes'[m].properties = nodes[m].properties
    BY <2>2, <1>1, <1>4, <1>9
  <2> QED
    BY <2>5, <2>11, <2>12, <1>1, PassGoesOn
<1> QED
  BY <1>1, <1>8, <1>9

\* The last return of the pass.
LEMMA DonePass ==
  ASSUME PassInv, SecondPassDone
  PROVE  PassInv'
<1>1. /\ state = "second" /\ visit = NoVisit /\ todo = << >>
      /\ state' = "returned" /\ err' = EC_SUCCESS
      /\ UNCHANGED <<root_node, nodes, props, phandle_map, todo, visit, tokens>>
  BY DEF SecondPassDone, Return
<1>2. /\ NamesDiffer(nodes, props) /\ OwnApart(nodes, props)
      /\ nodes[root_node].parent = NULL /\ root_node \in 1..Len(nodes)
      /\ IsSequence(phandle_map)
      /\ \E seen : Passes(seen, tokens, nodes, props, root_node, phandle_map, todo, visit)
  BY <1>1 DEF PassInv
<1>3. /\ NamesDiffer(nodes', props') /\ OwnApart(nodes', props')
      /\ nodes'[root_node'].parent = NULL /\ root_node' \in 1..Len(nodes')
      /\ IsSequence(phandle_map')
  BY <1>1, <1>2
<1>4. \E seen : Passes(seen, tokens', nodes', props', root_node', phandle_map', todo', visit')
  BY <1>1, <1>2
<1> QED
  BY <1>1, <1>3, <1>4 DEF PassInv

\* The invariant of the pass says nothing before it, nor of a parser that stopped.
LEMMA NoPass ==
  ASSUME state' # "second", ~Succeeded'
  PROVE  PassInv'
BY DEF PassInv

LEMMA SamePass ==
  ASSUME PassInv, UNCHANGED vars
  PROVE  PassInv'
BY DEF PassInv, Succeeded, vars

LEMMA InitPass == Init => PassInv
BY DEF Init, PassInv, Succeeded

\* Every step keeps the invariant of the pass.
LEMMA NextPass ==
  ASSUME TreeInv, ValueInv, PassInv, [Next]_vars
  PROVE  PassInv'
<1>1. ASSUME NEW magic \in BOOLEAN, NEW reserves \in BOOLEAN, parse_header(magic, reserves)
      PROVE  PassInv'
  <2>1. state' # "second" /\ ~Succeeded'
    BY <1>1 DEF parse_header, Return, Stop, Succeeded, EC_DT_BLOB_INVALID_MAGIC, EC_SUCCESS
  <2> QED
    BY <2>1, NoPass
<1>2. ASSUME Token PROVE PassInv'
  <2>1. ASSUME NEW name, Read(Start(name)), device_tree_parse_node(name) PROVE PassInv'
    <3>1. state' = "structs"
      BY <2>1 DEF Read, device_tree_parse_node
    <3> QED
      BY <3>1, NoPass DEF Succeeded
  <2>2. ASSUME Read(NodeEnd), node_end PROVE PassInv'
    <3>1. state' \in {"structs", "fault"}
      BY <2>2 DEF Read, node_end, Stop
    <3> QED
      BY <3>1, NoPass DEF Succeeded
  <2>3. ASSUME NEW p, Read(Property(p)), device_tree_first_pass_property(p) PROVE PassInv'
    <3>1. state' \in {"structs", "fault"}
      BY <2>3 DEF Read, device_tree_first_pass_property, Stop
    <3> QED
      BY <3>1, NoPass DEF Succeeded
  <2>4. ASSUME UNCHANGED vars PROVE PassInv'
    BY <2>4, SamePass
  <2>5. ASSUME state = "structs", structs_end, UNCHANGED tokens PROVE PassInv'
    BY <2>5, StructsEndPass
  <2>6. ASSUME Stop("halted") PROVE PassInv'
    <3>1. state' = "halted"
      BY <2>6 DEF Stop
    <3> QED
      BY <3>1, NoPass DEF Succeeded
  <2> QED
    BY <2>1, <2>2, <2>3, <2>4, <2>5, <2>6, <1>2 DEF Token
<1> QED
  BY <1>1, <1>2, EnterPass, ReadPass, FinishPass, DonePass, SamePass DEF Next

\* The top of a node is that of its parent.
LEMMA TreeTop ==
  ASSUME TreeInv
  PROVE  \E top : /\ Tree = {n \in 1..Len(nodes) : top[n] = root_node}
                  /\ \A n \in 1..Len(nodes) :
                       top[n] = IF nodes[n].parent = NULL THEN n ELSE top[nodes[n].parent]
<1>1. Wired(tokens, nodes, props, root_node)
  BY DEF TreeInv
<1>2. PICK N \in Nat : N = Len(nodes)
  BY <1>1, WiredLengths
<1>3. \A n \in 1..N : nodes[n].parent \in 0..(n - 1) /\ nodes[n].parent = ParentIn(n)
  BY <1>1, <1>2, BlobTerms DEF Wired, Linked, Parents
<1> DEFINE stop == {n \in 1..N : nodes[n].parent = NULL}
           base == [n \in 1..N |-> n]
           up == [n \in 1..N |-> nodes[n].parent]
           P(f) == f = [n \in Nodes |-> IF ParentIn(n) = NULL THEN n ELSE f[ParentIn(n)]]
           Q(f) == IsChain(N, stop, base, up, f)
<1>4. \A n \in 1..N : /\ n \in stop <=> nodes[n].parent = NULL
                      /\ base[n] = n /\ up[n] = nodes[n].parent
  OBVIOUS
<1> HIDE DEF stop, base, up
<1>5. \A n \in 1..N : n \notin stop => up[n] \in 1..(n - 1)
  <2>1. \A n \in 1..N : n \notin stop => nodes[n].parent # 0 /\ nodes[n].parent \in 0..(n - 1) /\ up[n] = nodes[n].parent
    BY <1>3, <1>4 DEF NULL
  <2>2. \A n \in 1..N : \A x \in 0..(n - 1) : x # 0 => x \in 1..(n - 1)
    OBVIOUS
  <2> QED
    BY <2>1, <2>2
<1>6. ASSUME NEW f PROVE P(f) <=> Q(f)
  <2>1. \A n \in 1..N : (IF ParentIn(n) = NULL THEN n ELSE f[ParentIn(n)]) =
                        (IF n \in stop THEN base[n] ELSE f[up[n]])
    BY <1>3, <1>4
  <2>2. Nodes = 1..N
    BY <1>2 DEF Nodes
  <2> QED
    BY <2>1, <2>2 DEF IsChain
<1>7. \E f : Q(f)
  BY <1>5, ChainExists
<1> DEFINE top == CHOOSE f : P(f)
<1>8. Tree = {n \in Nodes : top[n] = root_node}
  BY DEF Tree
<1>9. P(top)
  <2> HIDE DEF P, Q
  <2> QED
    BY <1>6, <1>7
<1>10. \A n \in 1..N : top[n] = IF ParentIn(n) = NULL THEN n ELSE top[ParentIn(n)]
  <2> HIDE DEF top
  <2> QED
    BY <1>2, <1>9 DEF Nodes
<1> HIDE DEF top
<1>11. \A n \in 1..N : top[n] = IF nodes[n].parent = NULL THEN n ELSE top[nodes[n].parent]
  BY <1>3, <1>10
<1> QED
  BY <1>2, <1>8, <1>11 DEF Nodes

\* What a node inherits is what its parent passes on.
LEMMA InheritedStep ==
  ASSUME TreeInv, NEW name, NEW default, NEW n \in 1..Len(nodes)
  PROVE  Inherited(name, default)[n] =
           IF nodes[n].parent = NULL THEN default
           ELSE PassedOn(tokens, nodes[n].parent, name, Inherited(name, default)[nodes[n].parent])
<1>1. Wired(tokens, nodes, props, root_node)
  BY DEF TreeInv
<1>2. PICK N \in Nat : N = Len(nodes)
  BY <1>1, WiredLengths
<1>3. \A m \in 1..N : nodes[m].parent \in 0..(m - 1) /\ nodes[m].parent = ParentIn(m)
  BY <1>1, <1>2, BlobTerms DEF Wired, Linked, Parents
<1>4. \A m : Value(m, name) = ValuesOf(tokens, m, name)
  BY BlobTerms DEF Value, ValuesOf
<1> DEFINE V(m) == Value(m, name)
           E(f, m) == LET p == ParentIn(m)
                      IN  CASE p = NULL -> default
                            [] p # NULL /\ Value(p, name) # {} -> CHOOSE v \in Value(p, name) : TRUE
                            [] OTHER -> f[p]
           P(f) == f = [m \in Nodes |-> E(f, m)]
           stop == {m \in 1..N : ParentIn(m) = NULL \/ V(ParentIn(m)) # {}}
           base == [m \in 1..N |-> IF ParentIn(m) = NULL THEN default
                                   ELSE CHOOSE v \in V(ParentIn(m)) : TRUE]
           up == [m \in 1..N |-> ParentIn(m)]
           Q(f) == IsChain(N, stop, base, up, f)
<1>5. \A m \in 1..N : /\ m \in stop <=> ParentIn(m) = NULL \/ V(ParentIn(m)) # {}
                      /\ base[m] = IF ParentIn(m) = NULL THEN default
                                   ELSE CHOOSE v \in V(ParentIn(m)) : TRUE
                      /\ up[m] = ParentIn(m)
  <2> HIDE DEF V
  <2> QED
    OBVIOUS
<1> HIDE DEF stop, base, up
<1>6. \A m \in 1..N : m \notin stop => up[m] \in 1..(m - 1)
  <2>1. \A m \in 1..N : m \notin stop => ParentIn(m) # 0 /\ ParentIn(m) \in 0..(m - 1) /\ up[m] = ParentIn(m)
    BY <1>3, <1>5 DEF NULL
  <2>2. \A m \in 1..N : \A x \in 0..(m - 1) : x # 0 => x \in 1..(m - 1)
    OBVIOUS
  <2> QED
    BY <2>1, <2>2
<1>7. ASSUME NEW f, NEW m \in 1..N
      PROVE  E(f, m) = IF m \in stop THEN base[m] ELSE f[up[m]]
  <2>1. CASE ParentIn(m) = NULL
    BY <2>1, <1>5
  <2>2. CASE ParentIn(m) # NULL /\ V(ParentIn(m)) # {}
    BY <2>2, <1>5
  <2>3. CASE ParentIn(m) # NULL /\ V(ParentIn(m)) = {}
    BY <2>3, <1>5
  <2> QED
    BY <2>1, <2>2, <2>3
<1>8. ASSUME NEW f PROVE P(f) <=> Q(f)
  <2>1. Nodes = 1..N
    BY <1>2 DEF Nodes
  <2> HIDE DEF E
  <2> QED
    BY <2>1, <1>7 DEF IsChain
<1>9. \E f : Q(f)
  BY <1>6, ChainExists
<1> DEFINE cells == CHOOSE f : P(f)
<1>10. Inherited(name, default) = cells
  BY DEF Inherited
<1>11. P(cells)
  <2> HIDE DEF P, Q
  <2> QED
    BY <1>8, <1>9
<1>12. cells[n] = E(cells, n)
  <2> HIDE DEF cells, E
  <2> QED
    BY <1>11 DEF Nodes
<1> HIDE DEF cells
<1>13. cells[n] = IF ParentIn(n) = NULL THEN default
                  ELSE IF V(ParentIn(n)) # {} THEN CHOOSE v \in V(ParentIn(n)) : TRUE
                  ELSE cells[ParentIn(n)]
  <2>1. CASE ParentIn(n) = NULL
    BY <2>1, <1>12
  <2>2. CASE ParentIn(n) # NULL /\ V(ParentIn(n)) # {}
    BY <2>2, <1>12
  <2>3. CASE ParentIn(n) # NULL /\ V(ParentIn(n)) = {}
    BY <2>3, <1>12
  <2> QED
    BY <2>1, <2>2, <2>3
<1>14. V(ParentIn(n)) = ValuesOf(tokens, nodes[n].parent, name) /\ ParentIn(n) = nodes[n].parent
  BY <1>2, <1>3, <1>4
<1> HIDE DEF V
<1> QED
  BY <1>10, <1>13, <1>14 DEF PassedOn

-----------------------------------------------------------------------------
(***************************************************************************)
(* reg, put side by side again.                                            *)
(***************************************************************************)
Rejoined(v, ac, length) ==
  /\ \A i \in 1..v.n_pairs : Len(v.addresses[i]) = ac
  /\ FlattenSeq([i \in 1..v.n_pairs |-> v.addresses[i] \o v.sizes[i]]) = [c \in 1..length |-> c]

\* reg, cut into pairs of ac and sc cells, is the same cells in the same order.
LEMMA RegJoins ==
  ASSUME NEW ac \in 0..3, ac # 3, NEW sc \in 0..2, ac + sc # 0,
         NEW length \in Nat \ {0}, length % (ac + sc) = 0, NEW v, v = RegCut(ac, sc, length)
  PROVE  Rejoined(v, ac, length)
<1>1. PICK w \in Nat \ {0} : w = ac + sc
  OBVIOUS
<1>2. PICK n, r \in Nat : n = length \div w /\ r = length % w /\ length = w * n + r
  BY <1>1, Division
<1>3. length = n * w /\ n # 0 /\ n = length \div (ac + sc)
  BY <1>1, <1>2
<1>4. /\ v.n_pairs = n
      /\ v.addresses = [i \in 1..n |-> CellsFrom((i - 1) * (ac + sc), ac)]
      /\ v.sizes = [i \in 1..n |-> CellsFrom((i - 1) * (ac + sc) + ac, sc)]
  BY <1>3 DEF RegCut
<1>5. \A j : CellsFrom(j, ac) = Shifted(j, ac) /\ CellsFrom(j, sc) = Shifted(j, sc)
  BY DEF CellsFrom, Width, Shifted
<1>6. ac \in Nat /\ sc \in Nat
  OBVIOUS
<1>7. ASSUME NEW i \in 1..n
      PROVE  /\ v.addresses[i] \in Seq(Nat) /\ Len(v.addresses[i]) = ac
             /\ v.addresses[i] \o v.sizes[i] = Shifted((i - 1) * w, w)
  <2>1. /\ v.addresses[i] = CellsFrom((i - 1) * (ac + sc), ac)
        /\ v.sizes[i] = CellsFrom((i - 1) * (ac + sc) + ac, sc)
    BY <1>4
  <2>2. PICK a \in Nat : a = (i - 1) * w
    BY <1>1
  <2>3. v.addresses[i] = Shifted(a, ac) /\ v.sizes[i] = Shifted(a + ac, sc)
    BY <2>1, <2>2, <1>1, <1>5
  <2>4. /\ Shifted(a, ac) \in Seq(Nat) /\ Len(Shifted(a, ac)) = ac
        /\ Shifted(a, ac) \o Shifted(a + ac, sc) = Shifted(a, ac + sc)
    BY <2>2, <1>6, ShiftedJoin, ZenonT(60)
  <2> QED
    BY <2>2, <2>3, <2>4, <1>1
<1> DEFINE pairs == [i \in 1..n |-> v.addresses[i] \o v.sizes[i]]
<1>8. \A i \in 1..n : pairs[i] = Shifted((i - 1) * w, w)
  BY <1>7
<1>9. Len(pairs) = n
  <2>1. \A i \in 1..n : pairs[i] \in Seq(Nat)
    <3> SUFFICES ASSUME NEW i \in 1..n PROVE pairs[i] \in Seq(Nat)
      OBVIOUS
    <3>1. PICK a \in Nat : a = (i - 1) * w
      BY <1>1
    <3>2. w \in Nat
      BY <1>1
    <3>3. Shifted(a, w) \in Seq(Nat)
      BY <3>1, <3>2, ShiftedJoin
    <3> QED
      BY <3>1, <3>3, <1>8
  <2>2. pairs \in [1..n -> Seq(Nat)]
    BY <2>1
  <2> HIDE DEF pairs
  <2>3. pairs \in Seq(Seq(Nat)) /\ DOMAIN pairs = 1..n
    BY <2>2, SeqDef
  <2>4. DOMAIN pairs = 1..Len(pairs) /\ Len(pairs) \in Nat
    BY <2>3, LenProperties
  <2> QED
    BY <2>3, <2>4
<1>10. FlattenSeq(pairs) = Shifted(0, n * w)
  <2> HIDE DEF pairs
  <2> QED
    BY <1>1, <1>3, <1>8, <1>9, FlatShifted
<1>11. Shifted(0, n * w) = [c \in 1..length |-> c]
  BY <1>3 DEF Shifted
<1>12. FlattenSeq([i \in 1..v.n_pairs |-> v.addresses[i] \o v.sizes[i]]) = [c \in 1..length |-> c]
  BY <1>4, <1>10, <1>11
<1> QED
  BY <1>4, <1>7, <1>12 DEF Rejoined

-----------------------------------------------------------------------------
(***************************************************************************)
(* The parser has succeeded.                                               *)
(***************************************************************************)

\* The pass has entered the nodes of the tree and no others.
LEMMA TreeSeen ==
  ASSUME TreeInv, nodes[root_node].parent = NULL, root_node \in 1..Len(nodes),
         NEW seen, Reaches(nodes, root_node, seen, << >>, NoVisit)
  PROVE  Tree = seen /\ Done(seen, NoVisit) = seen
<1>1. PICK top : /\ Tree = {n \in 1..Len(nodes) : top[n] = root_node}
                 /\ \A n \in 1..Len(nodes) :
                      top[n] = IF nodes[n].parent = NULL THEN n ELSE top[nodes[n].parent]
  BY TreeTop
<1>2. Waiting(<< >>) = {}
  <2>1. 1..Len(<< >>) = {}
    BY EmptySeq
  <2> QED
    BY <2>1 DEF Waiting
<1>3. Done(seen, NoVisit) = seen
  <2>1. \A m \in seen : m \in 1..Len(nodes)
    BY DEF Reaches
  <2>2. 0 \notin seen
    BY <2>1
  <2> QED
    BY <2>2, NotVisiting DEF Done
<1>4. /\ root_node \in seen /\ \A m \in seen : m \in 1..Len(nodes)
      /\ \A m \in 1..Len(nodes) : nodes[m].parent \in seen => m \in seen
      /\ \A m \in seen : m = root_node \/ nodes[m].parent \in seen
  BY <1>2, <1>3 DEF Reaches
<1>5. PICK N \in Nat : N = Len(nodes)
  BY WiredLengths DEF TreeInv
<1>6. \A n \in 1..N : nodes[n].parent \in 0..(n - 1)
  BY <1>5 DEF TreeInv, Wired, Linked
<1> DEFINE T == {n \in 0..N : n # 0 => (top[n] = root_node <=> n \in seen)}
<1>7. ASSUME NEW n \in 0..N, \A m \in 0..(n - 1) : m \in T PROVE n \in T
  <2>1. CASE n = 0
    BY <2>1
  <2>2. CASE n # 0
    <3>1. n \in 1..Len(nodes) /\ n \in 1..N
      BY <2>2, <1>5
    <3>2. CASE nodes[n].parent = NULL
      <4>1. top[n] = n
        BY <3>1, <3>2, <1>1
      <4>2. 0 \notin seen
        BY <1>4
      <4>3. n \in seen <=> n = root_node
        BY <4>2, <3>2, <1>4 DEF NULL
      <4>4. n # 0 => (top[n] = root_node <=> n \in seen)
        BY <4>1, <4>3
      <4> QED
        BY <4>4
    <3>3. CASE nodes[n].parent # NULL
      <4>1. PICK p : p = nodes[n].parent
        OBVIOUS
      <4>2. p # 0 /\ p \in 0..(n - 1)
        BY <4>1, <3>1, <3>3, <1>6 DEF NULL
      <4>3. top[p] = root_node <=> p \in seen
        BY <4>2, <1>7
      <4>4. top[n] = top[p]
        BY <4>1, <3>1, <3>3, <1>1
      <4>5. n \in seen <=> p \in seen
        <5>1. n # root_node
          BY <3>3
        <5> QED
          BY <5>1, <4>1, <3>1, <1>4
      <4>6. n # 0 => (top[n] = root_node <=> n \in seen)
        BY <4>3, <4>4, <4>5
      <4> QED
        BY <4>6
    <3> QED
      BY <3>2, <3>3
  <2> QED
    BY <2>1, <2>2
<1>8. \A n \in 0..N : n \in T
  <2> HIDE DEF T
  <2> QED
    BY <1>5, <1>7, UpTo
<1>9. \A n \in 1..N : top[n] = root_node <=> n \in seen
  <2>1. \A n \in 1..N : n \in 0..N /\ n # 0
    OBVIOUS
  <2> QED
    BY <2>1, <1>8
<1>10. Tree = seen
  <2>1. \A n : n \in Tree <=> n \in 1..N /\ top[n] = root_node
    <3>1. Tree = {n \in 1..N : top[n] = root_node}
      BY <1>1, <1>5
    <3> QED
      BY <3>1
  <2>2. \A n : n \in Tree <=> n \in seen
    BY <2>1, <1>4, <1>5, <1>9
  <2> QED
    BY <2>2, Zenon
<1> QED
  BY <1>3, <1>10

\* The cells of the nodes entered are inherited.
LEMMA CellsAgree ==
  ASSUME TreeInv, nodes[root_node].parent = NULL, root_node \in 1..Len(nodes),
         NEW seen, Reaches(nodes, root_node, seen, << >>, NoVisit), Done(seen, NoVisit) = seen,
         CellsPassed(tokens, nodes, root_node, seen, << >>)
  PROVE  \A n \in seen :
           /\ n \in 1..Len(nodes)
           /\ nodes[n].address_cells = Inherited("#address-cells", DEFAULT_ADDRESS_CELLS)[n]
           /\ nodes[n].size_cells = Inherited("#size-cells", DEFAULT_SIZE_CELLS)[n]
<1> DEFINE ac == Inherited("#address-cells", DEFAULT_ADDRESS_CELLS)
           sc == Inherited("#size-cells", DEFAULT_SIZE_CELLS)
<1>1. \A n \in 1..Len(nodes) :
        ac[n] = IF nodes[n].parent = NULL THEN DEFAULT_ADDRESS_CELLS
                ELSE PassedOn(tokens, nodes[n].parent, "#address-cells", ac[nodes[n].parent])
  BY InheritedStep
<1>2. \A n \in 1..Len(nodes) :
        sc[n] = IF nodes[n].parent = NULL THEN DEFAULT_SIZE_CELLS
                ELSE PassedOn(tokens, nodes[n].parent, "#size-cells", sc[nodes[n].parent])
  BY InheritedStep
<1> HIDE DEF ac, sc
<1>3. Waiting(<< >>) = {}
  <2>1. 1..Len(<< >>) = {}
    BY EmptySeq
  <2> QED
    BY <2>1 DEF Waiting
<1>4. /\ \A m \in seen : m \in 1..Len(nodes)
      /\ \A m \in seen : m = root_node \/ nodes[m].parent \in seen
  BY <1>3 DEF Reaches
<1>5. PICK N \in Nat : N = Len(nodes)
  BY WiredLengths DEF TreeInv
<1>6. \A n \in 1..N : nodes[n].parent \in 0..(n - 1)
  BY <1>5 DEF TreeInv, Wired, Linked
<1>7. \A m \in seen : CellsOf(tokens, nodes, root_node, m, nodes[m].address_cells, nodes[m].size_cells)
  BY DEF CellsPassed
<1> DEFINE T == {n \in 0..N : n \in seen => nodes[n].address_cells = ac[n] /\ nodes[n].size_cells = sc[n]}
<1>8. ASSUME NEW n \in 0..N, \A m \in 0..(n - 1) : m \in T, n \in seen
      PROVE  nodes[n].address_cells = ac[n] /\ nodes[n].size_cells = sc[n]
  <2>1. n \in 1..Len(nodes)
    BY <1>4, <1>8
  <2>2. CellsOf(tokens, nodes, root_node, n, nodes[n].address_cells, nodes[n].size_cells)
    BY <1>7, <1>8
  <2>3. CASE n = root_node
    BY <2>1, <2>2, <2>3, <1>1, <1>2 DEF CellsOf
  <2>4. CASE n # root_node
    <3>1. PICK p : p = nodes[n].parent
      OBVIOUS
    <3>2. p \in seen /\ p \in 0..(n - 1)
      BY <3>1, <2>1, <2>4, <1>4, <1>5, <1>6, <1>8
    <3>3. p # NULL
      BY <3>2, <1>4 DEF NULL
    <3>4. nodes[p].address_cells = ac[p] /\ nodes[p].size_cells = sc[p]
      BY <3>2, <1>8
    <3>5. /\ nodes[n].address_cells = PassedOn(tokens, p, "#address-cells", nodes[p].address_cells)
          /\ nodes[n].size_cells = PassedOn(tokens, p, "#size-cells", nodes[p].size_cells)
      BY <3>1, <2>2, <2>4 DEF CellsOf
    <3> QED
      BY <3>1, <3>3, <3>4, <3>5, <2>1, <1>1, <1>2
  <2> QED
    BY <2>3, <2>4
<1>9. \A n \in 0..N : n \in T
  <2>1. ASSUME NEW n \in 0..N, \A m \in 0..(n - 1) : m \in T PROVE n \in T
    BY <2>1, <1>8
  <2> HIDE DEF T
  <2> QED
    BY <2>1, <1>5, UpTo
<1>10. \A n \in seen : n \in 0..N
  BY <1>4, <1>5
<1>11. \A n \in seen : nodes[n].address_cells = ac[n] /\ nodes[n].size_cells = sc[n]
  BY <1>9, <1>10
<1> QED
  BY <1>4, <1>11 DEF ac, sc

\* What the invariant says of a parser that has succeeded.
LEMMA PassEnded ==
  ASSUME TreeInv, PassInv, Succeeded
  PROVE  \E seen :
           /\ Passes(seen, tokens, nodes, props, root_node, phandle_map, << >>, NoVisit)
           /\ Tree = seen /\ Done(seen, NoVisit) = seen
           /\ \A n \in seen : n \in 1..Len(nodes)
           /\ nodes[root_node].parent = NULL /\ root_node \in 1..Len(nodes)
<1>1. /\ nodes[root_node].parent = NULL /\ root_node \in 1..Len(nodes)
      /\ todo = << >> /\ visit = NoVisit
      /\ \E seen : Passes(seen, tokens, nodes, props, root_node, phandle_map, todo, visit)
  BY DEF PassInv
<1>2. PICK seen : Passes(seen, tokens, nodes, props, root_node, phandle_map, << >>, NoVisit)
  BY <1>1
<1>3. Reaches(nodes, root_node, seen, << >>, NoVisit)
  BY <1>2 DEF Passes
<1>4. Tree = seen /\ Done(seen, NoVisit) = seen
  BY <1>1, <1>3, TreeSeen
<1>5. \A n \in seen : n \in 1..Len(nodes)
  BY <1>3 DEF Reaches
<1> QED
  BY <1>1, <1>2, <1>4, <1>5

\* The invariant says that the cells are inherited, and reg cut by them.
LEMMA PassInherits ==
  ASSUME TreeInv, PassInv
  PROVE  CellsInherited
<1> DEFINE ac == Inherited("#address-cells", DEFAULT_ADDRESS_CELLS)
           sc == Inherited("#size-cells", DEFAULT_SIZE_CELLS)
           Good(n, length) ==
             LET reg == props[device_tree_get_property(n, "reg")]
                 pairs == [i \in 1..reg.value.n_pairs |->
                             reg.value.addresses[i] \o reg.value.sizes[i]]
             IN  /\ reg.type = "REG"
                 /\ \A i \in DOMAIN pairs : ac[n] # 3 => Len(reg.value.addresses[i]) = ac[n]
                 /\ ac[n] # 3 => FlattenSeq(pairs) = [c \in 1..length |-> c]
<1>1. ASSUME Succeeded, NEW n \in Tree
      PROVE  /\ nodes[n].address_cells = ac[n] /\ nodes[n].size_cells = sc[n]
             /\ \A length \in Value(n, "reg") : Good(n, length)
  <2>1. PICK seen :
           /\ Passes(seen, tokens, nodes, props, root_node, phandle_map, << >>, NoVisit)
           /\ Tree = seen /\ Done(seen, NoVisit) = seen
           /\ \A m \in seen : m \in 1..Len(nodes)
           /\ nodes[root_node].parent = NULL /\ root_node \in 1..Len(nodes)
    BY <1>1, PassEnded
  <2>2. /\ Reaches(nodes, root_node, seen, << >>, NoVisit)
        /\ CellsPassed(tokens, nodes, root_node, seen, << >>)
        /\ Held(tokens, nodes, props, seen)
    BY <2>1 DEF Passes
  <2>3. n \in seen /\ n \in 1..Len(nodes)
    BY <2>1, <1>1
  <2>4. nodes[n].address_cells = ac[n] /\ nodes[n].size_cells = sc[n]
    BY <2>1, <2>2, <2>3, CellsAgree
  <2>5. ASSUME NEW length \in Value(n, "reg") PROVE Good(n, length)
    <3> DEFINE k == device_tree_get_property(n, "reg")
    <3>1. Value(n, "reg") = ValuesOf(tokens, n, "reg")
      BY BlobTerms DEF Value, ValuesOf
    <3>2. PropertiesListed(tokens, nodes, props) /\ Recorded(nodes, props)
      BY DEF TreeInv, Wired
    <3>3. ~(\A l \in Own(nodes, props, n) : props[l].name # "reg")
      BY <3>1, <3>2, <2>2, <2>3, <2>5, HoldsName
    <3>4. k \in Own(nodes, props, n) /\ props[k].name = "reg"
      BY <3>3, <2>3, PropertyFound
    <3> HIDE DEF k
    <3>5. PICK d : Holds(tokens, nodes, props, seen, n, k, d)
      BY <3>4, <2>2, <2>3 DEF Held
    <3>6. /\ ValuesOf(tokens, n, "reg") = {d} /\ d \in Nat \ {0}
          /\ Cut(nodes[n].address_cells, nodes[n].size_cells, props[k], d)
      BY <3>4, <3>5, <2>3 DEF Holds
    <3>7. length = d
      BY <3>1, <3>6
    <3>8. PICK a, s : a = ac[n] /\ s = sc[n]
      OBVIOUS
    <3>9. a \in 0..3 /\ s \in 0..2
      BY <3>2, <3>8, <2>3, <2>4 DEF Recorded, IsNode
    <3>10. /\ props[k].type = "REG" /\ a + s # 0 /\ length % (a + s) = 0
           /\ props[k].value = RegCut(a, s, length) /\ length \in Nat \ {0}
      BY <3>6, <3>7, <3>8, <2>4 DEF Cut
    <3>11. PICK v : v = props[k].value
      OBVIOUS
    <3>12. a # 3 => Rejoined(v, a, length)
      BY <3>9, <3>10, <3>11, RegJoins
    <3>13. DOMAIN [i \in 1..v.n_pairs |-> v.addresses[i] \o v.sizes[i]] = 1..v.n_pairs
      OBVIOUS
    <3> QED
      BY <3>8, <3>10, <3>11, <3>12, <3>13 DEF k, Rejoined
  <2> QED
    BY <2>4, <2>5
<1> QED
  BY <1>1 DEF CellsInherited

\* Elements of a list have their lists within it.
LEMMA SublistsWithin ==
  ASSUME NEW ns, Len(ns) \in Nat, \A n \in 1..Len(ns) : ns[n].sibling \in 0..(n - 1)
  PROVE  \A x \in 0..Len(ns) : \A m \in ToSet(SiblingsOf(ns)[x]) :
           \A e \in ToSet(SiblingsOf(ns)[m]) : e \in ToSet(SiblingsOf(ns)[x])
<1> DEFINE L(x) == ToSet(SiblingsOf(ns)[x])
<1>1. PICK N \in Nat : N = Len(ns)
  OBVIOUS
<1>2. L(0) = {} /\ \A n \in 1..N : L(n) = {n} \union L(ns[n].sibling)
  BY <1>1, SiblingsHold
<1> HIDE DEF L
<1> DEFINE T == {x \in 0..N : \A m \in L(x) : \A e \in L(m) : e \in L(x)}
<1>3. ASSUME NEW x \in 0..N, \A k \in 0..(x - 1) : k \in T PROVE x \in T
  <2>1. CASE x = 0
    BY <2>1, <1>2
  <2>2. CASE x # 0
    <3>1. PICK s : s = ns[x].sibling
      OBVIOUS
    <3>2. x \in 1..N /\ x \in 1..Len(ns)
      BY <2>2, <1>1
    <3>3. s \in 0..(x - 1)
      BY <3>1, <3>2
    <3>4. L(x) = {x} \union L(s) /\ s \in T
      BY <3>1, <3>2, <3>3, <1>2, <1>3
    <3>5. \A m \in L(s) : \A e \in L(m) : e \in L(s)
      BY <3>4
    <3>6. \A m \in L(x) : \A e \in L(m) : e \in L(x)
      BY <3>4, <3>5
    <3> QED
      BY <3>6
  <2> QED
    BY <2>1, <2>2
<1>4. \A x \in 0..N : x \in T
  <2> HIDE DEF T
  <2> QED
    BY <1>3, UpTo
<1> QED
  BY <1>1, <1>4 DEF L

\* The first child hangs below its parent, and siblings hang below the same one.
LEMMA Relatives ==
  ASSUME NEW ns, NEW ps, Len(ns) \in Nat, Linked(ns, ps), ChildrenListed(ns), NEW m \in 1..Len(ns)
  PROVE  /\ ns[m].children # 0 => ns[m].children \in 1..Len(ns) /\ ns[ns[m].children].parent = m
         /\ ns[m].sibling # 0 /\ ns[m].parent # 0 =>
              ns[m].sibling \in 1..(m - 1) /\ ns[ns[m].sibling].parent = ns[m].parent
<1> DEFINE L(x) == ToSet(SiblingsOf(ns)[x])
<1>1. PICK N \in Nat : N = Len(ns)
  OBVIOUS
<1>2. /\ \A n \in 1..N : ns[n].parent \in 0..(n - 1) /\ ns[n].sibling \in 0..(n - 1)
      /\ \A n \in 1..N : ns[n].children = 0 \/ ns[n].children \in (n + 1)..N
  BY <1>1 DEF Linked, NULL
<1>3. \A n \in 1..N : L(n) = {n} \union L(ns[n].sibling)
  BY <1>1, <1>2, SiblingsHold
<1>4. \A n \in 1..N : \A e : e \in L(ns[n].children) <=> e \in 1..N /\ ns[e].parent = n
  BY <1>1 DEF ChildrenListed
<1>5. \A x \in 0..N : \A n \in L(x) : \A e \in L(n) : e \in L(x)
  BY <1>1, <1>2, SublistsWithin
<1> HIDE DEF L
<1>6. ASSUME ns[m].children # 0
      PROVE  ns[m].children \in 1..Len(ns) /\ ns[ns[m].children].parent = m
  <2>1. PICK c : c = ns[m].children
    OBVIOUS
  <2>2. m \in 1..N /\ c \in (m + 1)..N
    BY <2>1, <1>1, <1>2, <1>6
  <2>3. c \in 1..N
    BY <2>2
  <2>4. c \in L(c)
    BY <2>3, <1>3
  <2> QED
    BY <2>1, <2>2, <2>3, <2>4, <1>1, <1>4
<1>7. ASSUME ns[m].sibling # 0, ns[m].parent # 0
      PROVE  ns[m].sibling \in 1..(m - 1) /\ ns[ns[m].sibling].parent = ns[m].parent
  <2>1. PICK s, p : s = ns[m].sibling /\ p = ns[m].parent
    OBVIOUS
  <2>2. m \in 1..N /\ s \in 0..(m - 1) /\ p \in 0..(m - 1) /\ s # 0 /\ p # 0
    BY <2>1, <1>1, <1>2, <1>7
  <2>3. s \in 1..(m - 1) /\ s \in 1..N /\ p \in 1..N
    BY <2>2
  <2>4. PICK c : c = ns[p].children
    OBVIOUS
  <2>5. m \in L(c) /\ \A e : e \in L(c) <=> e \in 1..N /\ ns[e].parent = p
    BY <2>1, <2>2, <2>3, <2>4, <1>4
  <2>6. s \in L(m)
    BY <2>1, <2>2, <2>3, <1>3
  <2>7. c \in 0..N
    <3>1. c = 0 \/ c \in (p + 1)..N
      BY <2>3, <2>4, <1>2
    <3> QED
      BY <3>1, <2>3
  <2>8. s \in L(c)
    BY <2>5, <2>6, <2>7, <1>5
  <2> QED
    BY <2>1, <2>3, <2>5, <2>8
<1> QED
  BY <1>6, <1>7

\* A greater parent counts for more than any difference of numbers.
LEMMA Layers ==
  ASSUME NEW N \in Nat, NEW p \in 0..N, NEW q \in 0..N, NEW m \in 0..N, NEW c \in 0..N,
         p < q \/ (p = q /\ c < m)
  PROVE  /\ (N - q) * (N + 1) + c < (N - p) * (N + 1) + m
         /\ (N - p) * (N + 1) + m \in 0..(N * (N + 1) + N)
<1>1. PICK u, v \in Nat : u = N - q /\ v = N - p
  OBVIOUS
<1>2. PICK W \in Nat : W = N + 1
  OBVIOUS
<1>3. PICK A, B, C \in Nat : A = u * W /\ B = v * W /\ C = N * W
  BY <1>1, <1>2
<1>4. A + c < B + m
  <2>1. CASE p < q
    <3>1. PICK e \in Nat : v = u + 1 + e
      <4>1. v - (u + 1) \in Nat /\ v = u + 1 + (v - (u + 1))
        BY <2>1, <1>1
      <4> QED
        BY <4>1
    <3>2. PICK E \in Nat : E = e * W
      BY <3>1, <1>2
    <3>3. (u + 1 + e) * W = u * W + W + e * W
      BY <3>1, <1>1, <1>2
    <3>4. B = A + W + E
      BY <3>1, <3>2, <3>3, <1>3
    <3> QED
      BY <3>2, <3>4, <1>2, <1>3
  <2>2. CASE p = q /\ c < m
    BY <2>2, <1>1, <1>3
  <2> QED
    BY <2>1, <2>2
<1>5. B + m \in 0..(C + N)
  <2>1. PICK e \in Nat : N = v + e
    <3>1. N - v \in Nat /\ N = v + (N - v)
      BY <1>1
    <3> QED
      BY <3>1
  <2>2. PICK E \in Nat : E = e * W
    BY <2>1, <1>2
  <2>3. (v + e) * W = v * W + e * W
    BY <2>1, <1>1, <1>2
  <2>4. C = B + E
    BY <2>1, <2>2, <2>3, <1>3
  <2> QED
    BY <2>2, <2>4, <1>3
<1> QED
  BY <1>1, <1>2, <1>3, <1>4, <1>5

\* Nodes that list the string end the search.
Listing(ns, c) == {m \in 0..Len(ns) : m # 0 => c \in ToSet(ns[m].compatible)}

Ids(N) == [m \in 0..N |-> m]

FirstChild(ns) == [m \in 0..Len(ns) |-> ns[m].children]

NextSibling(ns) == [m \in 0..Len(ns) |-> ns[m].sibling]

\* The search for a compatible node goes down or to older siblings.
LEMMA SearchRanked ==
  ASSUME NEW ns, NEW ps, Len(ns) \in Nat, Linked(ns, ps), ChildrenListed(ns), NEW c
  PROVE  \E rank, R : Ranked(0..Len(ns), Listing(ns, c), FirstChild(ns), NextSibling(ns), rank, R)
<1>1. PICK N \in Nat : N = Len(ns)
  OBVIOUS
<1>2. /\ \A n \in 1..N : ns[n].parent \in 0..(n - 1) /\ ns[n].sibling \in 0..(n - 1)
      /\ \A n \in 1..N : ns[n].children = 0 \/ ns[n].children \in (n + 1)..N
  BY <1>1 DEF Linked, NULL
<1>3. \A m \in 1..N :
        /\ ns[m].children # 0 => ns[m].children \in 1..N /\ ns[ns[m].children].parent = m
        /\ ns[m].sibling # 0 /\ ns[m].parent # 0 =>
             ns[m].sibling \in 1..(m - 1) /\ ns[ns[m].sibling].parent = ns[m].parent
  BY <1>1, Relatives
<1> DEFINE rank == [m \in 0..N |-> IF m = 0 THEN 0 ELSE (N - ns[m].parent) * (N + 1) + m]
           R == N * (N + 1) + N
<1>4. /\ rank[0] = 0
      /\ \A m \in 1..N : rank[m] = (N - ns[m].parent) * (N + 1) + m
  OBVIOUS
<1>5. R \in Nat
  <2>1. N * (N + 1) \in Nat
    OBVIOUS
  <2> QED
    BY <2>1
<1> HIDE DEF rank
<1>6. \A m \in 1..N : ns[m].parent \in 0..N /\ m \in 0..N /\ ns[m].parent < m
  BY <1>2
<1>7. ASSUME NEW m \in 1..N PROVE rank[m] \in 0..R /\ 0 < rank[m]
  <2>1. PICK p : p = ns[m].parent
    OBVIOUS
  <2>2. p \in 0..N /\ m \in 0..N /\ p < m /\ rank[m] = (N - p) * (N + 1) + m
    BY <2>1, <1>4, <1>6
  <2>3. PICK z \in 0..N : z < m /\ z = 0
    OBVIOUS
  <2>4. /\ (N - m) * (N + 1) + z < (N - p) * (N + 1) + m
        /\ (N - p) * (N + 1) + m \in 0..(N * (N + 1) + N)
    BY <2>2, <2>3, Layers
  <2>5. (N - m) * (N + 1) \in Nat
    <3>1. N - m \in Nat /\ N + 1 \in Nat
      OBVIOUS
    <3> QED
      BY <3>1
  <2> HIDE DEF R
  <2>6. rank[m] \in 0..R
    BY <2>2, <2>4 DEF R
  <2>7. (N - m) * (N + 1) + z < rank[m]
    BY <2>2, <2>4
  <2> QED
    BY <2>3, <2>5, <2>6, <2>7, <1>5
<1> HIDE DEF R
<1>8. ASSUME NEW m \in 1..N, NEW x \in 1..N, ns[m].parent < ns[x].parent \/ (ns[m].parent = ns[x].parent /\ x < m)
      PROVE  rank[x] < rank[m]
  <2>1. PICK p, q : p = ns[m].parent /\ q = ns[x].parent
    OBVIOUS
  <2>2. p \in 0..N /\ q \in 0..N /\ m \in 0..N /\ x \in 0..N /\ (p < q \/ (p = q /\ x < m))
    BY <2>1, <1>6, <1>8
  <2>3. (N - q) * (N + 1) + x < (N - p) * (N + 1) + m
    BY <2>2, Layers
  <2>4. rank[x] = (N - q) * (N + 1) + x /\ rank[m] = (N - p) * (N + 1) + m
    BY <2>1, <1>4
  <2> QED
    BY <2>3, <2>4
<1> DEFINE stop == Listing(ns, c)  a == FirstChild(ns)  b == NextSibling(ns)
<1>9. /\ \A m \in 0..N : a[m] = ns[m].children /\ b[m] = ns[m].sibling
      /\ \A m \in 0..N : m \notin stop => m \in 1..N
  <2>1. 0 \in stop
    BY <1>1 DEF Listing
  <2> QED
    BY <2>1, <1>1 DEF FirstChild, NextSibling
<1> HIDE DEF stop, a, b
<1>10. ASSUME NEW m \in (0..N) \ stop
       PROVE  /\ a[m] \in 0..N /\ rank[a[m]] < rank[m]
              /\ b[m] \in 0..N /\ rank[b[m]] < rank[m]
  <2>1. PICK x, s : x = ns[m].children /\ s = ns[m].sibling
    OBVIOUS
  <2>2. m \in 1..N /\ a[m] = x /\ b[m] = s
    BY <2>1, <1>9
  <2>3. x \in 0..N /\ rank[x] < rank[m]
    <3>1. CASE x = 0
      BY <3>1, <2>2, <1>4, <1>7
    <3>2. CASE x # 0
      <4>1. x \in 1..N /\ ns[x].parent = m
        BY <3>2, <2>1, <2>2, <1>3
      <4>2. ns[m].parent < ns[x].parent
        BY <4>1, <2>2, <1>6
      <4> QED
        BY <4>1, <4>2, <2>2, <1>8
    <3> QED
      BY <3>1, <3>2
  <2>4. s \in 0..N /\ rank[s] < rank[m]
    <3>1. CASE s = 0
      BY <3>1, <2>2, <1>4, <1>7
    <3>2. CASE s # 0
      <4>1. s \in 1..N /\ s < m
        <5>1. s \in 0..(m - 1)
          BY <2>1, <2>2, <1>2
        <5> QED
          BY <5>1, <3>2, <2>2
      <4>2. CASE ns[m].parent # 0
        <5>1. ns[s].parent = ns[m].parent
          BY <4>2, <3>2, <2>1, <2>2, <1>3
        <5> QED
          BY <5>1, <4>1, <2>2, <1>8
      <4>3. CASE ns[m].parent = 0
        <5>1. ns[s].parent \in 0..N
          BY <4>1, <1>6
        <5>2. ns[m].parent < ns[s].parent \/ ns[m].parent = ns[s].parent
          BY <5>1, <4>3
        <5> QED
          BY <5>2, <4>1, <2>2, <1>8
      <4> QED
        BY <4>2, <4>3
    <3> QED
      BY <3>1, <3>2
  <2> QED
    BY <2>2, <2>3, <2>4
<1>11. \A m \in 0..N : rank[m] \in 0..R
  <2>1. \A m \in 0..N : m = 0 \/ m \in 1..N
    OBVIOUS
  <2>2. 0 \in 0..R
    BY <1>5
  <2> QED
    BY <2>1, <2>2, <1>4, <1>7
<1>12. Ranked(0..N, stop, a, b, rank, R)
  BY <1>5, <1>10, <1>11 DEF Ranked
<1> QED
  BY <1>1, <1>12 DEF stop, a, b

\* Nodes among which the search has found nothing.
Missed(ns, c, Z) ==
  \A m \in Z : m = 0 \/ /\ m \in 1..Len(ns) /\ c \notin ToSet(ns[m].compatible)
                        /\ ns[m].children \in Z /\ ns[m].sibling \in Z

\* dt_node_from_compatible finds a node that lists the string, or has missed
\* all it was led to.
LEMMA SearchFinds ==
  ASSUME TreeInv, NEW c, root_node \in 1..Len(nodes)
  PROVE  \/ /\ dt_node_from_compatible(c) \in 1..Len(nodes)
            /\ c \in ToSet(nodes[dt_node_from_compatible(c)].compatible)
         \/ dt_node_from_compatible(c) = 0 /\ \E Z : root_node \in Z /\ Missed(nodes, c, Z)
<1> DEFINE stop == Listing(nodes, c)
           base == Ids(Len(nodes))
           a == FirstChild(nodes)
           b == NextSibling(nodes)
           E(f, m) == CASE m = NULL -> NULL
                        [] m # NULL /\ c \in ToSet(nodes[m].compatible) -> m
                        [] OTHER -> IF f[nodes[m].children] # NULL THEN f[nodes[m].children]
                                                                   ELSE f[nodes[m].sibling]
           P(f) == f = [m \in 0..Len(nodes) |-> E(f, m)]
           Q(f) == IsBranch(0..Len(nodes), stop, base, a, b, f)
<1>1. Wired(tokens, nodes, props, root_node)
  BY DEF TreeInv
<1>2. Len(nodes) \in Nat /\ Linked(nodes, props) /\ ChildrenListed(nodes)
  BY <1>1, WiredLengths DEF Wired
<1>3. PICK rank, R : Ranked(0..Len(nodes), stop, a, b, rank, R)
  BY <1>2, SearchRanked
<1>4. \A m \in 0..Len(nodes) :
        /\ m \in stop <=> m = 0 \/ c \in ToSet(nodes[m].compatible)
        /\ base[m] = m /\ a[m] = nodes[m].children /\ b[m] = nodes[m].sibling
  BY DEF Listing, Ids, FirstChild, NextSibling
<1> HIDE DEF stop, base, a, b
<1>5. ASSUME NEW f, NEW m \in 0..Len(nodes) PROVE E(f, m) = Chosen(stop, base, a, b, f, m)
  <2>1. CASE m = 0
    <3>1. E(f, m) = 0
      BY <2>1 DEF NULL
    <3>2. Chosen(stop, base, a, b, f, m) = 0
      BY <2>1, <1>4 DEF Chosen
    <3> QED
      BY <3>1, <3>2
  <2>2. CASE m # 0 /\ c \in ToSet(nodes[m].compatible)
    <3>1. E(f, m) = m
      BY <2>2 DEF NULL
    <3>2. Chosen(stop, base, a, b, f, m) = m
      BY <2>2, <1>4 DEF Chosen
    <3> QED
      BY <3>1, <3>2
  <2>3. CASE m # 0 /\ c \notin ToSet(nodes[m].compatible)
    <3>1. E(f, m) = IF f[nodes[m].children] # 0 THEN f[nodes[m].children] ELSE f[nodes[m].sibling]
      BY <2>3 DEF NULL
    <3>2. Chosen(stop, base, a, b, f, m) =
            IF f[nodes[m].children] # 0 THEN f[nodes[m].children] ELSE f[nodes[m].sibling]
      BY <2>3, <1>4 DEF Chosen
    <3> QED
      BY <3>1, <3>2
  <2> QED
    BY <2>1, <2>2, <2>3
<1>6. ASSUME NEW f PROVE P(f) <=> Q(f)
  <2> HIDE DEF E
  <2>1. [m \in 0..Len(nodes) |-> E(f, m)] = [m \in 0..Len(nodes) |-> Chosen(stop, base, a, b, f, m)]
    BY <1>5
  <2> QED
    BY <2>1 DEF IsBranch
<1>7. \E f : Q(f)
  BY <1>3, BranchExists
<1> DEFINE find == CHOOSE f : P(f)
<1>8. dt_node_from_compatible(c) = find[root_node]
  BY DEF dt_node_from_compatible, from_compatible_recursive
<1>9. Q(find)
  <2> HIDE DEF P, Q
  <2>1. P(find)
    BY <1>6, <1>7
  <2> QED
    BY <2>1, <1>6
<1> HIDE DEF find, P, E
<1>10. \A m \in 0..Len(nodes) : find[m] = Chosen(stop, base, a, b, find, m)
  BY <1>9, BranchStep
<1>11. \A x \in 0..Len(nodes) : \E y \in 0..Len(nodes) : y \in stop /\ find[x] = base[y]
  BY <1>3, <1>9, BranchEnds
<1>12. root_node \in 0..Len(nodes)
  BY <1>2
<1>13. PICK y \in 0..Len(nodes) : y \in stop /\ find[root_node] = y
  BY <1>4, <1>11, <1>12
<1>14. CASE y # 0
  <2>1. y \in 1..Len(nodes) /\ c \in ToSet(nodes[y].compatible)
    BY <1>4, <1>13, <1>14
  <2> QED
    BY <2>1, <1>8, <1>13
<1>15. CASE y = 0
  <2> DEFINE Z == {m \in 0..Len(nodes) : find[m] = 0}
  <2>1. ASSUME NEW m \in Z, m # 0
        PROVE  /\ m \in 1..Len(nodes) /\ c \notin ToSet(nodes[m].compatible)
               /\ nodes[m].children \in Z /\ nodes[m].sibling \in Z
    <3>1. m \in 0..Len(nodes) /\ m \in 1..Len(nodes) /\ find[m] = 0
      BY <2>1, <1>2
    <3>2. m \notin stop
      BY <3>1, <2>1, <1>4, <1>10 DEF Chosen
    <3>3. c \notin ToSet(nodes[m].compatible)
      BY <3>1, <3>2, <1>4
    <3>4. a[m] \in 0..Len(nodes) /\ b[m] \in 0..Len(nodes)
      BY <3>1, <3>2, <1>3 DEF Ranked
    <3>5. find[a[m]] = 0 /\ find[b[m]] = 0
      BY <3>1, <3>2, <1>10 DEF Chosen
    <3>6. a[m] \in Z /\ b[m] \in Z
      BY <3>4, <3>5
    <3> QED
      BY <3>1, <3>3, <3>6, <1>4
  <2>2. root_node \in Z
    BY <1>12, <1>13, <1>15
  <2> HIDE DEF Z
  <2>3. Missed(nodes, c, Z)
    BY <2>1 DEF Missed
  <2> QED
    BY <2>2, <2>3, <1>8, <1>13, <1>15
<1> QED
  BY <1>14, <1>15

\* A search that has missed the root and all it was led to has missed the tree.
LEMMA MissedAll ==
  ASSUME TreeInv, NEW c, NEW Z, root_node \in Z, Missed(nodes, c, Z),
         NEW seen, \A n \in seen : n \in 1..Len(nodes),
         \A n \in seen : n = root_node \/ nodes[n].parent \in seen
  PROVE  \A n \in seen : c \notin ToSet(nodes[n].compatible)
<1> DEFINE L(x) == ToSet(SiblingsOf(nodes)[x])
<1>1. Wired(tokens, nodes, props, root_node)
  BY DEF TreeInv
<1>2. PICK N \in Nat : N = Len(nodes)
  BY <1>1, WiredLengths
<1>3. Linked(nodes, props) /\ ChildrenListed(nodes)
  BY <1>1 DEF Wired
<1>4. /\ \A n \in 1..N : nodes[n].parent \in 0..(n - 1) /\ nodes[n].sibling \in 0..(n - 1)
      /\ \A n \in 1..N : nodes[n].children = 0 \/ nodes[n].children \in (n + 1)..N
  BY <1>2, <1>3 DEF Linked, NULL
<1>5. L(0) = {} /\ \A n \in 1..N : L(n) = {n} \union L(nodes[n].sibling)
  BY <1>2, <1>4, SiblingsHold
<1>6. \A n \in 1..N : \A e : e \in L(nodes[n].children) <=> e \in 1..N /\ nodes[e].parent = n
  BY <1>2, <1>3 DEF ChildrenListed
<1> HIDE DEF L
<1> DEFINE T == {x \in 0..N : x \in Z => \A m \in L(x) : m \in Z}
<1>7. ASSUME NEW x \in 0..N, \A k \in 0..(x - 1) : k \in T PROVE x \in T
  <2>1. CASE x = 0
    BY <2>1, <1>5
  <2>2. CASE x # 0
    <3>1. PICK s : s = nodes[x].sibling
      OBVIOUS
    <3>2. x \in 1..N
      BY <2>2
    <3>3. s \in 0..(x - 1) /\ L(x) = {x} \union L(s)
      BY <3>1, <3>2, <1>4, <1>5
    <3>4. s \in Z => \A m \in L(s) : m \in Z
      BY <3>3, <1>7
    <3>5. x \in Z => s \in Z
      BY <3>1, <2>2 DEF Missed
    <3>6. x \in Z => \A m \in L(x) : m \in Z
      BY <3>3, <3>4, <3>5
    <3> QED
      BY <3>6
  <2> QED
    BY <2>1, <2>2
<1>8. \A x \in 0..N : x \in Z => \A m \in L(x) : m \in Z
  <2>1. \A x \in 0..N : x \in T
    <3> HIDE DEF T
    <3> QED
      BY <1>2, <1>7, UpTo
  <2> QED
    BY <2>1
<1> DEFINE U == {n \in 0..N : n \in seen => n \in Z}
<1>9. ASSUME NEW n \in 0..N, \A k \in 0..(n - 1) : k \in U PROVE n \in U
  <2>1. CASE n \notin seen \/ n = root_node
    BY <2>1
  <2>2. CASE n \in seen /\ n # root_node
    <3>1. PICK p : p = nodes[n].parent
      OBVIOUS
    <3>2. n \in 1..N /\ p \in seen /\ p \in 1..N
      BY <3>1, <2>2, <1>2
    <3>3. p \in 0..(n - 1)
      BY <3>1, <3>2, <1>4
    <3>4. p \in Z /\ p # 0
      BY <3>2, <3>3, <1>9
    <3>5. PICK x : x = nodes[p].children
      OBVIOUS
    <3>6. x \in Z
      BY <3>4, <3>5 DEF Missed
    <3>7. n \in L(x)
      BY <3>1, <3>2, <3>5, <1>6
    <3>8. x \in 0..N
      <4>1. x = 0 \/ x \in (p + 1)..N
        BY <3>2, <3>5, <1>4
      <4> QED
        BY <4>1, <3>2
    <3>9. n \in Z
      BY <3>6, <3>7, <3>8, <1>8
    <3> QED
      BY <3>9
  <2> QED
    BY <2>1, <2>2
<1>10. \A n \in 0..N : n \in U
  <2> HIDE DEF U
  <2> QED
    BY <1>2, <1>9, UpTo
<1>11. ASSUME NEW n \in seen PROVE c \notin ToSet(nodes[n].compatible)
  <2>1. n \in 0..N /\ n # 0
    BY <1>2
  <2>2. n \in Z
    BY <2>1, <1>10
  <2> QED
    BY <2>1, <2>2 DEF Missed
<1> QED
  BY <1>11

\* When the pass has ended, the properties of the nodes entered have been read.
LEMMA AllRead ==
  ASSUME NEW ns, NEW ps, NEW seen, NEW n \in 1..Len(ns)
  PROVE  ReadOf(ns, ps, seen, NoVisit, n) = IF n \in seen THEN Own(ns, ps, n) ELSE {}
<1>1. n # NoVisit.node
  BY NotVisiting
<1> QED
  BY <1>1 DEF ReadOf

Lists(t, ns, seen, n, c) ==
  c \in ToSet(ns[n].compatible) <=>
    n \in seen /\ \E v \in ValuesOf(t, n, "compatible") : c \in ToSet(v)

\* A node lists the strings of its compatible property, once entered.
LEMMA CompatibleSet ==
  ASSUME NEW t, NEW ns, NEW ps, NEW seen, NEW done, Held(t, ns, ps, done), PropertiesListed(t, ns, ps),
         NEW pm, Applied(ns, ps, seen, NoVisit, pm), NEW n \in 1..Len(ns), NEW c
  PROVE  Lists(t, ns, seen, n, c)
<1>1. /\ ValuesOf(t, n, "compatible") = {} <=> \A k \in Own(ns, ps, n) : ps[k].name # "compatible"
      /\ \A k \in Own(ns, ps, n) : ps[k].name = "compatible" /\ "compatible" # "reg" =>
           ValuesOf(t, n, "compatible") = {ps[k].value}
  BY HoldsName
<1>2. TakenFrom(ps, ReadOf(ns, ps, seen, NoVisit, n), "compatible", ns[n].compatible, << >>)
  BY DEF Applied
<1>3. ReadOf(ns, ps, seen, NoVisit, n) = IF n \in seen THEN Own(ns, ps, n) ELSE {}
  BY AllRead
<1>4. ToSet(<< >>) = {}
  BY DEF ToSet
<1>5. CASE n \notin seen
  <2>1. ns[n].compatible = << >>
    BY <1>2, <1>3, <1>5 DEF TakenFrom
  <2> QED
    BY <2>1, <1>4, <1>5 DEF Lists
<1>6. CASE n \in seen /\ ValuesOf(t, n, "compatible") = {}
  <2>1. ns[n].compatible = << >>
    BY <1>1, <1>2, <1>3, <1>6 DEF TakenFrom
  <2> QED
    BY <2>1, <1>4, <1>6 DEF Lists
<1>7. CASE n \in seen /\ ValuesOf(t, n, "compatible") # {}
  <2>1. PICK k \in Own(ns, ps, n) : ps[k].name = "compatible"
    BY <1>1, <1>7
  <2>2. ValuesOf(t, n, "compatible") = {ps[k].value}
    BY <2>1, <1>1
  <2>3. ns[n].compatible = ps[k].value
    BY <2>1, <1>2, <1>3, <1>7 DEF TakenFrom
  <2> QED
    BY <2>2, <2>3, <1>7 DEF Lists
<1> QED
  BY <1>5, <1>6, <1>7

\* The phandle map holds the phandles of the nodes entered.
LEMMA PhandlesMapped ==
  ASSUME NEW t, NEW ns, NEW ps, NEW seen, NEW done, Held(t, ns, ps, done), PropertiesListed(t, ns, ps),
         NEW pm, Applied(ns, ps, seen, NoVisit, pm), \A n \in seen : n \in 1..Len(ns)
  PROVE  ToSet(pm) = UNION {{[phandle |-> v, node |-> n] : v \in ValuesOf(t, n, "phandle")} : n \in seen}
<1> DEFINE entry(v, n) == [phandle |-> v, node |-> n]
<1>1. \A e : e \in ToSet(pm) <=>
       \E n \in 1..Len(ns) : \E k \in ReadOf(ns, ps, seen, NoVisit, n) :
         ps[k].name = "phandle" /\ e = entry(ps[k].value, n)
  BY DEF Applied
<1>2. \A n \in 1..Len(ns) : ReadOf(ns, ps, seen, NoVisit, n) = IF n \in seen THEN Own(ns, ps, n) ELSE {}
  BY AllRead
<1> HIDE DEF entry
<1>3. \A e : e \in ToSet(pm) <=>
        \E n \in seen : \E k \in Own(ns, ps, n) : ps[k].name = "phandle" /\ e = entry(ps[k].value, n)
  <2>1. ASSUME NEW e, NEW n \in 1..Len(ns), NEW k \in ReadOf(ns, ps, seen, NoVisit, n),
               ps[k].name = "phandle", e = entry(ps[k].value, n)
        PROVE  \E m \in seen : \E l \in Own(ns, ps, m) : ps[l].name = "phandle" /\ e = entry(ps[l].value, m)
    <3>1. n \in seen /\ k \in Own(ns, ps, n)
      BY <2>1, <1>2
    <3> QED
      BY <3>1, <2>1
  <2>2. ASSUME NEW e, NEW n \in seen, NEW k \in Own(ns, ps, n), ps[k].name = "phandle",
               e = entry(ps[k].value, n)
        PROVE  \E m \in 1..Len(ns) : \E l \in ReadOf(ns, ps, seen, NoVisit, m) :
                 ps[l].name = "phandle" /\ e = entry(ps[l].value, m)
    <3>1. n \in 1..Len(ns) /\ k \in ReadOf(ns, ps, seen, NoVisit, n)
      BY <2>2, <1>2
    <3> QED
      BY <3>1, <2>2
  <2> QED
    BY <2>1, <2>2, <1>1
<1>4. ASSUME NEW n \in seen
      PROVE  \A e : (\E k \in Own(ns, ps, n) : ps[k].name = "phandle" /\ e = entry(ps[k].value, n)) <=>
                    (\E v \in ValuesOf(t, n, "phandle") : e = entry(v, n))
  <2>1. n \in 1..Len(ns)
    OBVIOUS
  <2>2. /\ ValuesOf(t, n, "phandle") = {} <=> \A k \in Own(ns, ps, n) : ps[k].name # "phandle"
        /\ \A k \in Own(ns, ps, n) : ps[k].name = "phandle" /\ "phandle" # "reg" =>
             ValuesOf(t, n, "phandle") = {ps[k].value}
    BY <2>1, HoldsName
  <2>3. \A k \in Own(ns, ps, n) : ps[k].name = "phandle" => ValuesOf(t, n, "phandle") = {ps[k].value}
    BY <2>2
  <2>4. CASE ValuesOf(t, n, "phandle") = {}
    BY <2>2, <2>4
  <2>5. CASE ValuesOf(t, n, "phandle") # {}
    <3>1. PICK k \in Own(ns, ps, n) : ps[k].name = "phandle"
      BY <2>2, <2>5
    <3>2. ValuesOf(t, n, "phandle") = {ps[k].value}
      BY <3>1, <2>3
    <3>3. \A l \in Own(ns, ps, n) : ps[l].name = "phandle" => ps[l].value = ps[k].value
      BY <3>2, <2>3
    <3> QED
      BY <3>1, <3>2, <3>3
  <2> QED
    BY <2>4, <2>5
<1>5. \A e : e \in ToSet(pm) <=> \E n \in seen : \E v \in ValuesOf(t, n, "phandle") : e = entry(v, n)
  <2> SUFFICES ASSUME NEW e
               PROVE  e \in ToSet(pm) <=> \E n \in seen : \E v \in ValuesOf(t, n, "phandle") : e = entry(v, n)
    OBVIOUS
  <2> DEFINE X(n) == \E k \in Own(ns, ps, n) : ps[k].name = "phandle" /\ e = entry(ps[k].value, n)
             Y(n) == \E v \in ValuesOf(t, n, "phandle") : e = entry(v, n)
  <2>1. e \in ToSet(pm) <=> \E n \in seen : X(n)
    BY <1>3
  <2>2. \A n \in seen : X(n) <=> Y(n)
    BY <1>4
  <2>3. e \in ToSet(pm) <=> \E n \in seen : Y(n)
    <3> HIDE DEF X, Y
    <3> QED
      BY <2>1, <2>2
  <2> QED
    BY <2>3
<1>6. \A e : e \in ToSet(pm) <=>
             e \in UNION {{entry(v, n) : v \in ValuesOf(t, n, "phandle")} : n \in seen}
  BY <1>5
<1>7. ToSet(pm) = UNION {{entry(v, n) : v \in ValuesOf(t, n, "phandle")} : n \in seen}
  BY <1>6, Zenon
<1> QED
  BY <1>7 DEF entry

\* The invariant says that the queries find what the blob declares.
LEMMA PassLooksUp ==
  ASSUME TreeInv, PassInv
  PROVE  LookupFinds
<1> DEFINE listing(c) == {n \in Tree : \E v \in Value(n, "compatible") : c \in ToSet(v)}
           A(c) == IF listing(c) = {} THEN dt_node_from_compatible(c) = NULL
                   ELSE dt_node_from_compatible(c) \in listing(c)
           B(n, name) == LET k == device_tree_get_property(n, name)
                         IN  IF Value(n, name) = {} THEN k = NULL ELSE k # NULL /\ props[k].name = name
           C == ToSet(phandle_map) =
                  UNION {{[phandle |-> v, node |-> n] : v \in Value(n, "phandle")} : n \in Tree}
<1>1. ASSUME Succeeded PROVE (\A c : A(c)) /\ (\A n \in Tree : \A name : B(n, name)) /\ C
  <2>1. PICK seen :
           /\ Passes(seen, tokens, nodes, props, root_node, phandle_map, << >>, NoVisit)
           /\ Tree = seen /\ Done(seen, NoVisit) = seen
           /\ \A m \in seen : m \in 1..Len(nodes)
           /\ nodes[root_node].parent = NULL /\ root_node \in 1..Len(nodes)
    BY <1>1, PassEnded
  <2>2. /\ Reaches(nodes, root_node, seen, << >>, NoVisit)
        /\ Applied(nodes, props, seen, NoVisit, phandle_map)
        /\ Held(tokens, nodes, props, seen)
    BY <2>1 DEF Passes
  <2>3. PropertiesListed(tokens, nodes, props)
    BY DEF TreeInv, Wired
  <2>4. \A m, name : Value(m, name) = ValuesOf(tokens, m, name)
    BY BlobTerms DEF Value, ValuesOf
  <2>5. \A n \in seen : n = root_node \/ nodes[n].parent \in seen
    <3>1. 1..Len(<< >>) = {}
      BY EmptySeq
    <3>2. Waiting(<< >>) = {}
      BY <3>1 DEF Waiting
    <3> QED
      BY <3>2, <2>1, <2>2 DEF Reaches
  <2>6. ASSUME NEW c PROVE A(c)
    <3>1. ASSUME NEW n \in 1..Len(nodes)
          PROVE  c \in ToSet(nodes[n].compatible) <=>
                   n \in seen /\ \E v \in ValuesOf(tokens, n, "compatible") : c \in ToSet(v)
      <4>1. Lists(tokens, nodes, seen, n, c)
        BY <2>2, <2>3, CompatibleSet
      <4> QED
        BY <4>1 DEF Lists
    <3>2. \A n \in 1..Len(nodes) : c \in ToSet(nodes[n].compatible) <=> n \in listing(c)
      BY <3>1, <2>1, <2>4
    <3>3. \A n \in listing(c) : n \in seen
      BY <2>1
    <3> HIDE DEF listing
    <3>4. CASE /\ dt_node_from_compatible(c) \in 1..Len(nodes)
               /\ c \in ToSet(nodes[dt_node_from_compatible(c)].compatible)
      BY <3>2, <3>4
    <3>5. CASE dt_node_from_compatible(c) = 0 /\ \E Z : root_node \in Z /\ Missed(nodes, c, Z)
      <4>1. PICK Z : root_node \in Z /\ Missed(nodes, c, Z)
        BY <3>5
      <4>2. \A n \in seen : c \notin ToSet(nodes[n].compatible)
        BY <4>1, <2>1, <2>5, MissedAll
      <4>3. listing(c) = {}
        BY <4>2, <3>2, <3>3, <2>1
      <4> QED
        BY <4>3, <3>5 DEF NULL
    <3> QED
      BY <3>4, <3>5, <2>1, SearchFinds
  <2>7. ASSUME NEW n \in Tree, NEW name PROVE B(n, name)
    <3> DEFINE k == device_tree_get_property(n, name)
    <3>1. n \in 1..Len(nodes)
      BY <2>1
    <3>2. \/ k = NULL /\ \A l \in Own(nodes, props, n) : props[l].name # name
          \/ k # NULL /\ k \in 1..Len(props) /\ k \in Own(nodes, props, n) /\ props[k].name = name
      BY <3>1, PropertyFound
    <3> HIDE DEF k
    <3>3. ValuesOf(tokens, n, name) = {} <=> \A l \in Own(nodes, props, n) : props[l].name # name
      BY <3>1, <2>2, <2>3, HoldsName
    <3>4. IF Value(n, name) = {} THEN k = NULL ELSE k # NULL /\ props[k].name = name
      BY <3>2, <3>3, <2>4
    <3> QED
      BY <3>4 DEF k
  <2>8. C
    <3>1. ToSet(phandle_map) =
            UNION {{[phandle |-> v, node |-> n] : v \in ValuesOf(tokens, n, "phandle")} : n \in seen}
      BY <2>1, <2>2, <2>3, PhandlesMapped
    <3> QED
      BY <3>1, <2>1, <2>4
  <2> HIDE DEF A, B, C
  <2> QED
    BY <2>6, <2>7, <2>8
<1>2. Succeeded => (\A c \in UNION {ToSet(p.value) : p \in {q \in BlobProperties : q.name = "compatible"}} : A(c))
                   /\ (\A n \in Tree, p \in BlobProperties : B(n, p.name)) /\ C
  <2> HIDE DEF A, B, C
  <2> QED
    BY <1>1
<1> QED
  BY <1>2 DEF LookupFinds

\* When parsing succeeds, for every blob: each node of the tree has the cells
\* of its nearest declaring ancestor, and reg is cut into pairs by exactly
\* these, no cell lost, doubled or out of order.
THEOREM CellsPassDown == Spec => []CellsInherited
<1>1. Init => TreeInv /\ ValueInv /\ PassInv
  BY InitTree, InitValue, InitPass
<1>2. TreeInv /\ ValueInv /\ PassInv /\ [Next]_vars => TreeInv' /\ ValueInv' /\ PassInv'
  BY NextTree, NextValue, NextPass
<1>3. TreeInv /\ PassInv => CellsInherited
  BY PassInherits
<1> QED
  BY <1>1, <1>2, <1>3, PTL DEF Spec

\* When parsing succeeds, for every blob: dt_node_from_compatible finds a node
\* exactly when one lists the string, device_tree_get_property the properties
\* there are, and the phandle map holds the phandles declared.
THEOREM LookupsAgree == Spec => []LookupFinds
<1>1. Init => TreeInv /\ ValueInv /\ PassInv
  BY InitTree, InitValue, InitPass
<1>2. TreeInv /\ ValueInv /\ PassInv /\ [Next]_vars => TreeInv' /\ ValueInv' /\ PassInv'
  BY NextTree, NextValue, NextPass
<1>3. TreeInv /\ PassInv => LookupFinds
  BY PassLooksUp
<1> QED
  BY <1>1, <1>2, <1>3, PTL DEF Spec

-----------------------------------------------------------------------------
(***************************************************************************)
(* The parser within the boot.                                             *)
(***************************************************************************)

\* What the boot does to the parser's variables is what the parser does.
THEOREM BootParses == BootSpec => Spec
<1>1. BootInit => Init
  BY DEF BootInit
<1>2. [BootNext]_<<vars, bootVars>> => [Next]_vars
  BY DEF BootNext
<1> QED
  BY <1>1, <1>2, PTL DEF BootSpec, Spec

\* The tree keeps its types through the boot.
THEOREM BootTyped == BootSpec => []TypeOK
BY BootParses, TypeCorrect, PTL

\* The tree devices_init and the walk look at mirrors the blob.
THEOREM BootMirrors == BootSpec => []TreeMirrorsBlob
BY BootParses, MirrorsEveryBlob, PTL

\* The nodes devices_init and the walk look at have the cells they inherit.
THEOREM BootInherits == BootSpec => []CellsInherited
BY BootParses, CellsPassDown, PTL

\* What devices_init looks up in the tree is what the blob declares.
THEOREM BootLooksUp == BootSpec => []LookupFinds
BY BootParses, LookupsAgree, PTL

-----------------------------------------------------------------------------
(***************************************************************************)
(* The arena of driver nodes: d the list of drivers, f the free blocks, b  *)
(* the blocks.                                                             *)
(***************************************************************************)
Apart(d, f) ==
  /\ \A i, j \in 1..Len(d) : d[i] = d[j] => i = j
  /\ \A i, j \in 1..Len(f) : f[i] = f[j] => i = j
  /\ \A i \in 1..Len(d), j \in 1..Len(f) : d[i] # f[j]

\* Every block is listed or free, once.
Arena(d, f, b) ==
  /\ IsSequence(b) /\ d \in Seq(1..Len(b)) /\ f \in Seq(1..Len(b)) /\ Apart(d, f)
  /\ \A x \in 1..Len(b) : (\E i \in 1..Len(d) : d[i] = x) \/ (\E j \in 1..Len(f) : f[j] = x)

Uarts(d, b) == {i \in 1..Len(d) : b[d[i]].type = "DEVICE_TYPE_UART"}

\* m is the first UART listed.
FirstUart(d, b, m) == m = IF Uarts(d, b) = {} THEN NULL ELSE d[Min(Uarts(d, b))]

\* The booting hart has the PLIC, and no other hart has one.
HasPlic(d, b, map) ==
  /\ map \in [0..(map_capacity - 1) -> Nat]
  /\ \E i \in 1..Len(d) : map[bsp_hartid] = d[i] /\ b[d[i]].type = "DEVICE_TYPE_PLIC"
  /\ \A h \in 0..(map_capacity - 1) : h # bsp_hartid => map[h] = NULL

\* slab_allocate: x is the block, y what it then holds, g what stays free.
Takes(f, b, x, g, c, y) ==
  /\ x = IF f = << >> THEN Len(b) + 1 ELSE Head(f)
  /\ g = IF f = << >> THEN f ELSE Tail(f)
  /\ c = IF f = << >> THEN Append(b, y) ELSE [b EXCEPT ![Head(f)] = y]

\* The block taken was not listed, and the contents of the others stay.
LEMMA Taken ==
  ASSUME NEW d, NEW f, NEW b, Arena(d, f, b), NEW x, NEW g, NEW c, NEW y, Takes(f, b, x, g, c, y)
  PROVE  /\ Len(b) \in Nat /\ Len(c) \in Nat /\ Len(b) <= Len(c) /\ IsSequence(c)
         /\ x \in 1..Len(c) /\ c[x] = y
         /\ \A z \in 1..Len(c) : z # x => z \in 1..Len(b) /\ c[z] = b[z]
         /\ g \in Seq(1..Len(b))
         /\ \A i \in 1..Len(d) : d[i] \in 1..Len(b) /\ d[i] # x
         /\ \A i, j \in 1..Len(g) : g[i] = g[j] => i = j
         /\ \A j \in 1..Len(g) : g[j] \in 1..Len(b) /\ g[j] # x /\ \A i \in 1..Len(d) : d[i] # g[j]
         /\ \A z \in 1..Len(c) : z = x \/ (\E i \in 1..Len(d) : d[i] = z)
                                       \/ (\E j \in 1..Len(g) : g[j] = z)
<1>1. /\ IsSequence(b) /\ d \in Seq(1..Len(b)) /\ f \in Seq(1..Len(b))
      /\ \A i, j \in 1..Len(f) : f[i] = f[j] => i = j
      /\ \A i \in 1..Len(d), j \in 1..Len(f) : d[i] # f[j]
      /\ \A z \in 1..Len(b) : (\E i \in 1..Len(d) : d[i] = z) \/ (\E j \in 1..Len(f) : f[j] = z)
  BY DEF Arena, Apart
<1>2. PICK B \in Nat : B = Len(b)
  BY <1>1, Appended
<1>3. \A i \in 1..Len(d) : d[i] \in 1..B
  BY <1>1, <1>2, ElementOfSeq
<1>4. CASE f = << >>
  <2>1. x = B + 1 /\ g = << >> /\ c = Append(b, y)
    BY <1>2, <1>4 DEF Takes
  <2>2. IsSequence(c) /\ Len(c) = B + 1 /\ c[B + 1] = y /\ \A z \in 1..B : c[z] = b[z]
    BY <2>1, <1>1, <1>2, Appended
  <2>3. Len(g) = 0 /\ g \in Seq(1..B) /\ Len(f) = 0
    BY <2>1, <1>4
  <2>4. \A z \in 1..(B + 1) : z # B + 1 => z \in 1..B
    OBVIOUS
  <2>5. \A z \in 1..B : z # B + 1
    OBVIOUS
  <2>6. 1..0 = {} /\ B + 1 \in Nat /\ B <= B + 1 /\ B + 1 \in 1..(B + 1)
    OBVIOUS
  <2>7. \A z \in 1..Len(c) : z # x => z \in 1..B /\ c[z] = b[z]
    BY <2>1, <2>2, <2>4
  <2>8. \A z \in 1..B : \E i \in 1..Len(d) : d[i] = z
    BY <2>3, <2>6, <1>1, <1>2
  <2>9. \A z \in 1..Len(c) : z = x \/ \E i \in 1..Len(d) : d[i] = z
    BY <2>7, <2>8
  <2>10. \A i \in 1..Len(d) : d[i] # x
    BY <2>1, <2>5, <1>3
  <2>11. \A j \in 1..Len(g) : FALSE
    BY <2>3, <2>6
  <2> QED
    BY <2>1, <2>2, <2>3, <2>6, <2>7, <2>9, <2>10, <2>11, <1>2, <1>3
<1>5. CASE f # << >>
  <2>1. x = Head(f) /\ g = Tail(f) /\ c = [b EXCEPT ![x] = y]
    BY <1>5 DEF Takes
  <2>2. x = f[1] /\ x \in 1..B
    BY <2>1, <1>1, <1>2, <1>5
  <2>3. /\ g \in Seq(1..B) /\ Len(g) = Len(f) - 1 /\ Len(f) \in Nat /\ Len(f) # 0
        /\ \A j \in 1..Len(g) : g[j] = f[j + 1]
    BY <2>1, <1>1, <1>2, <1>5, HeadTailProperties, LenProperties, EmptySeq
  <2>4. x \in 1..Len(b) /\ IsSequence(b)
    BY <2>2, <1>1, <1>2
  <2>5. /\ IsSequence([b EXCEPT ![x] = y]) /\ Len([b EXCEPT ![x] = y]) = Len(b)
        /\ \A i \in 1..Len(b) : [b EXCEPT ![x] = y][i] = IF i = x THEN y ELSE b[i]
    <3>1. IsSequence([b EXCEPT ![x] = y]) /\ Len([b EXCEPT ![x] = y]) = Len(b)
      BY <2>4, Replaced
    <3>2. \A i \in 1..Len(b) : [b EXCEPT ![x] = y][i] = IF i = x THEN y ELSE b[i]
      BY <2>4, Replaced
    <3> QED
      BY <3>1, <3>2
  <2>6. IsSequence(c) /\ Len(c) = B /\ c[x] = y /\ \A z \in 1..B : z # x => c[z] = b[z]
    BY <2>1, <2>2, <2>5, <1>2
  <2>7. 1 \in 1..Len(f) /\ \A j \in 1..Len(g) : j + 1 \in 1..Len(f) /\ j + 1 # 1 /\ j \in Int
    BY <2>3
  <2>8. \A i \in 1..Len(d) : d[i] # x
    BY <2>2, <2>7, <1>1
  <2>9. \A i, j \in 1..Len(g) : g[i] = g[j] => i = j
    <3> SUFFICES ASSUME NEW i \in 1..Len(g), NEW j \in 1..Len(g), g[i] = g[j] PROVE i = j
      OBVIOUS
    <3>1. f[i + 1] = f[j + 1] /\ i + 1 \in 1..Len(f) /\ j + 1 \in 1..Len(f)
      BY <2>3, <2>7
    <3>2. i + 1 = j + 1
      BY <3>1, <1>1, Zenon
    <3> QED
      BY <3>2, <2>7
  <2>10. \A j \in 1..Len(g) : g[j] \in 1..B /\ g[j] # x /\ \A i \in 1..Len(d) : d[i] # g[j]
    <3> SUFFICES ASSUME NEW j \in 1..Len(g)
                 PROVE  g[j] \in 1..B /\ g[j] # x /\ \A i \in 1..Len(d) : d[i] # g[j]
      OBVIOUS
    <3>1. g[j] \in 1..B
      BY <2>3, ElementOfSeq
    <3>2. g[j] # x
      BY <2>2, <2>3, <2>7, <1>1
    <3>3. \A i \in 1..Len(d) : d[i] # g[j]
      BY <2>3, <2>7, <1>1, SMTT(20)
    <3> QED
      BY <3>1, <3>2, <3>3
  <2>11. ASSUME NEW z \in 1..B, z # x
         PROVE  (\E i \in 1..Len(d) : d[i] = z) \/ (\E j \in 1..Len(g) : g[j] = z)
    <3>1. CASE \E i \in 1..Len(d) : d[i] = z
      BY <3>1
    <3>2. CASE \E j \in 1..Len(f) : f[j] = z
      <4>1. PICK j \in 1..Len(f) : f[j] = z
        BY <3>2
      <4>2. j # 1
        BY <4>1, <2>2, <2>11
      <4>3. j - 1 \in 1..Len(g) /\ (j - 1) + 1 = j
        BY <4>2, <2>3
      <4>4. g[j - 1] = z
        BY <4>1, <4>3, <2>3
      <4> QED
        BY <4>3, <4>4
    <3> QED
      BY <3>1, <3>2, <1>1, <1>2
  <2>12. \A z \in 1..Len(c) : z = x \/ (\E i \in 1..Len(d) : d[i] = z)
                                    \/ (\E j \in 1..Len(g) : g[j] = z)
    BY <2>6, <2>11
  <2>13. /\ Len(b) \in Nat /\ Len(c) \in Nat /\ Len(b) <= Len(c) /\ IsSequence(c)
         /\ x \in 1..Len(c) /\ c[x] = y /\ g \in Seq(1..Len(b))
    BY <2>2, <2>3, <2>6, <1>2
  <2>14. \A z \in 1..Len(c) : z # x => z \in 1..Len(b) /\ c[z] = b[z]
    BY <2>6, <1>2
  <2> QED
    BY <2>8, <2>9, <2>10, <2>12, <2>13, <2>14, <1>2, <1>3
<1> QED
  BY <1>4, <1>5

\* A sequence with x put in front.
LEMMA Put ==
  ASSUME NEW S, NEW d \in Seq(S), NEW x \in S
  PROVE  /\ <<x>> \o d \in Seq(S) /\ Len(d) \in Nat /\ Len(<<x>> \o d) = Len(d) + 1
         /\ (<<x>> \o d)[1] = x /\ 1 \in 1..Len(<<x>> \o d)
         /\ \A i \in 2..Len(<<x>> \o d) : i - 1 \in 1..Len(d) /\ (<<x>> \o d)[i] = d[i - 1]
         /\ \A i \in 1..Len(d) : i + 1 \in 2..Len(<<x>> \o d) /\ (<<x>> \o d)[i + 1] = d[i]
<1>1. <<x>> \in Seq(S) /\ Len(<<x>>) = 1 /\ <<x>>[1] = x
  OBVIOUS
<1>2. /\ <<x>> \o d \in Seq(S) /\ Len(<<x>> \o d) = 1 + Len(d)
      /\ \A i \in 1..(1 + Len(d)) : (<<x>> \o d)[i] = IF i <= 1 THEN <<x>>[i] ELSE d[i - 1]
  BY <1>1, ConcatProperties
<1>3. PICK N \in Nat : N = Len(d)
  BY LenProperties
<1> DEFINE e == <<x>> \o d
<1>4. e \in Seq(S) /\ Len(e) = N + 1
  BY <1>2, <1>3
<1>5. \A i \in 1..(N + 1) : e[i] = IF i <= 1 THEN x ELSE d[i - 1]
  BY <1>1, <1>2, <1>3
<1> HIDE DEF e
<1>6. e[1] = x /\ 1 \in 1..(N + 1)
  BY <1>5
<1>7. \A i \in 2..(N + 1) : i - 1 \in 1..N /\ e[i] = d[i - 1]
  BY <1>5
<1>8. \A i \in 1..N : i + 1 \in 2..(N + 1) /\ e[i + 1] = d[i]
  BY <1>5
<1> QED
  BY <1>3, <1>4, <1>6, <1>7, <1>8 DEF e

\* A block that is put on the list of drivers.
LEMMA ArenaRegister ==
  ASSUME NEW d, NEW f, NEW b, Arena(d, f, b), NEW x, NEW g, NEW c, NEW y, Takes(f, b, x, g, c, y)
  PROVE  Arena(<<x>> \o d, g, c)
<1>1. /\ Len(b) \in Nat /\ Len(c) \in Nat /\ Len(b) <= Len(c) /\ IsSequence(c)
      /\ x \in 1..Len(c) /\ g \in Seq(1..Len(b))
  BY Taken
<1>2. \A i \in 1..Len(d) : d[i] \in 1..Len(b) /\ d[i] # x
  BY Taken
<1>3. \A i, j \in 1..Len(g) : g[i] = g[j] => i = j
  BY Taken
<1>4. \A j \in 1..Len(g) : g[j] # x /\ \A i \in 1..Len(d) : d[i] # g[j]
  BY Taken
<1>5. \A z \in 1..Len(c) : z = x \/ (\E i \in 1..Len(d) : d[i] = z) \/ (\E j \in 1..Len(g) : g[j] = z)
  BY Taken
<1>6. 1..Len(b) \subseteq 1..Len(c)
  BY <1>1
<1>7. d \in Seq(1..Len(b)) /\ \A i, j \in 1..Len(d) : d[i] = d[j] => i = j
  BY DEF Arena, Apart
<1>8. d \in Seq(1..Len(c)) /\ g \in Seq(1..Len(c))
  BY <1>1, <1>6, <1>7, SeqMonotonic
<1> DEFINE e == <<x>> \o d
<1>9. /\ e \in Seq(1..Len(c)) /\ Len(d) \in Nat /\ Len(e) = Len(d) + 1
      /\ e[1] = x /\ 1 \in 1..Len(e)
  BY <1>1, <1>8, Put
<1>10. \A i \in 2..Len(e) : i - 1 \in 1..Len(d) /\ e[i] = d[i - 1]
  BY <1>1, <1>8, Put
<1>11. \A i \in 1..Len(d) : i + 1 \in 2..Len(e) /\ e[i + 1] = d[i]
  BY <1>1, <1>8, Put
<1> HIDE DEF e
<1>12. \A i \in 1..Len(e) : i = 1 \/ i \in 2..Len(e)
  BY <1>9
<1>13. \A i \in 2..Len(e) : e[i] # x /\ i \in Int /\ i \in 1..Len(e)
  BY <1>2, <1>9, <1>10
<1>14. ASSUME NEW i \in 1..Len(e), NEW j \in 1..Len(e), e[i] = e[j] PROVE i = j
  <2>1. CASE i = 1
    BY <2>1, <1>9, <1>12, <1>13, <1>14
  <2>2. CASE i \in 2..Len(e)
    <3>1. j \in 2..Len(e)
      BY <2>2, <1>9, <1>12, <1>13, <1>14
    <3>2. i - 1 \in 1..Len(d) /\ j - 1 \in 1..Len(d) /\ d[i - 1] = d[j - 1]
      BY <2>2, <3>1, <1>10, <1>14
    <3>3. i - 1 = j - 1
      BY <3>2, <1>7, Zenon
    <3> QED
      BY <3>3, <3>1, <2>2, <1>13
  <2> QED
    BY <2>1, <2>2, <1>12
<1>15. ASSUME NEW i \in 1..Len(e), NEW j \in 1..Len(g) PROVE e[i] # g[j]
  <2>1. CASE i = 1
    BY <2>1, <1>4, <1>9
  <2>2. CASE i \in 2..Len(e)
    BY <2>2, <1>4, <1>10
  <2> QED
    BY <2>1, <2>2, <1>12
<1>16. \A z \in 1..Len(c) : (\E i \in 1..Len(e) : e[i] = z) \/ (\E j \in 1..Len(g) : g[j] = z)
  <2> SUFFICES ASSUME NEW z \in 1..Len(c), ~ \E j \in 1..Len(g) : g[j] = z
               PROVE  \E i \in 1..Len(e) : e[i] = z
    OBVIOUS
  <2>1. CASE z = x
    BY <2>1, <1>9
  <2>2. CASE \E i \in 1..Len(d) : d[i] = z
    <3>1. PICK i \in 1..Len(d) : d[i] = z
      BY <2>2
    <3>2. i + 1 \in 1..Len(e) /\ e[i + 1] = z
      BY <3>1, <1>11, <1>13
    <3> QED
      BY <3>2
  <2> QED
    BY <2>1, <2>2, <1>5
<1>17. Apart(e, g)
  BY <1>3, <1>14, <1>15 DEF Apart
<1> QED
  BY <1>1, <1>8, <1>9, <1>16, <1>17 DEF Arena, e

\* A block that is freed again.
LEMMA ArenaFailed ==
  ASSUME NEW d, NEW f, NEW b, Arena(d, f, b), NEW x, NEW g, NEW c, NEW y, Takes(f, b, x, g, c, y)
  PROVE  Arena(d, <<x>> \o g, c)
<1>1. /\ Len(b) \in Nat /\ Len(c) \in Nat /\ Len(b) <= Len(c) /\ IsSequence(c)
      /\ x \in 1..Len(c) /\ g \in Seq(1..Len(b))
  BY Taken
<1>2. \A i \in 1..Len(d) : d[i] \in 1..Len(b) /\ d[i] # x
  BY Taken
<1>3. \A i, j \in 1..Len(g) : g[i] = g[j] => i = j
  BY Taken
<1>4. \A j \in 1..Len(g) : g[j] # x /\ \A i \in 1..Len(d) : d[i] # g[j]
  BY Taken
<1>5. \A z \in 1..Len(c) : z = x \/ (\E i \in 1..Len(d) : d[i] = z) \/ (\E j \in 1..Len(g) : g[j] = z)
  BY Taken
<1>6. 1..Len(b) \subseteq 1..Len(c)
  BY <1>1
<1>7. d \in Seq(1..Len(b)) /\ \A i, j \in 1..Len(d) : d[i] = d[j] => i = j
  BY DEF Arena, Apart
<1>8. d \in Seq(1..Len(c)) /\ g \in Seq(1..Len(c))
  BY <1>1, <1>6, <1>7, SeqMonotonic
<1> DEFINE e == <<x>> \o g
<1>9. /\ e \in Seq(1..Len(c)) /\ Len(g) \in Nat /\ Len(e) = Len(g) + 1
      /\ e[1] = x /\ 1 \in 1..Len(e)
  BY <1>1, <1>8, Put
<1>10. \A i \in 2..Len(e) : i - 1 \in 1..Len(g) /\ e[i] = g[i - 1]
  BY <1>1, <1>8, Put
<1>11. \A i \in 1..Len(g) : i + 1 \in 2..Len(e) /\ e[i + 1] = g[i]
  BY <1>1, <1>8, Put
<1> HIDE DEF e
<1>12. \A i \in 1..Len(e) : i = 1 \/ i \in 2..Len(e)
  BY <1>9
<1>13. \A i \in 2..Len(e) : e[i] # x /\ i \in Int /\ i \in 1..Len(e)
  <2>1. \A j \in 1..Len(g) : g[j] # x
    BY <1>4
  <2> QED
    BY <2>1, <1>9, <1>10
<1>14. ASSUME NEW i \in 1..Len(e), NEW j \in 1..Len(e), e[i] = e[j] PROVE i = j
  <2>1. CASE i = 1
    BY <2>1, <1>9, <1>12, <1>13, <1>14
  <2>2. CASE i \in 2..Len(e)
    <3>1. j \in 2..Len(e)
      BY <2>2, <1>9, <1>12, <1>13, <1>14
    <3>2. i - 1 \in 1..Len(g) /\ j - 1 \in 1..Len(g) /\ g[i - 1] = g[j - 1]
      BY <2>2, <3>1, <1>10, <1>14
    <3>3. i - 1 = j - 1
      BY <3>2, <1>3, Zenon
    <3> QED
      BY <3>3, <3>1, <2>2, <1>13
  <2> QED
    BY <2>1, <2>2, <1>12
<1>15. ASSUME NEW i \in 1..Len(d), NEW j \in 1..Len(e) PROVE d[i] # e[j]
  <2>1. CASE j = 1
    BY <2>1, <1>2, <1>9
  <2>2. CASE j \in 2..Len(e)
    BY <2>2, <1>4, <1>10
  <2> QED
    BY <2>1, <2>2, <1>12
<1>16. \A z \in 1..Len(c) : (\E i \in 1..Len(d) : d[i] = z) \/ (\E j \in 1..Len(e) : e[j] = z)
  <2> SUFFICES ASSUME NEW z \in 1..Len(c), ~ \E i \in 1..Len(d) : d[i] = z
               PROVE  \E j \in 1..Len(e) : e[j] = z
    OBVIOUS
  <2>1. CASE z = x
    BY <2>1, <1>9
  <2>2. CASE \E j \in 1..Len(g) : g[j] = z
    <3>1. PICK j \in 1..Len(g) : g[j] = z
      BY <2>2
    <3>2. j + 1 \in 1..Len(e) /\ e[j + 1] = z
      BY <3>1, <1>11, <1>13
    <3> QED
      BY <3>2
  <2> QED
    BY <2>1, <2>2, <1>5
<1>17. Apart(d, e)
  BY <1>7, <1>14, <1>15 DEF Apart
<1> QED
  BY <1>1, <1>8, <1>9, <1>16, <1>17 DEF Arena, e

\* The listed blocks keep their contents when a block is taken and freed again.
LEMMA ListedKept ==
  ASSUME NEW d, NEW f, NEW b, Arena(d, f, b), NEW x, NEW g, NEW c, NEW y, Takes(f, b, x, g, c, y)
  PROVE  \A i \in 1..Len(d) : c[d[i]] = b[d[i]]
<1>1. \A z \in 1..Len(c) : z # x => z \in 1..Len(b) /\ c[z] = b[z]
  BY Taken
<1>2. Len(b) \in Nat /\ Len(c) \in Nat /\ Len(b) <= Len(c)
  BY Taken
<1>3. \A i \in 1..Len(d) : d[i] \in 1..Len(b) /\ d[i] # x
  BY Taken
<1>4. \A z \in 1..Len(b) : z \in 1..Len(c)
  BY <1>2
<1> QED
  BY <1>1, <1>3, <1>4

\* The first UART stays the first one while listed blocks keep their contents.
LEMMA UartKept ==
  ASSUME NEW d, NEW b, NEW c, NEW m, FirstUart(d, b, m), \A i \in 1..Len(d) : c[d[i]] = b[d[i]]
  PROVE  FirstUart(d, c, m)
<1>1. Uarts(d, c) = Uarts(d, b)
  BY DEF Uarts
<1> QED
  BY <1>1 DEF FirstUart

\* A UART put on the list is the first one.
LEMMA UartFirst ==
  ASSUME NEW S, NEW d \in Seq(S), NEW x \in S, NEW c, c[x].type = "DEVICE_TYPE_UART"
  PROVE  FirstUart(<<x>> \o d, c, x)
<1> DEFINE e == <<x>> \o d
           U == Uarts(e, c)
<1>1. Len(d) \in Nat /\ Len(e) = Len(d) + 1 /\ e[1] = x /\ 1 \in 1..Len(e)
  BY Put
<1> HIDE DEF e
<1>2. 1 \in U /\ U \in SUBSET (1..Len(e))
  BY <1>1 DEF Uarts
<1>3. 1..Len(e) \subseteq Nat /\ \A i \in 1..Len(e) : 1 <= i
  BY <1>1
<1> HIDE DEF U
<1>4. U \in SUBSET Nat /\ U # {} /\ \A i \in U : 1 <= i
  BY <1>2, <1>3
<1>5. Min(U) \in U /\ \A i \in U : Min(U) <= i
  BY <1>4, Least
<1>6. Min(U) = 1
  <2>1. Min(U) \in Nat /\ Min(U) <= 1 /\ 1 <= Min(U)
    BY <1>2, <1>4, <1>5
  <2> QED
    BY <2>1
<1>7. x = IF U = {} THEN NULL ELSE e[Min(U)]
  BY <1>1, <1>4, <1>6
<1> QED
  BY <1>7 DEF FirstUart, U, e

\* A list of one PLIC has no UART.
LEMMA NoUart ==
  ASSUME NEW x, NEW c, c[x].type = "DEVICE_TYPE_PLIC"
  PROVE  FirstUart(<<x>> \o << >>, c, NULL)
<1>1. Len(<<x>> \o << >>) = 1 /\ (<<x>> \o << >>)[1] = x
  <2>1. x \in {x} /\ << >> \in Seq({x}) /\ Len(<< >>) = 0
    OBVIOUS
  <2> QED
    BY <2>1, Put
<1> DEFINE e == <<x>> \o << >>
<1> HIDE DEF e
<1>2. \A i \in 1..Len(e) : i = 1
  BY <1>1 DEF e
<1>3. Uarts(e, c) = {}
  BY <1>1, <1>2 DEF Uarts, e
<1> QED
  BY <1>3 DEF FirstUart, e

\* The PLIC of the booting hart stays listed.
LEMMA PlicKept ==
  ASSUME NEW S, NEW d \in Seq(S), NEW x \in S, NEW b, NEW c, NEW map, HasPlic(d, b, map),
         \A i \in 1..Len(d) : c[d[i]] = b[d[i]]
  PROVE  HasPlic(d, c, map) /\ HasPlic(<<x>> \o d, c, map)
<1> DEFINE e == <<x>> \o d
<1>1. Len(e) = Len(d) + 1 /\ Len(d) \in Nat
  BY Put
<1>2. \A i \in 1..Len(d) : i + 1 \in 2..Len(e) /\ e[i + 1] = d[i]
  BY Put
<1> HIDE DEF e
<1>3. PICK i \in 1..Len(d) : map[bsp_hartid] = d[i] /\ b[d[i]].type = "DEVICE_TYPE_PLIC"
  BY DEF HasPlic
<1>4. map[bsp_hartid] = d[i] /\ c[d[i]].type = "DEVICE_TYPE_PLIC"
  BY <1>3
<1>5. i + 1 \in 1..Len(e) /\ map[bsp_hartid] = e[i + 1] /\ c[e[i + 1]].type = "DEVICE_TYPE_PLIC"
  BY <1>1, <1>2, <1>4
<1>6. /\ map \in [0..(map_capacity - 1) -> Nat]
      /\ \A h \in 0..(map_capacity - 1) : h # bsp_hartid => map[h] = NULL
  BY DEF HasPlic
<1>7. HasPlic(d, c, map)
  BY <1>4, <1>6 DEF HasPlic
<1>8. HasPlic(e, c, map)
  BY <1>5, <1>6 DEF HasPlic
<1> QED
  BY <1>7, <1>8 DEF e

\* devices_init gives the PLIC to the booting hart.
LEMMA PlicSet ==
  ASSUME NEW x \in Nat, NEW c, c[x].type = "DEVICE_TYPE_PLIC"
  PROVE  HasPlic(<<x>> \o << >>, c,
                 [[h \in 0..(map_capacity - 1) |-> NULL] EXCEPT ![bsp_hartid] = x])
<1> DEFINE e == <<x>> \o << >>
           map == [[h \in 0..(map_capacity - 1) |-> NULL] EXCEPT ![bsp_hartid] = x]
<1>1. 1 \in 1..Len(e) /\ e[1] = x
  <2>1. x \in Nat /\ << >> \in Seq(Nat) /\ Len(<< >>) = 0
    OBVIOUS
  <2> QED
    BY <2>1, Put
<1>2. bsp_hartid \in 0..(map_capacity - 1)
  BY DevicesAssumption
<1>3. map \in [0..(map_capacity - 1) -> Nat]
  BY DEF NULL
<1>4. map[bsp_hartid] = x
  BY <1>2
<1>5. \A h \in 0..(map_capacity - 1) : h # bsp_hartid => map[h] = NULL
  BY <1>2
<1> HIDE DEF e, map
<1>6. \E i \in 1..Len(e) : map[bsp_hartid] = e[i] /\ c[e[i]].type = "DEVICE_TYPE_PLIC"
  BY <1>1, <1>4
<1>7. HasPlic(e, c, map)
  BY <1>3, <1>5, <1>6 DEF HasPlic
<1> QED
  BY <1>7 DEF e, map

-----------------------------------------------------------------------------
(***************************************************************************)
(* The inductive invariant of the boot.                                    *)
(***************************************************************************)
Untouched ==
  /\ drivers = << >> /\ blocks = << >> /\ freed = << >> /\ driver_map = NULL
  /\ hart_plic_map = [h \in 0..(map_capacity - 1) |-> NULL]

BootInv ==
  /\ Arena(drivers, freed, blocks)
  /\ FirstUart(drivers, blocks, driver_map)
  /\ boot = "parse" => Untouched
  /\ boot \in {"walk", "done"} => HasPlic(drivers, blocks, hart_plic_map)

\* An arena without blocks.
LEMMA ArenaEmpty == Arena(<< >>, << >>, << >>) /\ \A b : FirstUart(<< >>, b, NULL)
<1>1. /\ << >> \in Seq({}) /\ Len(<< >>) = 0 /\ 1..0 = {}
  OBVIOUS
<1>2. << >> \in Seq(1..Len(<< >>)) /\ \A x \in 1..Len(<< >>) : FALSE
  BY <1>1
<1>3. IsSequence(<< >>)
  BY <1>1 DEF IsSequence
<1>4. Apart(<< >>, << >>)
  BY <1>2 DEF Apart
<1>5. Arena(<< >>, << >>, << >>)
  BY <1>2, <1>3, <1>4 DEF Arena
<1>6. \A b : Uarts(<< >>, b) = {}
  BY <1>2 DEF Uarts
<1> QED
  BY <1>5, <1>6 DEF FirstUart

\* Boot starts in it.
LEMMA InitBoot == BootInit => BootInv
<1> SUFFICES ASSUME BootInit PROVE BootInv
  OBVIOUS
<1>1. Untouched /\ boot = "parse"
  BY DEF BootInit, Untouched
<1>2. drivers = << >> /\ freed = << >> /\ blocks = << >> /\ driver_map = NULL
  BY <1>1 DEF Untouched
<1>3. Arena(drivers, freed, blocks) /\ FirstUart(drivers, blocks, driver_map)
  BY <1>2, ArenaEmpty
<1> QED
  BY <1>1, <1>3 DEF BootInv

\* A step that leaves the lists, the blocks and the maps alone and does not
\* get to the walk keeps it.
LEMMA SameBoot ==
  ASSUME BootInv, UNCHANGED <<arena, registry>>,
         boot' = boot \/ boot' \in {"panic", "todo", "fault"} \/ (boot = "walk" /\ boot' = "done")
  PROVE  BootInv'
<1>1. /\ blocks' = blocks /\ freed' = freed /\ drivers' = drivers
      /\ hart_plic_map' = hart_plic_map /\ driver_map' = driver_map
  BY DEF arena, registry
<1>2. /\ Arena(drivers, freed, blocks) /\ FirstUart(drivers, blocks, driver_map)
      /\ boot = "parse" => Untouched
      /\ boot \in {"walk", "done"} => HasPlic(drivers, blocks, hart_plic_map)
  BY DEF BootInv
<1>3. Arena(drivers', freed', blocks') /\ FirstUart(drivers', blocks', driver_map')
  BY <1>1, <1>2
<1>4. boot' = "parse" => Untouched'
  BY <1>1, <1>2 DEF Untouched
<1>5. boot' \in {"walk", "done"} => HasPlic(drivers', blocks', hart_plic_map')
  BY <1>1, <1>2
<1> QED
  BY <1>3, <1>4, <1>5 DEF BootInv

\* What Register does to the arena.
LEMMA Registers ==
  ASSUME NEW type, NEW n, Register(type, n)
  PROVE  /\ Takes(freed, blocks, NewBlock, freed', blocks', DriverNode(type, n, Address(n)))
         /\ drivers' = <<NewBlock>> \o drivers
BY DEF Register, Takes, NewBlock, Allocated

\* Registering a driver: the block is fresh and holds the node.
LEMMA RegisterArena ==
  ASSUME BootInv, NEW type, NEW n, Register(type, n)
  PROVE  /\ Arena(drivers', freed', blocks')
         /\ blocks'[NewBlock].type = type
         /\ \A i \in 1..Len(drivers) : blocks'[drivers[i]] = blocks[drivers[i]]
         /\ NewBlock \in Nat
         /\ drivers' = <<NewBlock>> \o drivers /\ drivers \in Seq(Nat)
<1> DEFINE y == DriverNode(type, n, Address(n))
<1>1. /\ Takes(freed, blocks, NewBlock, freed', blocks', y)
      /\ drivers' = <<NewBlock>> \o drivers
  BY Registers
<1>2. y.type = type
  BY DEF DriverNode
<1> HIDE DEF y
<1>3. Arena(drivers, freed, blocks)
  BY DEF BootInv
<1>4. Arena(<<NewBlock>> \o drivers, freed', blocks')
  BY <1>1, <1>3, ArenaRegister
<1>5. \A i \in 1..Len(drivers) : blocks'[drivers[i]] = blocks[drivers[i]]
  BY <1>1, <1>3, ListedKept
<1>6. blocks'[NewBlock] = y /\ Len(blocks) \in Nat /\ Len(blocks') \in Nat /\ NewBlock \in 1..Len(blocks')
  BY <1>1, <1>3, Taken
<1>7. drivers \in Seq(1..Len(blocks)) /\ 1..Len(blocks) \subseteq Nat /\ NewBlock \in Nat
  BY <1>3, <1>6 DEF Arena
<1>8. drivers \in Seq(Nat)
  BY <1>7, SeqMonotonic
<1> QED
  BY <1>1, <1>2, <1>4, <1>5, <1>6, <1>7, <1>8

\* devices_init keeps it.
LEMMA DevicesInitBoot ==
  ASSUME BootInv, boot = "parse", devices_init
  PROVE  BootInv'
<1> DEFINE plic_node == dt_node_from_compatible("riscv,plic0")
<1>1. CASE End("panic")
  <2>1. UNCHANGED <<arena, registry>> /\ boot' = "panic"
    BY <1>1 DEF End
  <2> QED
    BY <2>1, SameBoot
<1>2. CASE /\ Register("DEVICE_TYPE_PLIC", plic_node)
           /\ hart_plic_map' = [hart_plic_map EXCEPT ![bsp_hartid] = NewBlock]
           /\ boot' = "walk"
           /\ UNCHANGED <<driver_map, status>>
  <2> HIDE DEF plic_node
  <2>1. /\ drivers = << >> /\ driver_map = NULL
        /\ hart_plic_map = [h \in 0..(map_capacity - 1) |-> NULL]
    BY DEF BootInv, Untouched
  <2>2. /\ Arena(drivers', freed', blocks')
        /\ blocks'[NewBlock].type = "DEVICE_TYPE_PLIC"
        /\ NewBlock \in Nat
        /\ drivers' = <<NewBlock>> \o drivers
    BY <1>2, RegisterArena
  <2>3. drivers' = <<NewBlock>> \o << >>
    BY <2>1, <2>2
  <2>4. FirstUart(<<NewBlock>> \o << >>, blocks', NULL)
    BY <2>2, NoUart
  <2>5. FirstUart(drivers', blocks', driver_map')
    BY <2>1, <2>3, <2>4, <1>2
  <2>6. HasPlic(<<NewBlock>> \o << >>, blocks',
                [[h \in 0..(map_capacity - 1) |-> NULL] EXCEPT ![bsp_hartid] = NewBlock])
    BY <2>2, PlicSet
  <2>7. HasPlic(drivers', blocks', hart_plic_map')
    BY <2>1, <2>3, <2>6, <1>2
  <2> QED
    BY <2>2, <2>5, <2>7, <1>2 DEF BootInv
<1> QED
  BY <1>1, <1>2 DEF devices_init

\* What kernel_c_entry does with the parser's result keeps it.
LEMMA EntryBoot ==
  ASSUME BootInv, kernel_c_entry
  PROVE  BootInv'
<1>1. CASE error_string_panic
  <2>1. End("panic") \/ End("fault")
    BY <1>1 DEF error_string_panic
  <2>2. UNCHANGED <<arena, registry>> /\ boot' \in {"panic", "fault"}
    BY <2>1 DEF End
  <2> QED
    BY <2>2, SameBoot
<1>2. CASE devices_init
  BY <1>2, DevicesInitBoot DEF kernel_c_entry
<1> QED
  BY <1>1, <1>2 DEF kernel_c_entry

\* The setup of a UART keeps it.
LEMMA UartBoot ==
  ASSUME BootInv, boot = "walk", NEW n, uart_device(n)
  PROVE  BootInv'
<1>1. CASE Skip /\ UNCHANGED <<arena, registry, status>>
  <2>1. UNCHANGED <<arena, registry>> /\ boot' = boot
    BY <1>1 DEF Skip
  <2> QED
    BY <2>1, SameBoot
<1>2. CASE /\ Skip
           /\ Register("DEVICE_TYPE_UART", n)
           /\ driver_map' = NewBlock
           /\ UNCHANGED <<hart_plic_map, status>>
  <2>1. /\ Arena(drivers', freed', blocks')
        /\ blocks'[NewBlock].type = "DEVICE_TYPE_UART"
        /\ NewBlock \in Nat
        /\ drivers' = <<NewBlock>> \o drivers /\ drivers \in Seq(Nat)
    BY <1>2, RegisterArena
  <2>2. \A i \in 1..Len(drivers) : blocks'[drivers[i]] = blocks[drivers[i]]
    BY <1>2, RegisterArena
  <2>3. FirstUart(<<NewBlock>> \o drivers, blocks', NewBlock)
    BY <2>1, UartFirst
  <2>4. HasPlic(drivers, blocks, hart_plic_map)
    BY DEF BootInv
  <2>5. HasPlic(<<NewBlock>> \o drivers, blocks', hart_plic_map)
    BY <2>1, <2>2, <2>4, PlicKept
  <2>6. boot' = "walk" /\ driver_map' = NewBlock /\ hart_plic_map' = hart_plic_map
    BY <1>2 DEF Skip
  <2>7. FirstUart(drivers', blocks', driver_map') /\ HasPlic(drivers', blocks', hart_plic_map')
    BY <2>1, <2>3, <2>5, <2>6
  <2> QED
    BY <2>1, <2>6, <2>7 DEF BootInv
<1> QED
  BY <1>1, <1>2 DEF uart_device

\* A virtio device that fails keeps it: its block is free again.
LEMMA FailedBoot ==
  ASSUME BootInv, boot = "walk", NEW n, virtio_failed(n)
  PROVE  BootInv'
<1> DEFINE y == DriverNode("DEVICE_TYPE_VIRTIO_MMIO", NULL, << >>)
           g == IF freed = << >> THEN freed ELSE Tail(freed)
<1>1. /\ blocks' = Allocated(y) /\ freed' = <<NewBlock>> \o g
      /\ boot' = boot /\ UNCHANGED registry
  BY DEF virtio_failed, Skip
<1>2. Takes(freed, blocks, NewBlock, g, blocks', y)
  BY <1>1 DEF Takes, NewBlock, Allocated
<1> HIDE DEF y, g
<1>3. Arena(drivers, freed, blocks) /\ FirstUart(drivers, blocks, driver_map)
  BY DEF BootInv
<1>4. Arena(drivers, <<NewBlock>> \o g, blocks')
  BY <1>2, <1>3, ArenaFailed
<1>5. \A i \in 1..Len(drivers) : blocks'[drivers[i]] = blocks[drivers[i]]
  BY <1>2, <1>3, ListedKept
<1>6. FirstUart(drivers, blocks', driver_map)
  BY <1>3, <1>5, UartKept
<1>7. HasPlic(drivers, blocks, hart_plic_map)
  BY DEF BootInv
<1>8. drivers \in Seq(1..Len(blocks)) /\ IsSequence(blocks)
  BY <1>3 DEF Arena
<1>9. HasPlic(drivers, blocks', hart_plic_map)
  <2>1. PICK i \in 1..Len(drivers) :
          hart_plic_map[bsp_hartid] = drivers[i] /\ blocks[drivers[i]].type = "DEVICE_TYPE_PLIC"
    BY <1>7 DEF HasPlic
  <2>2. hart_plic_map[bsp_hartid] = drivers[i] /\ blocks'[drivers[i]].type = "DEVICE_TYPE_PLIC"
    BY <2>1, <1>5
  <2> QED
    BY <2>2, <1>7 DEF HasPlic
<1>10. drivers' = drivers /\ hart_plic_map' = hart_plic_map /\ driver_map' = driver_map
  BY <1>1 DEF registry
<1>11. /\ Arena(drivers', freed', blocks') /\ FirstUart(drivers', blocks', driver_map')
       /\ HasPlic(drivers', blocks', hart_plic_map')
  BY <1>1, <1>4, <1>6, <1>9, <1>10
<1> QED
  BY <1>1, <1>11 DEF BootInv

\* What becomes of a virtio device keeps it.
LEMMA VirtioBoot ==
  ASSUME BootInv, boot = "walk", NEW n, NEW v, virtio_device(n, v)
  PROVE  BootInv'
<1>1. CASE Skip /\ UNCHANGED <<arena, registry, status>>
  <2>1. UNCHANGED <<arena, registry>> /\ boot' = boot
    BY <1>1 DEF Skip
  <2> QED
    BY <2>1, SameBoot
<1>2. CASE virtio_failed(n)
  BY <1>2, FailedBoot
<1>3. CASE /\ IF IsBlock(v) THEN block_driver_init(v) ELSE boot' = "todo" /\ UNCHANGED status
           /\ UNCHANGED <<calls, arena, registry>>
  <2>1. boot' \in {"todo", "panic"} /\ UNCHANGED <<arena, registry>>
    BY <1>3 DEF block_driver_init
  <2> QED
    BY <2>1, SameBoot
<1> QED
  BY <1>1, <1>2, <1>3 DEF virtio_device

\* A string of a compatible list keeps it.
LEMMA StringBoot ==
  ASSUME BootInv, CompatibleString
  PROVE  BootInv'
<1> DEFINE n == Head(calls).node
<1>1. /\ boot = "walk"
      /\ \/ uart_device(n)
         \/ \E v \in VirtioDevices : virtio_device(n, v)
         \/ Skip /\ UNCHANGED <<arena, registry, status>>
  BY DEF CompatibleString
<1> HIDE DEF n
<1>2. CASE uart_device(n)
  BY <1>1, <1>2, UartBoot
<1>3. CASE \E v \in VirtioDevices : virtio_device(n, v)
  BY <1>1, <1>3, VirtioBoot
<1>4. CASE Skip /\ UNCHANGED <<arena, registry, status>>
  <2>1. UNCHANGED <<arena, registry>> /\ boot' = boot
    BY <1>4 DEF Skip
  <2> QED
    BY <2>1, SameBoot
<1> QED
  BY <1>1, <1>2, <1>3, <1>4

\* Every step of the boot keeps it.
LEMMA NextBoot == BootInv /\ [BootNext]_<<vars, bootVars>> => BootInv'
<1> SUFFICES ASSUME BootInv, [BootNext]_<<vars, bootVars>> PROVE BootInv'
  OBVIOUS
<1>1. CASE UNCHANGED bootVars
  <2>1. UNCHANGED <<arena, registry>> /\ boot' = boot
    BY <1>1 DEF bootVars, arena, registry
  <2> QED
    BY <2>1, SameBoot
<1>2. CASE kernel_c_entry
  BY <1>2, EntryBoot
<1>3. CASE CompatibleString
  BY <1>3, StringBoot
<1>4. CASE Children
  <2>1. UNCHANGED <<arena, registry>> /\ boot' = boot
    BY <1>4 DEF Children
  <2> QED
    BY <2>1, SameBoot
<1>5. CASE WalkDone
  <2>1. UNCHANGED <<arena, registry>> /\ boot = "walk" /\ boot' = "done"
    BY <1>5 DEF WalkDone, End
  <2> QED
    BY <2>1, SameBoot
<1> QED
  BY <1>1, <1>2, <1>3, <1>4, <1>5 DEF BootNext

-----------------------------------------------------------------------------
\* No block is twice on the two lists together.
LEMMA ApartInjective ==
  ASSUME NEW S, NEW d \in Seq(S), NEW f \in Seq(S), Apart(d, f)
  PROVE  IsInjective(d \o f)
<1> DEFINE e == d \o f
<1>1. PICK N \in Nat : N = Len(d)
  BY LenProperties
<1>2. PICK M \in Nat : M = Len(f)
  BY LenProperties
<1>3. /\ e \in Seq(S) /\ Len(e) = N + M
      /\ \A i \in 1..(N + M) : e[i] = IF i <= N THEN d[i] ELSE f[i - N]
  BY <1>1, <1>2, ConcatProperties
<1>4. DOMAIN e = 1..(N + M)
  BY <1>3, LenProperties
<1> HIDE DEF e
<1>5. /\ \A i, j \in 1..N : d[i] = d[j] => i = j
      /\ \A i, j \in 1..M : f[i] = f[j] => i = j
      /\ \A i \in 1..N, j \in 1..M : d[i] # f[j]
  BY <1>1, <1>2 DEF Apart
<1>6. \A i \in 1..(N + M) : \/ i \in 1..N /\ e[i] = d[i]
                            \/ i - N \in 1..M /\ i \in Int /\ e[i] = f[i - N]
  BY <1>3
<1>7. ASSUME NEW i \in 1..(N + M), NEW j \in 1..(N + M), e[i] = e[j]
      PROVE  i = j
  <2>1. CASE i \in 1..N /\ e[i] = d[i]
    <3>1. ~ (j - N \in 1..M /\ e[j] = f[j - N])
      BY <2>1, <1>5, <1>7
    <3>2. j \in 1..N /\ e[j] = d[j]
      BY <3>1, <1>6
    <3> QED
      BY <3>2, <2>1, <1>5, <1>7
  <2>2. CASE i - N \in 1..M /\ i \in Int /\ e[i] = f[i - N]
    <3>1. ~ (j \in 1..N /\ e[j] = d[j])
      BY <2>2, <1>5, <1>7
    <3>2. j - N \in 1..M /\ j \in Int /\ e[j] = f[j - N]
      BY <3>1, <1>6
    <3>3. f[i - N] = f[j - N]
      BY <3>2, <2>2, <1>7
    <3>4. i - N = j - N
      BY <3>2, <3>3, <2>2, <1>5, Zenon
    <3> QED
      BY <3>2, <3>4, <2>2
  <2> QED
    BY <2>1, <2>2, <1>6
<1>8. \A i, j \in DOMAIN e : e[i] = e[j] => i = j
  BY <1>4, <1>7
<1> QED
  BY <1>8 DEF IsInjective, e

\* The invariant says what RegisteredDriversLive does.
LEMMA BootLive == BootInv => RegisteredDriversLive
<1> SUFFICES ASSUME BootInv PROVE RegisteredDriversLive
  OBVIOUS
<1>1. /\ IsSequence(blocks) /\ drivers \in Seq(1..Len(blocks)) /\ freed \in Seq(1..Len(blocks))
      /\ Apart(drivers, freed)
      /\ \A x \in 1..Len(blocks) : (\E i \in 1..Len(drivers) : drivers[i] = x)
                                   \/ (\E j \in 1..Len(freed) : freed[j] = x)
  BY DEF BootInv, Arena
<1>2. IsInjective(drivers \o freed)
  BY <1>1, ApartInjective
<1>3. DOMAIN blocks = 1..Len(blocks)
  BY <1>1, LenProperties DEF IsSequence
<1>4. DOMAIN drivers = 1..Len(drivers) /\ DOMAIN freed = 1..Len(freed)
  BY <1>1, LenProperties
<1>5. \A x : x \in ToSet(drivers) <=> \E i \in 1..Len(drivers) : drivers[i] = x
  BY <1>4 DEF ToSet
<1>6. \A x : x \in ToSet(freed) <=> \E j \in 1..Len(freed) : freed[j] = x
  BY <1>4 DEF ToSet
<1>7. ToSet(drivers) \union ToSet(freed) = DOMAIN blocks
  <2>1. \A x : x \in ToSet(drivers) => x \in 1..Len(blocks)
    BY <1>1, <1>5, ElementOfSeq
  <2>2. \A x : x \in ToSet(freed) => x \in 1..Len(blocks)
    BY <1>1, <1>6, ElementOfSeq
  <2>3. \A x : x \in 1..Len(blocks) => x \in ToSet(drivers) \/ x \in ToSet(freed)
    BY <1>1, <1>5, <1>6
  <2> QED
    BY <2>1, <2>2, <2>3, <1>3
<1> DEFINE I == {i \in 1..Len(drivers) : blocks[drivers[i]].type = "DEVICE_TYPE_UART"}
           first == SelectInSeq(drivers, LAMBDA b : blocks[b].type = "DEVICE_TYPE_UART")
<1>8. driver_map = IF I = {} THEN NULL ELSE drivers[Min(I)]
  BY DEF BootInv, FirstUart, Uarts
<1>9. first = IF I # {} THEN Min(I) ELSE 0
  BY DEF SelectInSeq
<1>10. I # {} => Min(I) # 0
  <2>1. Len(drivers) \in Nat
    BY <1>1, LenProperties
  <2>2. I \in SUBSET Nat /\ \A i \in I : i # 0
    BY <2>1
  <2> HIDE DEF I
  <2> QED
    BY <2>2, Least
<1>11. driver_map = IF first = 0 THEN NULL ELSE drivers[first]
  <2> HIDE DEF I, first
  <2> QED
    BY <1>8, <1>9, <1>10
<1>12. ASSUME boot \in {"walk", "done"}, NEW h \in 0..map_capacity
       PROVE  IF h = bsp_hartid
              THEN devices_get_plic_driver(h) \in ToSet(drivers)
                   /\ blocks[devices_get_plic_driver(h)].type = "DEVICE_TYPE_PLIC"
              ELSE devices_get_plic_driver(h) = NULL
  <2>1. HasPlic(drivers, blocks, hart_plic_map)
    BY <1>12 DEF BootInv
  <2>2. map_capacity \in Nat /\ bsp_hartid \in 0..(map_capacity - 1)
    BY DevicesAssumption
  <2>3. CASE h = bsp_hartid
    <3>1. devices_get_plic_driver(h) = hart_plic_map[bsp_hartid]
      BY <2>2, <2>3 DEF devices_get_plic_driver
    <3>2. PICK i \in 1..Len(drivers) :
            hart_plic_map[bsp_hartid] = drivers[i] /\ blocks[drivers[i]].type = "DEVICE_TYPE_PLIC"
      BY <2>1 DEF HasPlic
    <3>3. devices_get_plic_driver(h) = drivers[i] /\ drivers[i] \in ToSet(drivers)
      BY <3>1, <3>2, <1>5
    <3> QED
      BY <3>2, <3>3, <2>3
  <2>4. CASE h # bsp_hartid
    <3>1. h >= map_capacity \/ h \in 0..(map_capacity - 1)
      BY <2>2
    <3>2. h \in 0..(map_capacity - 1) => hart_plic_map[h] = NULL
      BY <2>1, <2>4 DEF HasPlic
    <3>3. devices_get_plic_driver(h) = NULL
      BY <3>1, <3>2 DEF devices_get_plic_driver
    <3> QED
      BY <3>3, <2>4
  <2> QED
    BY <2>3, <2>4
<1> QED
  BY <1>2, <1>7, <1>11, <1>12 DEF RegisteredDriversLive

\* At every step of the boot, for every blob, every board and every table of
\* harts, whatever devices fail: each block of the arena is listed or free and
\* not both, interrupt 10 goes to the UART set up last, and the booting hart,
\* no other, finds a PLIC driver that is listed.
THEOREM DriversLive == BootSpec => []RegisteredDriversLive
<1>1. BootSpec => []BootInv
  BY InitBoot, NextBoot, PTL DEF BootSpec
<1> QED
  BY <1>1, BootLive, PTL

-----------------------------------------------------------------------------
(***************************************************************************)
(* What the parser tells kernel_c_entry.                                   *)
(***************************************************************************)

\* What the parser returns is success or an error to error_is_err.
Judged == state = "returned" => err = EC_SUCCESS \/ error_is_err(err)

LEMMA InitJudged == Init => Judged
BY DEF Init, Judged

\* Every step of the parser keeps it.
LEMMA NextJudged == Judged /\ [Next]_vars => Judged'
<1> SUFFICES ASSUME Judged, [Next]_vars, state' = "returned"
             PROVE  err' = EC_SUCCESS \/ error_is_err(err')
  BY DEF Judged
<1>1. error_is_err(EC_DT_BLOB_INVALID_MAGIC) /\ error_is_err(EC_DT_BLOB_EMPTY_TREE)
  BY SmallPowers DEF error_is_err, error_is_ok, error_top, EC_SUCCESS, EC_DT_BLOB_INVALID_MAGIC,
                     EC_DT_BLOB_EMPTY_TREE
<1>2. \A e : Return(e) => err' = e
  BY DEF Return
<1>3. \A how : Stop(how) => state' = how
  BY DEF Stop
<1>4. CASE UNCHANGED vars
  BY <1>4 DEF vars, Judged
<1>5. ASSUME NEW magic, NEW reserves, parse_header(magic, reserves)
      PROVE  err' = EC_SUCCESS \/ error_is_err(err')
  BY <1>1, <1>2, <1>3, <1>5 DEF parse_header
<1>6. CASE Token
  <2>1. ASSUME NEW name, Read(Start(name)), device_tree_parse_node(name) PROVE FALSE
    BY <2>1 DEF device_tree_parse_node, Read
  <2>2. CASE Read(NodeEnd) /\ node_end
    BY <2>2, <1>3 DEF node_end, Read
  <2>3. ASSUME NEW p, Read(Property(p)), device_tree_first_pass_property(p) PROVE FALSE
    BY <2>3, <1>3 DEF device_tree_first_pass_property, Read
  <2>4. CASE structs_end
    BY <2>4, <1>1, <1>2, <1>3 DEF structs_end
  <2>5. CASE Stop("halted")
    BY <2>5, <1>3
  <2>6. CASE \E name \in NodeNames \union {""} :
               /\ Within(Len(nodes) < MaxNodes, Start(name)) /\ NameAllowed(name)
               /\ Read(Start(name)) /\ device_tree_parse_node(name)
    BY <2>1, <2>6, Zenon
  <2>7. CASE \E p \in BlobProperties :
               /\ Within(p \in Properties /\ Len(props) < MaxProps, Property(p)) /\ NewName(p.name)
               /\ Read(Property(p)) /\ device_tree_first_pass_property(p)
    BY <2>3, <2>7, Zenon
  <2> QED
    BY <2>2, <2>4, <2>5, <2>6, <2>7, <1>4, <1>6, Zenon DEF Token
<1>7. CASE EnterNode
  BY <1>7 DEF EnterNode
<1>8. CASE ReadProperty
  <2>1. \A e : Return(error_push(e, EC_DT_BLOB_REWRITE_FAILED)) => error_is_err(err')
    BY <1>2, PushedTop
  <2> QED
    BY <1>8, <1>3, <2>1 DEF ReadProperty, compatible_property, address_cells_property,
      size_cells_property, phandle_property, other_property, Interpret
<1>9. CASE FinishNode
  BY <1>9, <1>3 DEF FinishNode
<1>10. CASE SecondPassDone
  BY <1>10, <1>2 DEF SecondPassDone
<1> QED
  BY <1>4, <1>5, <1>6, <1>7, <1>8, <1>9, <1>10 DEF Next

-----------------------------------------------------------------------------
(***************************************************************************)
(* What the blob says, as the walk reads it off the tree.                  *)
(***************************************************************************)

\* A reg of d cells by two and two: one pair exactly if d is four.
LEMMA OnePair ==
  ASSUME NEW d \in Nat, NEW p, Cut(2, 2, p, d)
  PROVE  /\ p.value.n_pairs = 1 <=> d = 4
         /\ d = 4 => p.value.addresses[1] = <<1, 2>>
<1>1. PICK q, r \in Nat : q = d \div 4 /\ r = d % 4 /\ r < 4 /\ d = 4 * q + r
  BY Division
<1>2. 2 + 2 = 4 /\ d % 4 = 0 /\ p.value = RegCut(2, 2, d)
  BY DEF Cut
<1>3. r = 0 /\ d = 4 * q
  BY <1>1, <1>2
<1>4. q = 1 <=> d = 4
  BY <1>3
<1>5. /\ p.value.n_pairs = q
      /\ p.value.addresses = [i \in 1..q |-> CellsFrom((i - 1) * 4, 2)]
  BY <1>1, <1>2 DEF RegCut
<1>6. CellsFrom(0, 2) = <<1, 2>>
  <2>1. CellsFrom(0, 2) = [c \in 1..2 |-> 0 + c]
    BY DEF CellsFrom, Width
  <2> QED
    BY <2>1
<1>7. d = 4 => p.value.addresses[1] = CellsFrom((1 - 1) * 4, 2)
  BY <1>4, <1>5
<1> QED
  BY <1>4, <1>5, <1>6, <1>7

\* UsableReg: the drivers' test of a node's reg is a test of the blob, and the
\* address they take from it is its first two cells.
LEMMA RegAgrees ==
  ASSUME TreeInv, PassInv, Succeeded, NEW n \in Tree
  PROVE  /\ UsableReg(n) <=> RegInBlob(n)
         /\ UsableReg(n) => Address(n) = <<1, 2>>
<1> DEFINE k == device_tree_get_property(n, "reg")
           a == nodes[n].address_cells
           s == nodes[n].size_cells
<1>1. PICK seen :
        /\ Passes(seen, tokens, nodes, props, root_node, phandle_map, << >>, NoVisit)
        /\ Tree = seen /\ Done(seen, NoVisit) = seen
        /\ \A m \in seen : m \in 1..Len(nodes)
        /\ nodes[root_node].parent = NULL /\ root_node \in 1..Len(nodes)
  BY PassEnded
<1>2. /\ Reaches(nodes, root_node, seen, << >>, NoVisit)
      /\ CellsPassed(tokens, nodes, root_node, seen, << >>)
      /\ Held(tokens, nodes, props, seen)
  BY <1>1 DEF Passes
<1>3. n \in seen /\ n \in 1..Len(nodes)
  BY <1>1
<1>4. /\ a = Inherited("#address-cells", DEFAULT_ADDRESS_CELLS)[n]
      /\ s = Inherited("#size-cells", DEFAULT_SIZE_CELLS)[n]
  BY <1>1, <1>2, <1>3, CellsAgree
<1>5. Value(n, "reg") = ValuesOf(tokens, n, "reg")
  BY BlobTerms DEF Value, ValuesOf
<1>6. PropertiesListed(tokens, nodes, props)
  BY DEF TreeInv, Wired
<1>7. ValuesOf(tokens, n, "reg") = {} <=> \A l \in Own(nodes, props, n) : props[l].name # "reg"
  BY <1>2, <1>3, <1>6, HoldsName
<1>8. \/ k = NULL /\ \A l \in Own(nodes, props, n) : props[l].name # "reg"
      \/ k # NULL /\ k \in Own(nodes, props, n) /\ props[k].name = "reg"
  BY <1>3, PropertyFound
<1>9. UsableReg(n) <=> /\ k # NULL /\ props[k].type = "REG" /\ props[k].value.n_pairs = 1
                       /\ a = 2 /\ s = 2
  BY DEF UsableReg
<1>10. RegInBlob(n) <=> a = 2 /\ s = 2 /\ ValuesOf(tokens, n, "reg") = {4}
  BY <1>4, <1>5 DEF RegInBlob
<1>11. Address(n) = props[k].value.addresses[1]
  BY DEF Address
<1> HIDE DEF k, a, s
<1>12. CASE k = NULL
  BY <1>7, <1>8, <1>9, <1>10, <1>12
<1>13. CASE k # NULL
  <2>1. PICK d : Holds(tokens, nodes, props, seen, n, k, d)
    BY <1>2, <1>3, <1>8, <1>13 DEF Held
  <2>2. ValuesOf(tokens, n, "reg") = {d} /\ d \in Nat /\ Cut(a, s, props[k], d)
    BY <2>1, <1>3, <1>8, <1>13 DEF Holds, a, s
  <2>3. props[k].type = "REG"
    BY <2>2 DEF Cut
  <2>4. CASE a = 2 /\ s = 2
    <3>1. Cut(2, 2, props[k], d)
      BY <2>2, <2>4
    <3>2. /\ props[k].value.n_pairs = 1 <=> d = 4
          /\ d = 4 => props[k].value.addresses[1] = <<1, 2>>
      BY <3>1, <2>2, OnePair
    <3>3. ValuesOf(tokens, n, "reg") = {4} <=> d = 4
      BY <2>2
    <3> QED
      BY <3>2, <3>3, <2>3, <2>4, <1>9, <1>10, <1>11, <1>13
  <2>5. CASE ~(a = 2 /\ s = 2)
    BY <2>5, <1>9, <1>10
  <2> QED
    BY <2>4, <2>5
<1> QED
  BY <1>12, <1>13

\* The places among the first k of a list that hold c.
Places(list, k, c) == {j \in 1..k : list[j] = c}

\* How often a node lists a string: as often as its compatible list holds it.
LEMMA MentionsAgree ==
  ASSUME TreeInv, PassInv, Succeeded, NEW n \in Tree, NEW c
  PROVE  LET list == nodes[n].compatible
         IN  /\ list \in Seq(STRING)
             /\ Mentions(n, c) = Cardinality(Places(list, Len(list), c))
             /\ Mentions(n, c) > 0 <=> \E v \in Value(n, "compatible") : c \in ToSet(v)
<1> DEFINE list == nodes[n].compatible
           places == UNION {{v} \X DOMAIN v : v \in Value(n, "compatible")}
           M == {p \in places : p[1][p[2]] = c}
           P == Places(list, Len(list), c)
<1>1. PICK seen :
        /\ Passes(seen, tokens, nodes, props, root_node, phandle_map, << >>, NoVisit)
        /\ Tree = seen /\ Done(seen, NoVisit) = seen
        /\ \A m \in seen : m \in 1..Len(nodes)
  BY PassEnded
<1>2. /\ Applied(nodes, props, seen, NoVisit, phandle_map)
      /\ Held(tokens, nodes, props, seen)
  BY <1>1 DEF Passes
<1>3. n \in seen /\ n \in 1..Len(nodes)
  BY <1>1
<1>4. Value(n, "compatible") = ValuesOf(tokens, n, "compatible")
  BY BlobTerms DEF Value, ValuesOf
<1>5. PropertiesListed(tokens, nodes, props)
  BY DEF TreeInv, Wired
<1>6. TakenFrom(props, Own(nodes, props, n), "compatible", list, << >>)
  <2>1. TakenFrom(props, ReadOf(nodes, props, seen, NoVisit, n), "compatible", list, << >>)
    BY <1>2, <1>3 DEF Applied
  <2> QED
    BY <2>1, <1>3, AllRead
<1>7. /\ ValuesOf(tokens, n, "compatible") = {} <=>
           \A k \in Own(nodes, props, n) : props[k].name # "compatible"
      /\ \A k \in Own(nodes, props, n) : props[k].name = "compatible" /\ "compatible" # "reg" =>
           ValuesOf(tokens, n, "compatible") = {props[k].value}
  BY <1>2, <1>3, <1>5, HoldsName
<1>8. Mentions(n, c) = Cardinality(M)
  BY DEF Mentions
<1>9. ASSUME \A k \in Own(nodes, props, n) : props[k].name # "compatible"
      PROVE  /\ list \in Seq(STRING) /\ Mentions(n, c) = Cardinality(P)
             /\ Mentions(n, c) > 0 <=> \E v \in Value(n, "compatible") : c \in ToSet(v)
  <2>1. list = << >> /\ Value(n, "compatible") = {}
    BY <1>4, <1>6, <1>7, <1>9 DEF TakenFrom
  <2>2. M = {}
    BY <2>1
  <2>3. P = {} /\ list \in Seq(STRING)
    <3>1. Len(list) = 0 /\ 1..0 = {}
      BY <2>1
    <3> QED
      BY <3>1, <2>1 DEF Places
  <2> HIDE DEF M, P, list
  <2>4. Mentions(n, c) = 0 /\ Cardinality(P) = 0
    BY <2>2, <2>3, <1>8, FS_EmptySet
  <2> QED
    BY <2>1, <2>3, <2>4 DEF list, P
<1>10. ASSUME NEW k \in Own(nodes, props, n), props[k].name = "compatible"
       PROVE  /\ list \in Seq(STRING) /\ Mentions(n, c) = Cardinality(P)
              /\ Mentions(n, c) > 0 <=> \E v \in Value(n, "compatible") : c \in ToSet(v)
  <2>1. list = props[k].value /\ Value(n, "compatible") = {list}
    BY <1>4, <1>6, <1>7, <1>10 DEF TakenFrom
  <2>2. list \in Seq(STRING)
    <3>1. PICK d : Holds(tokens, nodes, props, seen, n, k, d)
      BY <1>2, <1>3 DEF Held
    <3> QED
      BY <3>1, <2>1, <1>10 DEF Holds
  <2> HIDE DEF list
  <2>3. Len(list) \in Nat /\ DOMAIN list = 1..Len(list)
    BY <2>2, LenProperties
  <2>4. P \in SUBSET (1..Len(list)) /\ IsFiniteSet(P)
    <3>1. IsFiniteSet(1..Len(list))
      BY <2>3, FS_Interval
    <3> QED
      BY <3>1, FS_Subset DEF Places
  <2>5. \A p : p \in M <=> \E j \in P : p = <<list, j>>
    <3>1. places = {list} \X (1..Len(list))
      BY <2>1, <2>3
    <3> HIDE DEF places
    <3> QED
      BY <3>1 DEF Places
  <2> DEFINE f == [j \in P |-> <<list, j>>]
  <2>6. /\ DOMAIN f = P /\ f = [j \in P |-> f[j]] /\ \A j \in P : f[j] = <<list, j>>
        /\ \A i, j : <<list, i>> = <<list, j>> => i = j
    OBVIOUS
  <2> HIDE DEF f, M, P
  <2>7. Cardinality(M) = Cardinality(P)
    BY <2>4, <2>5, <2>6, SameCount
  <2>8. Cardinality(P) \in Nat /\ (Cardinality(P) = 0 <=> P = {})
    BY <2>4, FS_CardinalityType, FS_EmptySet
  <2>9. P # {} <=> c \in ToSet(list)
    BY <2>3 DEF P, Places, ToSet
  <2>10. Mentions(n, c) > 0 <=> \E v \in Value(n, "compatible") : c \in ToSet(v)
    BY <2>1, <2>7, <2>8, <2>9, <1>8
  <2> QED
    BY <2>2, <2>7, <2>10, <1>8
<1> HIDE DEF P, list
<1>11. /\ list \in Seq(STRING) /\ Mentions(n, c) = Cardinality(P)
       /\ Mentions(n, c) > 0 <=> \E v \in Value(n, "compatible") : c \in ToSet(v)
  BY <1>9, <1>10, Zenon
<1> QED
  BY <1>11 DEF P, list

-----------------------------------------------------------------------------
(***************************************************************************)
(* The walk: the calls of devices_recursive_initialize that are left, and  *)
(* the nodes seen, whose calls have gone over all their strings.           *)
(***************************************************************************)

Distinct(td) == \A i, j \in 1..Len(td) : td[i].node = td[j].node => i = j

HangBelow(ns, n, below) == \A m : m \in below <=> m \in 1..Len(ns) /\ ns[m].parent = n

\* The first call is over: its node is seen, and its children wait.
LEMMA ReachesDown ==
  ASSUME NEW ns, NEW r, NEW seen, NEW S, NEW td \in Seq(S), td # << >>,
         Reaches(ns, r, seen, td, NoVisit), \A m \in Waiting(td) : m \in 1..Len(ns),
         NEW n, n = Head(td).node, ns[r].parent = NULL,
         NEW below, HangBelow(ns, n, below),
         NEW tf, Waiting(tf) = below \union Waiting(Tail(td)), Distinct(tf)
  PROVE  Reaches(ns, r, seen \union {n}, tf, NoVisit)
<1> DEFINE W == Waiting(Tail(td))
<1>1. /\ \A m \in seen : m \in 1..Len(ns) /\ m \notin Waiting(td)
      /\ \A i, j \in 1..Len(td) : td[i].node = td[j].node => i = j
      /\ r \in seen \union Waiting(td)
      /\ \A m \in 1..Len(ns) : ns[m].parent \in Done(seen, NoVisit) => m \in seen \union Waiting(td)
      /\ \A m \in seen \union Waiting(td) : m = r \/ ns[m].parent \in Done(seen, NoVisit)
  BY DEF Reaches
<1>2. Waiting(td) = {n} \union W /\ n \notin W
  BY <1>1, WaitingSplits
<1>3. n \in 1..Len(ns) /\ n \notin seen /\ 0 \notin seen /\ n # 0
  BY <1>1, <1>2
<1>4. Done(seen, NoVisit) = seen /\ Done(seen \union {n}, NoVisit) = seen \union {n}
  BY <1>3, NotVisiting DEF Done
<1> HIDE DEF W
<1>5. \A m \in below : m # r /\ m \notin seen /\ m # n /\ m \notin W
  <2> SUFFICES ASSUME NEW m \in below PROVE m # r /\ m \notin seen \union Waiting(td)
    BY <1>2
  <2>1. ns[m].parent = n
    BY DEF HangBelow
  <2>2. m # r
    BY <2>1, <1>3 DEF NULL
  <2> QED
    BY <2>1, <2>2, <1>1, <1>3, <1>4
<1>6. Waiting(tf) = below \union W
  BY DEF W
<1>7. \A m \in seen \union {n} : m \in 1..Len(ns) /\ m \notin Waiting(tf)
  BY <1>1, <1>2, <1>3, <1>5, <1>6
<1>8. r \in (seen \union {n}) \union Waiting(tf)
  BY <1>1, <1>2, <1>6
<1>9. \A m \in 1..Len(ns) : ns[m].parent \in seen \union {n} => m \in (seen \union {n}) \union Waiting(tf)
  BY <1>1, <1>2, <1>4, <1>6 DEF HangBelow
<1>10. \A m \in (seen \union {n}) \union Waiting(tf) : m = r \/ ns[m].parent \in seen \union {n}
  BY <1>1, <1>2, <1>4, <1>6 DEF HangBelow
<1> QED
  BY <1>4, <1>7, <1>8, <1>9, <1>10, NotVisiting DEF Reaches, Distinct, NULL

WalkCalls(N) == [node : 1..N, i : Nat \ {0}]

\* The calls left: the first one is at one of its strings or behind them, the
\* others have not begun.
Stack(ns, r, seen, td) ==
  /\ Reaches(ns, r, seen, td, NoVisit) /\ td \in Seq(WalkCalls(Len(ns)))
  /\ \A k \in 1..Len(td) : k # 1 => td[k].i = 1
  /\ td # << >> => td[1].i <= Len(ns[td[1].node].compatible) + 1

\* How many strings of n the walk has looked at.
Looked(ns, seen, td, n) ==
  IF n \in seen THEN Len(ns[n].compatible)
  ELSE IF td # << >> /\ n = td[1].node THEN td[1].i - 1 ELSE 0

\* Facts about the first call.
LEMMA FirstCall ==
  ASSUME NEW ns, NEW r, NEW seen, NEW td, Stack(ns, r, seen, td), td # << >>
  PROVE  /\ td[1] = Head(td) /\ 1 \in 1..Len(td) /\ Len(td) \in Nat
         /\ td[1].node \in 1..Len(ns) /\ td[1].i \in Nat \ {0} /\ td[1].node \notin seen
         /\ td[1].node \in Waiting(td)
         /\ Looked(ns, seen, td, td[1].node) = td[1].i - 1
<1>1. td \in Seq(WalkCalls(Len(ns))) /\ Reaches(ns, r, seen, td, NoVisit)
  BY DEF Stack
<1>2. \A i, j \in 1..Len(td) : td[i].node = td[j].node => i = j
  BY <1>1 DEF Reaches
<1>3. /\ Head(td).node \in Waiting(td) /\ 1 \in 1..Len(td) /\ td[1] = Head(td)
  BY <1>1, <1>2, WaitingSplits
<1>4. td[1] \in WalkCalls(Len(ns)) /\ Len(td) \in Nat
  BY <1>1, <1>3, ElementOfSeq, LenProperties
<1>5. td[1].node \in 1..Len(ns) /\ td[1].i \in Nat \ {0}
  BY <1>4 DEF WalkCalls
<1>6. td[1].node \notin seen
  BY <1>1, <1>3 DEF Reaches
<1> QED
  BY <1>3, <1>4, <1>5, <1>6 DEF Looked

Skips(td, te) == te = [td EXCEPT ![1].i = @ + 1]

\* Skip: the first call goes on to the next string.
LEMMA SkipStack ==
  ASSUME NEW ns, NEW r, NEW seen, NEW td, Stack(ns, r, seen, td), td # << >>,
         Len(ns[td[1].node].compatible) \in Nat, td[1].i <= Len(ns[td[1].node].compatible),
         NEW te, Skips(td, te)
  PROVE  /\ Stack(ns, r, seen, te) /\ Waiting(te) = Waiting(td)
         /\ \A n : n # td[1].node => Looked(ns, seen, te, n) = Looked(ns, seen, td, n)
         /\ Looked(ns, seen, te, td[1].node) = td[1].i
<1>1. /\ td[1] = Head(td) /\ 1 \in 1..Len(td) /\ Len(td) \in Nat
      /\ td[1].node \in 1..Len(ns) /\ td[1].i \in Nat \ {0} /\ td[1].node \notin seen
  BY FirstCall
<1>2. td \in Seq(WalkCalls(Len(ns))) /\ Reaches(ns, r, seen, td, NoVisit)
  BY DEF Stack
<1>3. DOMAIN td = 1..Len(td) /\ \A k \in 1..Len(td) : td[k] \in WalkCalls(Len(ns))
  BY <1>2, LenProperties, ElementOfSeq
<1>4. DOMAIN td[1] = {"node", "i"}
  BY <1>1, <1>3 DEF WalkCalls
<1> DEFINE h == [td[1] EXCEPT !.i = td[1].i + 1]
<1>5. te = [td EXCEPT ![1] = h]
  BY DEF Skips
<1>6. h.node = td[1].node /\ h.i = td[1].i + 1 /\ h \in WalkCalls(Len(ns))
  <2>1. h.node = td[1].node /\ h.i = td[1].i + 1
    BY <1>4
  <2>2. td[1] \in WalkCalls(Len(ns))
    BY <1>1, <1>3
  <2>3. td[1].i + 1 \in Nat \ {0}
    BY <1>1
  <2> QED
    BY <2>1, <2>2, <2>3 DEF WalkCalls
<1> HIDE DEF h
<1>7. te \in Seq(WalkCalls(Len(ns))) /\ Len(te) = Len(td) /\ te[1] = h
      /\ \A k \in 1..Len(td) : k # 1 => te[k] = td[k]
  <2> DEFINE ex == [td EXCEPT ![1] = h]
             C == WalkCalls(Len(ns))
  <2>1. h \in C /\ td \in Seq(C) /\ 1 \in 1..Len(td)
    BY <1>1, <1>2, <1>6
  <2> HIDE DEF C
  <2>2. /\ ex \in Seq(C) /\ Len(ex) = Len(td)
        /\ \A k \in 1..Len(td) : ex[k] = IF k = 1 THEN h ELSE td[k]
    BY <2>1, ExceptSeq
  <2> HIDE DEF ex
  <2> QED
    BY <2>1, <2>2, <1>5 DEF ex, C
<1>8. \A k \in 1..Len(td) : te[k].node = td[k].node
  BY <1>6, <1>7
<1>9. Waiting(te) = Waiting(td)
  BY <1>7, <1>8 DEF Waiting
<1>10. Reaches(ns, r, seen, te, NoVisit)
  <2>1. \A i, j \in 1..Len(te) : te[i].node = te[j].node => i = j
    BY <1>2, <1>7, <1>8 DEF Reaches
  <2> QED
    BY <2>1, <1>2, <1>9 DEF Reaches
<1>11. te # << >>
  BY <1>1, <1>7
<1>12. te[1].node = td[1].node /\ te[1].i = td[1].i + 1
  BY <1>6, <1>7
<1>13. \A k \in 1..Len(te) : k # 1 => te[k].i = 1
  BY <1>7 DEF Stack
<1>14. Stack(ns, r, seen, te)
  <2>1. te[1].i <= Len(ns[te[1].node].compatible) + 1
    BY <1>1, <1>12
  <2> QED
    BY <2>1, <1>7, <1>10, <1>13 DEF Stack
<1>15. \A n : n # td[1].node => Looked(ns, seen, te, n) = Looked(ns, seen, td, n)
  BY <1>12 DEF Looked
<1>16. Looked(ns, seen, te, td[1].node) = td[1].i
  BY <1>1, <1>11, <1>12 DEF Looked
<1> QED
  BY <1>9, <1>14, <1>15, <1>16

ListedBelow(ns, n, children) ==
  /\ children \in Seq(1..Len(ns))
  /\ \A i, j \in 1..Len(children) : children[i] = children[j] => i = j
  /\ \A m : m \in ToSet(children) <=> m \in 1..Len(ns) /\ ns[m].parent = n

Descended(td, children, tf) ==
  tf = [k \in 1..Len(children) |-> [node |-> children[k], i |-> 1]] \o Tail(td)

NodeDone(ns, r, seen, td, now, tf) ==
  /\ Stack(ns, r, now, tf)
  /\ \A m : m \in seen \union Waiting(td) => m \in now \union Waiting(tf)
  /\ \A n : Looked(ns, now, tf, n) = Looked(ns, seen, td, n)

\* Children: the first call is over, and its node's children come next.
LEMMA ChildrenStack ==
  ASSUME NEW ns, NEW r, NEW seen, NEW td, Stack(ns, r, seen, td), td # << >>, ns[r].parent = NULL,
         \A m \in 1..Len(ns) : Len(ns[m].compatible) \in Nat,
         td[1].i > Len(ns[td[1].node].compatible),
         NEW children, ListedBelow(ns, td[1].node, children), NEW tf, Descended(td, children, tf)
  PROVE  NodeDone(ns, r, seen, td, seen \union {td[1].node}, tf)
<1> DEFINE made == [k \in 1..Len(children) |-> [node |-> children[k], i |-> 1]]
           rest == Tail(td)
           C == WalkCalls(Len(ns))
           n1 == td[1].node
<1>0. /\ children \in Seq(1..Len(ns))
      /\ \A i, j \in 1..Len(children) : children[i] = children[j] => i = j
      /\ \A m : m \in ToSet(children) <=> m \in 1..Len(ns) /\ ns[m].parent = n1
  BY DEF ListedBelow
<1>1. /\ td[1] = Head(td) /\ 1 \in 1..Len(td) /\ Len(td) \in Nat
      /\ n1 \in 1..Len(ns) /\ td[1].i \in Nat \ {0} /\ n1 \notin seen
      /\ Looked(ns, seen, td, n1) = td[1].i - 1
  BY FirstCall
<1>2. td \in Seq(C) /\ Reaches(ns, r, seen, td, NoVisit) /\ td[1].i <= Len(ns[n1].compatible) + 1
  BY DEF Stack
<1>3. /\ \A i, j \in 1..Len(td) : td[i].node = td[j].node => i = j
      /\ \A m \in seen : m \notin Waiting(td)
      /\ \A m \in seen \union Waiting(td) : m = r \/ ns[m].parent \in Done(seen, NoVisit)
  BY <1>2 DEF Reaches
<1>4. /\ Waiting(td) = {n1} \union Waiting(rest)
      /\ \A i, j \in 1..Len(rest) : rest[i].node = rest[j].node => i = j
      /\ \A i \in 1..Len(rest) : i + 1 \in 1..Len(td) /\ rest[i] = td[i + 1]
  BY <1>1, <1>2, <1>3, WaitingSplits
<1>5. rest \in Seq(C)
  BY <1>2, HeadTailProperties
<1>6. /\ Len(children) \in Nat /\ \A k \in 1..Len(children) : children[k] \in 1..Len(ns)
  BY <1>0, LenProperties, ElementOfSeq
<1>7. made \in Seq(C) /\ Len(made) = Len(children)
      /\ \A k \in 1..Len(children) : made[k] = [node |-> children[k], i |-> 1]
  <2>1. \A k \in 1..Len(children) : [node |-> children[k], i |-> 1] \in C
    BY <1>6 DEF WalkCalls
  <2> HIDE DEF C
  <2>2. made \in [1..Len(children) -> C]
    BY <2>1
  <2>3. made \in Seq(C) /\ DOMAIN made = 1..Len(children)
    <3> HIDE DEF made
    <3>1. PICK L \in Nat : L = Len(children)
      BY <1>6
    <3>2. made \in [1..L -> C]
      BY <3>1, <2>2
    <3>3. made \in Seq(C) /\ DOMAIN made = 1..L
      BY <3>2, SeqDef
    <3> QED
      BY <3>1, <3>3
  <2>4. Len(made) \in Nat /\ DOMAIN made = 1..Len(made)
    BY <2>3, LenProperties
  <2>5. \A k \in 1..Len(children) : made[k] = [node |-> children[k], i |-> 1]
    OBVIOUS
  <2> HIDE DEF made
  <2>6. Len(made) = Len(children)
    BY <2>3, <2>4, <1>6
  <2> QED
    BY <2>3, <2>5, <2>6
<1> HIDE DEF made, C
<1>8. \A m \in ToSet(children) : m # r /\ m \notin seen \union Waiting(td)
  <2> SUFFICES ASSUME NEW m \in ToSet(children) PROVE m # r /\ m \notin seen \union Waiting(td)
    OBVIOUS
  <2>1. ns[m].parent = n1
    BY <1>0
  <2>2. m # r
    BY <2>1, <1>1 DEF NULL
  <2>3. n1 \notin Done(seen, NoVisit)
    BY <1>1 DEF Done
  <2> QED
    BY <2>1, <2>2, <2>3, <1>3
<1>9. \A k \in 1..Len(children) : made[k].node = children[k] /\ made[k].i = 1
  <2> SUFFICES ASSUME NEW k \in 1..Len(children)
               PROVE  made[k].node = children[k] /\ made[k].i = 1
    OBVIOUS
  <2>1. made[k] = [node |-> children[k], i |-> 1]
    BY <1>7
  <2> QED
    BY <2>1
<1>10. InFront(rest, made, children, made \o rest)
  <2> HIDE DEF rest, n1
  <2>1. \A m \in ToSet(children) : m \notin Waiting(rest)
    BY <1>4, <1>8
  <2> QED
    BY <2>1, <1>0, <1>4, <1>5, <1>7, <1>9, FrontWaits
<1>11. tf = made \o rest
  BY DEF made, Descended
<1>12. /\ Waiting(tf) = ToSet(children) \union Waiting(rest)
       /\ \A i, j \in 1..Len(tf) : tf[i].node = tf[j].node => i = j
       /\ \A i \in 1..Len(tf) : \/ \E j \in 1..Len(rest) : i = j + Len(made) /\ tf[i] = rest[j]
                                \/ i \in 1..Len(made) /\ tf[i] = made[i]
  BY <1>10, <1>11 DEF InFront
<1>13. \A m \in Waiting(td) : m \in 1..Len(ns)
  <2>1. \A i \in 1..Len(td) : td[i].node \in 1..Len(ns)
    <3>1. \A i \in 1..Len(td) : td[i] \in C
      BY <1>2, ElementOfSeq
    <3> QED
      BY <3>1 DEF C, WalkCalls
  <2> QED
    BY <2>1 DEF Waiting
<1>14. Reaches(ns, r, seen \union {n1}, tf, NoVisit)
  <2>1. n1 = Head(td).node /\ Waiting(tf) = ToSet(children) \union Waiting(Tail(td))
    BY <1>1, <1>12
  <2>2. HangBelow(ns, n1, ToSet(children)) /\ Distinct(tf)
    BY <1>0, <1>12 DEF HangBelow, Distinct
  <2> HIDE DEF n1
  <2> QED
    BY <2>1, <2>2, <1>2, <1>13, ReachesDown
<1>15. \A i \in 1..Len(tf) : tf[i].i = 1
  <2>1. \A j \in 1..Len(rest) : rest[j].i = 1
    <3>1. \A j \in 1..Len(rest) : j + 1 # 1
      BY <1>5, LenProperties
    <3> QED
      BY <3>1, <1>4 DEF Stack
  <2>2. \A j \in 1..Len(made) : made[j].i = 1
    BY <1>7, <1>9
  <2> SUFFICES ASSUME NEW i \in 1..Len(tf) PROVE tf[i].i = 1
    OBVIOUS
  <2>3. CASE \E j \in 1..Len(rest) : i = j + Len(made) /\ tf[i] = rest[j]
    BY <2>1, <2>3
  <2>4. CASE i \in 1..Len(made) /\ tf[i] = made[i]
    BY <2>2, <2>4
  <2> QED
    BY <2>3, <2>4, <1>12
<1>16. tf \in Seq(C)
  BY <1>5, <1>7, <1>11, ConcatProperties
<1>17. \A m \in 1..Len(tf) : tf[m].node \notin seen \union {n1}
  <2>1. \A m \in seen \union {n1} : m \notin Waiting(tf)
    BY <1>14 DEF Reaches
  <2> QED
    BY <2>1 DEF Waiting
<1>18. tf # << >> => 1 \in 1..Len(tf)
  BY <1>16, EmptySeq, LenProperties
<1>19. tf # << >> => tf[1].i <= Len(ns[tf[1].node].compatible) + 1
  <2> SUFFICES ASSUME tf # << >> PROVE tf[1].i <= Len(ns[tf[1].node].compatible) + 1
    OBVIOUS
  <2>1. tf[1].i = 1
    BY <1>15, <1>18
  <2>2. tf[1].node \in 1..Len(ns)
    <3>1. tf[1] \in C
      BY <1>16, <1>18, ElementOfSeq
    <3> QED
      BY <3>1 DEF C, WalkCalls
  <2>3. PICK L \in Nat : L = Len(ns[tf[1].node].compatible)
    BY <2>2
  <2> QED
    BY <2>1, <2>3
<1>20. Stack(ns, r, seen \union {n1}, tf)
  BY <1>14, <1>15, <1>16, <1>19 DEF Stack, C
<1>21. ASSUME NEW n PROVE Looked(ns, seen \union {n1}, tf, n) = Looked(ns, seen, td, n)
  <2>1. CASE n \in seen
    BY <2>1 DEF Looked
  <2>2. CASE n = n1
    <3>1. PICK L \in Nat : L = Len(ns[n1].compatible)
      BY <1>1
    <3>2. td[1].i - 1 = L
      BY <3>1, <1>1, <1>2
    <3> QED
      BY <3>1, <3>2, <2>2, <1>1 DEF Looked
  <2>3. CASE n \notin seen /\ n # n1
    <3>1. Looked(ns, seen, td, n) = 0
      BY <2>3 DEF Looked
    <3>2. tf # << >> => tf[1].i = 1
      BY <1>15, <1>18
    <3> QED
      BY <3>1, <3>2, <2>3 DEF Looked
  <2> QED
    BY <2>1, <2>2, <2>3
<1>22. seen \union Waiting(td) \subseteq (seen \union {n1}) \union Waiting(tf)
  BY <1>4, <1>12
<1> QED
  BY <1>20, <1>21, <1>22 DEF n1, NodeDone

-----------------------------------------------------------------------------
(***************************************************************************)
(* The drivers of the UARTs, counted.                                      *)
(***************************************************************************)
UartOf(n) == DriverNode("DEVICE_TYPE_UART", n, <<1, 2>>)

PlicOf(n) == DriverNode("DEVICE_TYPE_PLIC", n, <<1, 2>>)

\* The listed blocks that are drivers of a UART at n.
Has(d, b, n) == {x \in {d[i] : i \in 1..Len(d)} : b[x] = UartOf(n)}

\* The drivers a node must have when k of its strings have been looked at.
Due(usable, list, k) == IF usable THEN Cardinality(Places(list, k, "ns16550a")) ELSE 0

\* One more place.
LEMMA PlacesStep ==
  ASSUME NEW list, NEW k \in Nat, NEW c
  PROVE  /\ IsFiniteSet(Places(list, k, c)) /\ Cardinality(Places(list, k, c)) \in Nat
         /\ Cardinality(Places(list, 0, c)) = 0
         /\ Cardinality(Places(list, k + 1, c)) =
              Cardinality(Places(list, k, c)) + (IF list[k + 1] = c THEN 1 ELSE 0)
<1> DEFINE P == Places(list, k, c)
           Q == Places(list, k + 1, c)
<1>1. IsFiniteSet(1..k)
  BY FS_Interval
<1>2. P \in SUBSET (1..k)
  BY DEF Places
<1>3. IsFiniteSet(P) /\ Cardinality(P) \in Nat
  <2> HIDE DEF P
  <2> QED
    BY <1>1, <1>2, FS_Subset, FS_CardinalityType
<1>4. Places(list, 0, c) = {}
  <2>1. 1..0 = {}
    OBVIOUS
  <2> QED
    BY <2>1 DEF Places
<1>5. Cardinality(Places(list, 0, c)) = 0
  BY <1>4, FS_EmptySet
<1>6. 1..(k + 1) = (1..k) \union {k + 1} /\ k + 1 \notin 1..k
  OBVIOUS
<1>7. Q = IF list[k + 1] = c THEN P \union {k + 1} ELSE P
  BY <1>6 DEF Places
<1>8. k + 1 \notin P
  BY <1>2, <1>6
<1> HIDE DEF P, Q
<1>9. Cardinality(P \union {k + 1}) = Cardinality(P) + 1
  BY <1>3, <1>8, FS_AddElement
<1>10. Cardinality(Q) = Cardinality(P) + (IF list[k + 1] = c THEN 1 ELSE 0)
  BY <1>3, <1>7, <1>9
<1> QED
  BY <1>3, <1>5, <1>10 DEF P, Q

\* One string more may be one driver more.
LEMMA DueStep ==
  ASSUME NEW usable \in BOOLEAN, NEW list, NEW k \in Nat
  PROVE  /\ Due(usable, list, 0) = 0 /\ Due(usable, list, k) \in Nat
         /\ Due(usable, list, k + 1) =
              Due(usable, list, k) + (IF usable /\ list[k + 1] = "ns16550a" THEN 1 ELSE 0)
<1>1. /\ Cardinality(Places(list, k, "ns16550a")) \in Nat
      /\ Cardinality(Places(list, 0, "ns16550a")) = 0
      /\ Cardinality(Places(list, k + 1, "ns16550a")) =
           Cardinality(Places(list, k, "ns16550a")) + (IF list[k + 1] = "ns16550a" THEN 1 ELSE 0)
  BY PlacesStep
<1> QED
  BY <1>1 DEF Due

\* A block taken and put on the list, or freed again.
LEMMA HasTaken ==
  ASSUME NEW d, NEW f, NEW b, Arena(d, f, b), NEW x, NEW g, NEW c, NEW y, Takes(f, b, x, g, c, y), NEW n
  PROVE  /\ IsFiniteSet(Has(d, b, n)) /\ Cardinality(Has(d, b, n)) \in Nat
         /\ Has(d, c, n) = Has(d, b, n)
         /\ Cardinality(Has(<<x>> \o d, c, n)) =
              Cardinality(Has(d, b, n)) + (IF y = UartOf(n) THEN 1 ELSE 0)
<1> DEFINE e == <<x>> \o d
           H == Has(d, b, n)
<1>1. /\ Len(b) \in Nat /\ Len(c) \in Nat /\ Len(b) <= Len(c) /\ x \in 1..Len(c) /\ c[x] = y
  BY Taken
<1>2. \A i \in 1..Len(d) : d[i] \in 1..Len(b) /\ d[i] # x
  BY Taken
<1>3. \A i \in 1..Len(d) : c[d[i]] = b[d[i]]
  BY ListedKept
<1>4. H \in SUBSET (1..Len(b)) /\ x \notin H
  BY <1>2 DEF Has
<1>5. IsFiniteSet(H) /\ Cardinality(H) \in Nat
  <2>1. IsFiniteSet(1..Len(b))
    BY <1>1, FS_Interval
  <2> HIDE DEF H
  <2> QED
    BY <2>1, <1>4, FS_Subset, FS_CardinalityType
<1>6. Has(d, c, n) = H
  BY <1>3 DEF Has
<1>7. 1..Len(b) \subseteq 1..Len(c) /\ d \in Seq(1..Len(b))
  BY <1>1 DEF Arena
<1>8. d \in Seq(1..Len(c))
  BY <1>7, SeqMonotonic
<1>9. /\ e[1] = x /\ 1 \in 1..Len(e)
      /\ \A i \in 2..Len(e) : i - 1 \in 1..Len(d) /\ e[i] = d[i - 1]
      /\ \A i \in 1..Len(d) : i + 1 \in 2..Len(e) /\ e[i + 1] = d[i]
      /\ Len(e) = Len(d) + 1 /\ Len(d) \in Nat
  BY <1>1, <1>8, Put
<1> HIDE DEF e
<1>10. ASSUME NEW z PROVE z \in {e[i] : i \in 1..Len(e)} <=> z = x \/ z \in {d[i] : i \in 1..Len(d)}
  <2>1. ASSUME NEW i \in 1..Len(e), z = e[i] PROVE z = x \/ z \in {d[j] : j \in 1..Len(d)}
    <3>1. i = 1 \/ i \in 2..Len(e)
      BY <1>9
    <3> QED
      BY <3>1, <2>1, <1>9
  <2>2. ASSUME NEW i \in 1..Len(d), z = d[i] PROVE z \in {e[j] : j \in 1..Len(e)}
    <3>1. i + 1 \in 1..Len(e) /\ e[i + 1] = z
      BY <2>2, <1>9
    <3> QED
      BY <3>1
  <2>3. x \in {e[j] : j \in 1..Len(e)}
    BY <1>9
  <2> QED
    BY <2>1, <2>2, <2>3
<1>11. Has(e, c, n) = IF y = UartOf(n) THEN H \union {x} ELSE H
  <2>1. \A z : z \in Has(e, c, n) <=> (z = x /\ y = UartOf(n)) \/ z \in Has(d, c, n)
    BY <1>1, <1>10 DEF Has
  <2> HIDE DEF H
  <2> QED
    BY <2>1, <1>6
<1> HIDE DEF H
<1>12. Cardinality(H \union {x}) = Cardinality(H) + 1
  BY <1>4, <1>5, FS_AddElement
<1>13. Cardinality(Has(e, c, n)) = Cardinality(H) + (IF y = UartOf(n) THEN 1 ELSE 0)
  BY <1>5, <1>11, <1>12
<1> QED
  BY <1>5, <1>6, <1>13 DEF H, e

-----------------------------------------------------------------------------
(***************************************************************************)
(* The tree of a parser that has succeeded.                                *)
(***************************************************************************)

\* Compatible lists are lists; those of nodes outside the tree are empty.
LEMMA CompatibleLists ==
  ASSUME TreeInv, PassInv, Succeeded, NEW n \in 1..Len(nodes)
  PROVE  /\ nodes[n].compatible \in Seq(STRING) /\ Len(nodes[n].compatible) \in Nat
         /\ \A c \in ToSet(nodes[n].compatible) : n \in Tree
<1>1. PICK seen :
        /\ Passes(seen, tokens, nodes, props, root_node, phandle_map, << >>, NoVisit)
        /\ Tree = seen
  BY PassEnded
<1>2. Applied(nodes, props, seen, NoVisit, phandle_map)
  BY <1>1 DEF Passes
<1>3. CASE n \in Tree
  <2>1. nodes[n].compatible \in Seq(STRING)
    BY <1>3, MentionsAgree
  <2> QED
    BY <2>1, <1>3, LenProperties
<1>4. CASE n \notin Tree
  <2>1. TakenFrom(props, ReadOf(nodes, props, seen, NoVisit, n), "compatible", nodes[n].compatible, << >>)
    BY <1>2 DEF Applied
  <2>2. ReadOf(nodes, props, seen, NoVisit, n) = {}
    BY <1>1, <1>4, AllRead
  <2>3. nodes[n].compatible = << >>
    BY <2>1, <2>2 DEF TakenFrom
  <2>4. ToSet(<< >>) = {}
    BY DEF ToSet
  <2> QED
    BY <2>3, <2>4
<1> QED
  BY <1>3, <1>4

\* dt_node_from_compatible finds a node that lists the string, or none does.
LEMMA FoundOrNone ==
  ASSUME TreeInv, PassInv, Succeeded, NEW c
  PROVE  \/ /\ dt_node_from_compatible(c) = NULL
            /\ \A n \in 1..Len(nodes) : c \notin ToSet(nodes[n].compatible)
         \/ /\ dt_node_from_compatible(c) # NULL /\ dt_node_from_compatible(c) \in 1..Len(nodes)
            /\ c \in ToSet(nodes[dt_node_from_compatible(c)].compatible)
<1> DEFINE p == dt_node_from_compatible(c)
<1>1. PICK seen :
        /\ Passes(seen, tokens, nodes, props, root_node, phandle_map, << >>, NoVisit)
        /\ Tree = seen /\ Done(seen, NoVisit) = seen
        /\ \A m \in seen : m \in 1..Len(nodes)
        /\ nodes[root_node].parent = NULL /\ root_node \in 1..Len(nodes)
  BY PassEnded
<1>2. Reaches(nodes, root_node, seen, << >>, NoVisit)
  BY <1>1 DEF Passes
<1>3. \A n \in seen : n = root_node \/ nodes[n].parent \in seen
  <2>1. 1..Len(<< >>) = {}
    BY EmptySeq
  <2>2. Waiting(<< >>) = {}
    BY <2>1 DEF Waiting
  <2> QED
    BY <2>2, <1>1, <1>2 DEF Reaches
<1>4. CASE p \in 1..Len(nodes) /\ c \in ToSet(nodes[p].compatible)
  BY <1>4 DEF NULL
<1>5. CASE p = 0 /\ \E Z : root_node \in Z /\ Missed(nodes, c, Z)
  <2>1. PICK Z : root_node \in Z /\ Missed(nodes, c, Z)
    BY <1>5
  <2>2. \A n \in seen : c \notin ToSet(nodes[n].compatible)
    BY <2>1, <1>1, <1>3, MissedAll
  <2>3. \A n \in 1..Len(nodes) : c \in ToSet(nodes[n].compatible) => n \in seen
    BY <1>1, CompatibleLists
  <2> QED
    BY <2>2, <2>3, <1>5 DEF NULL
<1> HIDE DEF p
<1> QED
  BY <1>4, <1>5, <1>1, SearchFinds DEF p

\* The nodes with a reg the drivers can use.
Usable == {n \in 1..Len(nodes) : UsableReg(n)}

ListsPlic(ns, n) == "riscv,plic0" \in ToSet(ns[n].compatible)

\* No node lists the PLIC, or one does without such a reg.
Refused(ns, U) ==
  \/ \A n \in 1..Len(ns) : ~ListsPlic(ns, n)
  \/ \E n \in 1..Len(ns) : ListsPlic(ns, n) /\ n \notin U

\* What has been set up: for each node the drivers due, by the strings looked
\* at, and on the list a PLIC behind the UARTs.
Counted(ns, U, seen, td, d, b) ==
  \A n \in 1..Len(ns) :
    Cardinality(Has(d, b, n)) = Due(n \in U, ns[n].compatible, Looked(ns, seen, td, n))

Lined(ns, U, seen, td, d, b) ==
  /\ d # << >>
  /\ \A k \in 1..(Len(d) - 1) : \E n \in seen \union Waiting(td) : b[d[k]] = UartOf(n)
  /\ \E p \in U : ListsPlic(ns, p) /\ b[d[Len(d)]] = PlicOf(p)

Walks(seen, td, ns, r, U, d, b) ==
  Stack(ns, r, seen, td) /\ Counted(ns, U, seen, td, d, b) /\ Lined(ns, U, seen, td, d, b)

WalkInv ==
  /\ boot # "parse" => state = "returned"
  /\ boot \in {"walk", "done", "todo"} => Succeeded
  /\ driver_count = Len(drivers)
  /\ boot = "panic" /\ Succeeded /\ drivers = << >> => Refused(nodes, Usable)
  /\ boot \in {"walk", "done"} =>
       \E seen : Walks(seen, calls, nodes, root_node, Usable, drivers, blocks)
  /\ boot = "done" => calls = << >>

\* A step of the boot leaves the tree, and what it reads of it, as it is.
LEMMA SameUsable ==
  ASSUME UNCHANGED vars
  PROVE  /\ Usable' = Usable /\ nodes' = nodes /\ root_node' = root_node
         /\ (Succeeded' <=> Succeeded) /\ state' = state
<1>1. /\ nodes' = nodes /\ props' = props /\ root_node' = root_node /\ state' = state /\ err' = err
  BY DEF vars
<1>2. PropertiesFrom = PropertiesOf(props) /\ PropertiesFrom' = PropertiesOf(props')
  BY DEF PropertiesFrom, PropertiesOf
<1>3. PropertiesFrom' = PropertiesFrom
  BY <1>1, <1>2
<1>4. \A n : device_tree_get_property(n, "reg")' = device_tree_get_property(n, "reg")
  BY <1>1, <1>3 DEF device_tree_get_property, SelectInSeq
<1>5. \A n : UsableReg(n)' <=> UsableReg(n)
  BY <1>1, <1>4 DEF UsableReg
<1>6. Usable' = Usable
  BY <1>1, <1>5 DEF Usable
<1> QED
  BY <1>1, <1>6 DEF Succeeded

-----------------------------------------------------------------------------
(***************************************************************************)
(* The steps of the walk.                                                  *)
(***************************************************************************)

\* The first call has looked at one more string: one more driver may be due.
LEMMA DueMoves ==
  ASSUME NEW ns, NEW r, NEW seen, NEW td, Stack(ns, r, seen, td), td # << >>,
         Len(ns[td[1].node].compatible) \in Nat, td[1].i <= Len(ns[td[1].node].compatible),
         NEW te, Skips(td, te), NEW U, NEW n \in 1..Len(ns)
  PROVE  LET list == ns[n].compatible
             due  == Due(n \in U, list, Looked(ns, seen, td, n))
         IN  n = td[1].node =>
               /\ due \in Nat
               /\ Due(n \in U, list, Looked(ns, seen, te, n)) =
                    due + (IF n \in U /\ list[td[1].i] = "ns16550a" THEN 1 ELSE 0)
<1> DEFINE list == ns[n].compatible
<1> SUFFICES ASSUME n = td[1].node
             PROVE  /\ Due(n \in U, list, Looked(ns, seen, td, n)) \in Nat
                    /\ Due(n \in U, list, Looked(ns, seen, te, n)) =
                         Due(n \in U, list, Looked(ns, seen, td, n))
                           + (IF n \in U /\ list[td[1].i] = "ns16550a" THEN 1 ELSE 0)
  BY Zenon
<1>1. td[1].i \in Nat \ {0} /\ Looked(ns, seen, td, n) = td[1].i - 1
  BY FirstCall
<1>2. Looked(ns, seen, te, n) = td[1].i
  BY SkipStack
<1>3. PICK k \in Nat : k = td[1].i - 1 /\ td[1].i = k + 1
  BY <1>1
<1> DEFINE u == n \in U
<1>4. u \in BOOLEAN
  OBVIOUS
<1> HIDE DEF u, list
<1>5. /\ Due(u, list, k) \in Nat
      /\ Due(u, list, k + 1) = Due(u, list, k) + (IF u /\ list[k + 1] = "ns16550a" THEN 1 ELSE 0)
  BY <1>4, DueStep
<1> QED
  BY <1>1, <1>2, <1>3, <1>5 DEF u

\* A string that sets up no driver.
LEMMA SkipWalks ==
  ASSUME NEW ns, NEW r, NEW seen, NEW td, td # << >>, NEW U, NEW d, NEW b,
         Walks(seen, td, ns, r, U, d, b),
         Len(ns[td[1].node].compatible) \in Nat, td[1].i <= Len(ns[td[1].node].compatible),
         ns[td[1].node].compatible[td[1].i] # "ns16550a" \/ td[1].node \notin U,
         NEW te, Skips(td, te)
  PROVE  Walks(seen, te, ns, r, U, d, b)
<1>1. Stack(ns, r, seen, td) /\ Counted(ns, U, seen, td, d, b) /\ Lined(ns, U, seen, td, d, b)
  BY DEF Walks
<1>2. /\ Stack(ns, r, seen, te) /\ Waiting(te) = Waiting(td)
      /\ \A n : n # td[1].node => Looked(ns, seen, te, n) = Looked(ns, seen, td, n)
  BY <1>1, SkipStack
<1>3. Lined(ns, U, seen, te, d, b)
  BY <1>1, <1>2 DEF Lined
<1>4. ASSUME NEW n \in 1..Len(ns)
      PROVE  Cardinality(Has(d, b, n)) = Due(n \in U, ns[n].compatible, Looked(ns, seen, te, n))
  <2>1. Cardinality(Has(d, b, n)) = Due(n \in U, ns[n].compatible, Looked(ns, seen, td, n))
    BY <1>1 DEF Counted
  <2>2. CASE n # td[1].node
    BY <2>1, <2>2, <1>2
  <2>3. CASE n = td[1].node
    <3>1. /\ Due(n \in U, ns[n].compatible, Looked(ns, seen, td, n)) \in Nat
          /\ Due(n \in U, ns[n].compatible, Looked(ns, seen, te, n)) =
               Due(n \in U, ns[n].compatible, Looked(ns, seen, td, n))
                 + (IF n \in U /\ ns[n].compatible[td[1].i] = "ns16550a" THEN 1 ELSE 0)
      BY <2>3, <1>1, DueMoves
    <3>2. ~ (n \in U /\ ns[n].compatible[td[1].i] = "ns16550a")
      BY <2>3
    <3> QED
      BY <2>1, <3>1, <3>2
  <2> QED
    BY <2>2, <2>3
<1>5. Counted(ns, U, seen, te, d, b)
  BY <1>4 DEF Counted
<1> QED
  BY <1>2, <1>3, <1>5 DEF Walks

\* A string that sets up a UART: its driver is in front of the list.
LEMMA UartWalks ==
  ASSUME NEW ns, NEW r, NEW seen, NEW td, td # << >>, NEW U, NEW d, NEW b,
         Walks(seen, td, ns, r, U, d, b),
         Len(ns[td[1].node].compatible) \in Nat, td[1].i <= Len(ns[td[1].node].compatible),
         ns[td[1].node].compatible[td[1].i] = "ns16550a", td[1].node \in U,
         NEW te, Skips(td, te),
         NEW f, Arena(d, f, b), NEW x, NEW g, NEW c, Takes(f, b, x, g, c, UartOf(td[1].node))
  PROVE  Walks(seen, te, ns, r, U, <<x>> \o d, c)
<1> DEFINE e == <<x>> \o d
           n1 == td[1].node
<1>1. Stack(ns, r, seen, td) /\ Counted(ns, U, seen, td, d, b) /\ Lined(ns, U, seen, td, d, b)
  BY DEF Walks
<1>2. /\ Stack(ns, r, seen, te) /\ Waiting(te) = Waiting(td)
      /\ \A n : n # td[1].node => Looked(ns, seen, te, n) = Looked(ns, seen, td, n)
  BY <1>1, SkipStack
<1>3. ASSUME NEW n \in 1..Len(ns)
      PROVE  Cardinality(Has(e, c, n)) = Due(n \in U, ns[n].compatible, Looked(ns, seen, te, n))
  <2>1. Cardinality(Has(d, b, n)) = Due(n \in U, ns[n].compatible, Looked(ns, seen, td, n))
    BY <1>1 DEF Counted
  <2>2. /\ Cardinality(Has(d, b, n)) \in Nat
        /\ Cardinality(Has(e, c, n)) =
             Cardinality(Has(d, b, n)) + (IF UartOf(n1) = UartOf(n) THEN 1 ELSE 0)
    BY HasTaken
  <2>3. UartOf(n1) = UartOf(n) <=> n1 = n
    BY DEF UartOf, DriverNode
  <2>4. CASE n # n1
    <3>1. Cardinality(Has(e, c, n)) = Cardinality(Has(d, b, n))
      BY <2>2, <2>3, <2>4
    <3>2. Looked(ns, seen, te, n) = Looked(ns, seen, td, n)
      BY <2>4, <1>2
    <3> QED
      BY <2>1, <3>1, <3>2
  <2>5. CASE n = n1
    <3>1. /\ Due(n \in U, ns[n].compatible, Looked(ns, seen, td, n)) \in Nat
          /\ Due(n \in U, ns[n].compatible, Looked(ns, seen, te, n)) =
               Due(n \in U, ns[n].compatible, Looked(ns, seen, td, n))
                 + (IF n \in U /\ ns[n].compatible[td[1].i] = "ns16550a" THEN 1 ELSE 0)
      BY <2>5, <1>1, DueMoves
    <3>2. n \in U /\ ns[n].compatible[td[1].i] = "ns16550a"
      BY <2>5
    <3> HIDE DEF e
    <3> QED
      BY <2>1, <2>2, <2>3, <2>5, <3>1, <3>2
  <2> QED
    BY <2>4, <2>5
<1>4. Counted(ns, U, seen, te, e, c)
  BY <1>3 DEF Counted
<1>5. /\ Len(b) \in Nat /\ Len(c) \in Nat /\ Len(b) <= Len(c) /\ x \in 1..Len(c) /\ c[x] = UartOf(n1)
  BY Taken
<1>6. \A i \in 1..Len(d) : c[d[i]] = b[d[i]]
  BY ListedKept
<1>7. 1..Len(b) \subseteq 1..Len(c) /\ d \in Seq(1..Len(b))
  BY <1>5 DEF Arena
<1>8. d \in Seq(1..Len(c))
  BY <1>7, SeqMonotonic
<1>9. /\ e[1] = x /\ 1 \in 1..Len(e)
      /\ \A i \in 2..Len(e) : i - 1 \in 1..Len(d) /\ e[i] = d[i - 1]
      /\ \A i \in 1..Len(d) : i + 1 \in 2..Len(e) /\ e[i + 1] = d[i]
      /\ Len(e) = Len(d) + 1 /\ Len(d) \in Nat
  BY <1>5, <1>8, Put
<1>10. n1 \in Waiting(td)
  BY <1>1, FirstCall
<1>11. /\ d # << >>
       /\ \A k \in 1..(Len(d) - 1) : \E n \in seen \union Waiting(td) : b[d[k]] = UartOf(n)
       /\ \E p \in U : ListsPlic(ns, p) /\ b[d[Len(d)]] = PlicOf(p)
  BY <1>1 DEF Lined
<1>12. Len(d) \in 1..Len(d)
  <2>1. Len(d) \in Nat \ {0}
    BY <1>8, <1>11, EmptySeq
  <2> QED
    BY <2>1
<1> HIDE DEF e, n1
<1>13. ASSUME NEW k \in 1..(Len(e) - 1)
       PROVE  \E n \in seen \union Waiting(te) : c[e[k]] = UartOf(n)
  <2>1. CASE k = 1
    BY <2>1, <1>2, <1>5, <1>9, <1>10
  <2>2. CASE k # 1
    <3>1. k \in 2..Len(e) /\ k - 1 \in 1..(Len(d) - 1)
      BY <2>2, <1>9
    <3>2. PICK j \in 1..(Len(d) - 1) : j = k - 1 /\ j \in 1..Len(d) /\ e[k] = d[j]
      BY <3>1, <1>9
    <3>3. PICK n \in seen \union Waiting(td) : b[d[j]] = UartOf(n)
      BY <1>11
    <3> QED
      BY <3>2, <3>3, <1>2, <1>6
  <2> QED
    BY <2>1, <2>2
<1>14. e[Len(e)] = d[Len(d)] /\ c[d[Len(d)]] = b[d[Len(d)]]
  BY <1>6, <1>9, <1>12
<1>15. e # << >>
  BY <1>9
<1>16. Lined(ns, U, seen, te, e, c)
  BY <1>11, <1>13, <1>14, <1>15 DEF Lined
<1> QED
  BY <1>2, <1>4, <1>16 DEF Walks, e

\* Blocks that are not listed do not matter.
LEMMA BlocksWalks ==
  ASSUME NEW ns, NEW r, NEW seen, NEW td, NEW U, NEW d, NEW b, Walks(seen, td, ns, r, U, d, b),
         NEW S, d \in Seq(S), NEW c, \A i \in 1..Len(d) : c[d[i]] = b[d[i]]
  PROVE  Walks(seen, td, ns, r, U, d, c)
<1>1. Stack(ns, r, seen, td) /\ Counted(ns, U, seen, td, d, b) /\ Lined(ns, U, seen, td, d, b)
  BY DEF Walks
<1>2. \A n : Has(d, c, n) = Has(d, b, n)
  BY DEF Has
<1>3. Counted(ns, U, seen, td, d, c)
  BY <1>1, <1>2 DEF Counted
<1>4. d # << >> => Len(d) \in 1..Len(d) /\ Len(d) \in Nat
  BY EmptySeq, LenProperties
<1>5. d # << >> => \A k \in 1..(Len(d) - 1) : k \in 1..Len(d)
  BY <1>4
<1>6. Lined(ns, U, seen, td, d, c)
  BY <1>1, <1>4, <1>5 DEF Lined
<1> QED
  BY <1>1, <1>3, <1>6 DEF Walks

\* A node is done, and its children come next.
LEMMA ChildrenWalks ==
  ASSUME NEW ns, NEW r, NEW seen, NEW td, td # << >>, NEW U, NEW d, NEW b,
         Walks(seen, td, ns, r, U, d, b), ns[r].parent = NULL,
         \A m \in 1..Len(ns) : Len(ns[m].compatible) \in Nat,
         td[1].i > Len(ns[td[1].node].compatible),
         NEW children, ListedBelow(ns, td[1].node, children), NEW tf, Descended(td, children, tf)
  PROVE  Walks(seen \union {td[1].node}, tf, ns, r, U, d, b)
<1> DEFINE s2 == seen \union {td[1].node}
<1>1. Stack(ns, r, seen, td) /\ Counted(ns, U, seen, td, d, b) /\ Lined(ns, U, seen, td, d, b)
  BY DEF Walks
<1>2. NodeDone(ns, r, seen, td, s2, tf)
  BY <1>1, ChildrenStack
<1> HIDE DEF s2
<1>3. Counted(ns, U, s2, tf, d, b)
  BY <1>1, <1>2 DEF Counted, NodeDone
<1>4. Lined(ns, U, s2, tf, d, b)
  BY <1>1, <1>2 DEF Lined, NodeDone
<1> QED
  BY <1>2, <1>3, <1>4 DEF Walks, NodeDone, s2

\* Boot starts in it.
LEMMA InitWalk == BootInit => WalkInv
<1> SUFFICES ASSUME BootInit PROVE WalkInv
  OBVIOUS
<1>1. boot = "parse" /\ drivers = << >> /\ driver_count = 0
  BY DEF BootInit
<1>2. Len(<< >>) = 0
  BY EmptySeq
<1> QED
  BY <1>1, <1>2 DEF WalkInv

\* A parser that has returned does not step.
LEMMA NoStep == Next => state # "returned"
<1> SUFFICES ASSUME Next PROVE state \in {"reset", "structs", "second"}
  OBVIOUS
<1>1. CASE Token
  BY <1>1 DEF Token, Read, structs_end
<1> QED
  BY <1>1 DEF Next, parse_header, EnterNode, ReadProperty, FinishNode, SecondPassDone

\* Boot goes on or ends, for a reason.
BootEnds ==
  \/ boot' = boot
  \/ /\ state = "returned"
     /\ \/ boot' = "todo" /\ Succeeded
        \/ boot' = "panic" /\ drivers # << >>
        \/ boot' = "panic" /\ Refused(nodes, Usable)
        \/ boot' \in {"panic", "fault"} /\ ~Succeeded
        \/ boot' = "done" /\ boot = "walk" /\ calls = << >>

\* A step that changes neither the tree nor the lists.
LEMMA SameWalk ==
  ASSUME WalkInv, UNCHANGED vars, drivers' = drivers, driver_count' = driver_count,
         blocks' = blocks, calls' = calls,
         BootEnds
  PROVE  WalkInv'
<1>1. /\ Usable' = Usable /\ nodes' = nodes /\ root_node' = root_node
      /\ (Succeeded' <=> Succeeded) /\ state' = state
  BY SameUsable
<1>2. /\ boot' \in {"walk", "done", "todo"} => Succeeded'
      /\ driver_count' = Len(drivers')
      /\ boot' = "panic" /\ Succeeded' /\ drivers' = << >> => Refused(nodes', Usable')
      /\ boot' = "done" => calls' = << >>
  BY <1>1 DEF WalkInv, BootEnds
<1>3. boot' \in {"walk", "done"} => \E seen : Walks(seen, calls, nodes, root_node, Usable, drivers, blocks)
  BY DEF WalkInv, BootEnds
<1>4. boot' \in {"walk", "done"} =>
        \E seen : Walks(seen, calls', nodes', root_node', Usable', drivers', blocks')
  BY <1>1, <1>3
<1> QED
  BY <1>1, <1>2, <1>4 DEF WalkInv, BootEnds

\* A step of the walk, which stays one.
LEMMA WalkGoesOn ==
  ASSUME WalkInv, UNCHANGED vars, boot = "walk", boot' = "walk", driver_count' = Len(drivers'),
         NEW seen, Walks(seen, calls', nodes, root_node, Usable, drivers', blocks')
  PROVE  WalkInv'
<1>1. /\ Usable' = Usable /\ nodes' = nodes /\ root_node' = root_node
      /\ (Succeeded' <=> Succeeded) /\ state' = state
  BY SameUsable
<1>2. state' = "returned" /\ Succeeded'
  BY <1>1 DEF WalkInv
<1>3. Walks(seen, calls', nodes', root_node', Usable', drivers', blocks')
  BY <1>1
<1> QED
  BY <1>2, <1>3 DEF WalkInv

\* The first call is the one for the root.
LEMMA FirstStack ==
  ASSUME NEW ns, NEW r \in 1..Len(ns), NEW L \in Nat, L = Len(ns[r].compatible), ns[r].parent = NULL,
         NEW td, td = <<[node |-> r, i |-> 1]>>
  PROVE  /\ Stack(ns, r, {}, td)
         /\ td # << >> /\ td[1].i = 1
<1> DEFINE call == [node |-> r, i |-> 1]
<1>1. call.node = r /\ call.i = 1 /\ call \in WalkCalls(Len(ns))
  BY DEF WalkCalls
<1>2. td = <<call>>
  OBVIOUS
<1> HIDE DEF call
<1>3. td \in Seq(WalkCalls(Len(ns))) /\ Len(td) = 1 /\ td[1] = call /\ td # << >>
  BY <1>1, <1>2
<1>4. 1..Len(td) = {1}
  BY <1>3
<1>5. Waiting(td) = {r}
  BY <1>1, <1>3, <1>4 DEF Waiting
<1>6. Done({}, NoVisit) = {}
  BY DEF Done
<1>7. \A i, j \in 1..Len(td) : td[i].node = td[j].node => i = j
  BY <1>4
<1>8. Reaches(ns, r, {}, td, NoVisit)
  BY <1>5, <1>6, <1>7, NotVisiting DEF Reaches, NULL
<1>9. td[1].i <= Len(ns[td[1].node].compatible) + 1
  <2>1. 1 <= L + 1
    OBVIOUS
  <2> QED
    BY <2>1, <1>1, <1>3
<1>10. \A k \in 1..Len(td) : k # 1 => td[k].i = 1
  BY <1>4
<1> QED
  BY <1>1, <1>3, <1>8, <1>9, <1>10 DEF Stack

Empty(d) == Len(d) = 0

\* The list begins with the PLIC.
LEMMA FirstWalks ==
  ASSUME NEW ns, NEW r, NEW td, Stack(ns, r, {}, td), td # << >>, td[1].i = 1,
         NEW U, NEW p \in U, ListsPlic(ns, p),
         NEW d, NEW f, NEW b, Arena(d, f, b), Empty(d),
         NEW x, NEW g, NEW c, Takes(f, b, x, g, c, PlicOf(p))
  PROVE  Walks({}, td, ns, r, U, <<x>> \o d, c)
<1> DEFINE e == <<x>> \o d
<1>1. 1..Len(d) = {}
  BY DEF Empty
<1>2. ASSUME NEW n \in 1..Len(ns)
      PROVE  Cardinality(Has(e, c, n)) = Due(n \in U, ns[n].compatible, Looked(ns, {}, td, n))
  <2>1. /\ Cardinality(Has(d, b, n)) \in Nat
        /\ Cardinality(Has(e, c, n)) =
             Cardinality(Has(d, b, n)) + (IF PlicOf(p) = UartOf(n) THEN 1 ELSE 0)
    BY HasTaken
  <2>2. Cardinality(Has(d, b, n)) = 0
    <3>1. Has(d, b, n) = {}
      BY <1>1 DEF Has
    <3> QED
      BY <3>1, FS_EmptySet
  <2>3. PlicOf(p) # UartOf(n)
    <3>1. PlicOf(p).type = "DEVICE_TYPE_PLIC" /\ UartOf(n).type = "DEVICE_TYPE_UART"
      BY DEF PlicOf, UartOf, DriverNode
    <3> QED
      BY <3>1
  <2>4. Looked(ns, {}, td, n) = 0
    BY DEF Looked
  <2>5. Due(n \in U, ns[n].compatible, 0) = 0
    <3> DEFINE u == n \in U
               list == ns[n].compatible
    <3>1. u \in BOOLEAN
      OBVIOUS
    <3> HIDE DEF u, list
    <3>2. Due(u, list, 0) = 0
      BY <3>1, DueStep
    <3> QED
      BY <3>2 DEF u, list
  <2> HIDE DEF e
  <2> QED
    BY <2>1, <2>2, <2>3, <2>4, <2>5
<1>3. Counted(ns, U, {}, td, e, c)
  BY <1>2 DEF Counted
<1>4. Len(b) \in Nat /\ Len(c) \in Nat /\ Len(b) <= Len(c) /\ x \in 1..Len(c) /\ c[x] = PlicOf(p)
  BY Taken
<1>5. 1..Len(b) \subseteq 1..Len(c) /\ d \in Seq(1..Len(b))
  BY <1>4 DEF Arena
<1>6. d \in Seq(1..Len(c))
  BY <1>5, SeqMonotonic
<1>7. e[1] = x /\ Len(e) = Len(d) + 1
  BY <1>4, <1>6, Put
<1> HIDE DEF e
<1>8. Len(e) = 1 /\ e # << >>
  BY <1>7 DEF Empty
<1>9. Lined(ns, U, {}, td, e, c)
  <2>1. 1..(Len(e) - 1) = {}
    BY <1>8
  <2> QED
    BY <2>1, <1>4, <1>7, <1>8 DEF Lined
<1> QED
  BY <1>3, <1>9 DEF Walks, e

\* devices_init, called only when the parser has succeeded, keeps it.
LEMMA DevicesInitWalk ==
  ASSUME TreeInv, PassInv, BootInv, WalkInv, Succeeded, boot = "parse", state = "returned",
         devices_init, UNCHANGED vars
  PROVE  WalkInv'
<1> DEFINE c == "riscv,plic0"
           p == dt_node_from_compatible(c)
<1>1. \/ /\ p = NULL /\ \A n \in 1..Len(nodes) : c \notin ToSet(nodes[n].compatible)
      \/ /\ p # NULL /\ p \in 1..Len(nodes) /\ c \in ToSet(nodes[p].compatible)
  BY FoundOrNone
<1>2. CASE ~(p # NULL /\ UsableReg(p)) /\ End("panic")
  <2>1. Refused(nodes, Usable)
    BY <1>1, <1>2 DEF Refused, Usable, ListsPlic
  <2>2. /\ drivers' = drivers /\ driver_count' = driver_count /\ blocks' = blocks /\ calls' = calls
        /\ boot' = "panic"
    BY <1>2 DEF End, registry, arena
  <2>3. BootEnds
    BY <2>1, <2>2 DEF BootEnds
  <2> QED
    BY <2>2, <2>3, SameWalk
<1>3. CASE /\ p # NULL /\ UsableReg(p) /\ Register("DEVICE_TYPE_PLIC", p) /\ boot' = "walk"
           /\ calls' = <<[node |-> root_node, i |-> 1]>>
  <2>1. p \in Usable /\ ListsPlic(nodes, p) /\ p \in 1..Len(nodes)
    BY <1>1, <1>3 DEF Usable, ListsPlic
  <2>2. p \in Tree
    BY <2>1, CompatibleLists DEF ListsPlic
  <2>3. Address(p) = <<1, 2>>
    BY <2>2, <1>3, RegAgrees
  <2>4. drivers = << >> /\ freed = << >> /\ blocks = << >>
    BY DEF BootInv, Untouched
  <2>5. /\ Takes(freed, blocks, NewBlock, freed', blocks', DriverNode("DEVICE_TYPE_PLIC", p, Address(p)))
        /\ drivers' = <<NewBlock>> \o drivers
    BY <1>3, Registers
  <2>6. DriverNode("DEVICE_TYPE_PLIC", p, Address(p)) = PlicOf(p)
    BY <2>3 DEF PlicOf
  <2>7. Takes(freed, blocks, NewBlock, freed', blocks', PlicOf(p))
    BY <2>5, <2>6
  <2>8. PICK L \in Nat : L = Len(nodes[root_node].compatible)
    BY CompatibleLists DEF PassInv
  <2>9. nodes[root_node].parent = NULL /\ root_node \in 1..Len(nodes)
    BY DEF PassInv
  <2>10. Stack(nodes, root_node, {}, calls') /\ calls' # << >> /\ calls'[1].i = 1
    BY <2>8, <2>9, <1>3, FirstStack
  <2>11. Walks({}, calls', nodes, root_node, Usable, drivers', blocks')
    <3>1. Arena(drivers, freed, blocks) /\ Empty(drivers)
      BY <2>4, EmptySeq DEF BootInv, Empty
    <3> HIDE DEF p
    <3>2. Walks({}, calls', nodes, root_node, Usable, <<NewBlock>> \o drivers, blocks')
      BY <3>1, <2>1, <2>7, <2>10, FirstWalks
    <3> QED
      BY <3>2, <2>5
  <2> HIDE DEF p
  <2>12. driver_count' = Len(drivers')
    <3>1. driver_count = 0 /\ driver_count' = driver_count + 1
      BY <1>3, <2>4, EmptySeq DEF WalkInv, Register
    <3>2. Len(<<NewBlock>> \o << >>) = 1
      OBVIOUS
    <3> QED
      BY <3>1, <3>2, <2>4, <2>5
  <2>13. /\ Usable' = Usable /\ nodes' = nodes /\ root_node' = root_node
         /\ (Succeeded' <=> Succeeded) /\ state' = state
    BY SameUsable
  <2>14. Walks({}, calls', nodes', root_node', Usable', drivers', blocks')
    BY <2>11, <2>13
  <2> QED
    BY <2>12, <2>13, <2>14, <1>3 DEF WalkInv
<1> QED
  BY <1>2, <1>3 DEF devices_init

\* kernel_c_entry keeps it: an error value that is no success ends boot.
LEMMA EntryWalk ==
  ASSUME TreeInv, PassInv, BootInv, Judged, WalkInv, kernel_c_entry, UNCHANGED vars
  PROVE  WalkInv'
<1>1. boot = "parse" /\ state = "returned"
  BY DEF kernel_c_entry
<1>2. err = EC_SUCCESS \/ error_is_err(err)
  BY <1>1 DEF Judged
<1>3. ~error_is_err(EC_SUCCESS)
  BY SuccessIsNoError
<1>4. CASE error_is_err(err) /\ error_string_panic
  <2>1. ~Succeeded
    BY <1>3, <1>4 DEF Succeeded
  <2>2. End("panic") \/ End("fault")
    BY <1>4 DEF error_string_panic
  <2>3. /\ drivers' = drivers /\ driver_count' = driver_count /\ blocks' = blocks /\ calls' = calls
        /\ boot' \in {"panic", "fault"}
    BY <2>2 DEF End, registry, arena
  <2>4. BootEnds
    BY <2>1, <2>3, <1>1 DEF BootEnds
  <2> QED
    BY <2>3, <2>4, SameWalk
<1>5. CASE error_is_ok(err) /\ devices_init
  <2>1. Succeeded
    BY <1>1, <1>2, <1>5 DEF Succeeded, error_is_err
  <2> QED
    BY <2>1, <1>1, <1>5, DevicesInitWalk
<1> QED
  BY <1>4, <1>5 DEF kernel_c_entry

\* The walk stands at a string: the first call, its node and its list.
LEMMA AtString ==
  ASSUME TreeInv, PassInv, WalkInv, CompatibleString
  PROVE  /\ boot = "walk" /\ calls # << >> /\ Succeeded /\ state = "returned"
         /\ calls[1] = Head(calls) /\ calls[1].node \in 1..Len(nodes)
         /\ Len(nodes[calls[1].node].compatible) \in Nat
         /\ calls[1].i <= Len(nodes[calls[1].node].compatible)
         /\ calls[1].node \in Tree
         /\ drivers # << >>
         /\ \E seen : Walks(seen, calls, nodes, root_node, Usable, drivers, blocks)
<1>1. boot = "walk" /\ calls # << >> /\ Head(calls).i <= Len(nodes[Head(calls).node].compatible)
  BY DEF CompatibleString
<1>2. Succeeded /\ state = "returned"
  BY <1>1 DEF WalkInv
<1>3. PICK seen : Walks(seen, calls, nodes, root_node, Usable, drivers, blocks)
  BY <1>1 DEF WalkInv
<1>4. Stack(nodes, root_node, seen, calls) /\ drivers # << >>
  BY <1>3 DEF Walks, Lined
<1>5. calls[1] = Head(calls) /\ calls[1].node \in 1..Len(nodes) /\ calls[1].i \in Nat \ {0}
  BY <1>1, <1>4, FirstCall
<1> DEFINE n == calls[1].node
           list == nodes[n].compatible
<1>6. list \in Seq(STRING) /\ Len(list) \in Nat /\ \A c \in ToSet(list) : n \in Tree
  BY <1>2, <1>5, CompatibleLists
<1>7. calls[1].i <= Len(list)
  BY <1>1, <1>5
<1>8. n \in Tree
  <2>1. DOMAIN list = 1..Len(list)
    BY <1>6, LenProperties
  <2> HIDE DEF list, n
  <2>2. calls[1].i \in DOMAIN list
    BY <2>1, <1>5, <1>6, <1>7
  <2>3. list[calls[1].i] \in ToSet(list)
    BY <2>2 DEF ToSet
  <2> QED
    BY <2>3, <1>6
<1> QED
  BY <1>1, <1>2, <1>3, <1>4, <1>5, <1>6, <1>7, <1>8

\* A string that is passed over keeps it.
LEMMA SkipWalk ==
  ASSUME TreeInv, PassInv, WalkInv, CompatibleString, UNCHANGED vars,
         Skip, UNCHANGED <<arena, registry>>,
         nodes[calls[1].node].compatible[calls[1].i] # "ns16550a" \/ ~UsableReg(calls[1].node)
  PROVE  WalkInv'
<1>1. /\ boot = "walk" /\ calls # << >> /\ Len(nodes[calls[1].node].compatible) \in Nat
      /\ calls[1].i <= Len(nodes[calls[1].node].compatible)
  BY AtString
<1>2. PICK seen : Walks(seen, calls, nodes, root_node, Usable, drivers, blocks)
  BY AtString
<1>3. Skips(calls, calls') /\ boot' = boot
  BY DEF Skip, Skips
<1>4. drivers' = drivers /\ driver_count' = driver_count /\ blocks' = blocks
  BY DEF arena, registry
<1>5. nodes[calls[1].node].compatible[calls[1].i] # "ns16550a" \/ calls[1].node \notin Usable
  BY DEF Usable
<1>6. Walks(seen, calls', nodes, root_node, Usable, drivers, blocks)
  BY <1>1, <1>2, <1>3, <1>5, SkipWalks
<1>7. driver_count' = Len(drivers')
  BY <1>4 DEF WalkInv
<1>8. Walks(seen, calls', nodes, root_node, Usable, drivers', blocks')
  BY <1>4, <1>6
<1> QED
  BY <1>1, <1>3, <1>7, <1>8, WalkGoesOn

\* The setup of a UART keeps it.
LEMMA UartWalk ==
  ASSUME TreeInv, PassInv, BootInv, WalkInv, CompatibleString, UNCHANGED vars,
         nodes[calls[1].node].compatible[calls[1].i] = "ns16550a", uart_device(calls[1].node)
  PROVE  WalkInv'
<1> DEFINE n == calls[1].node
<1>1. /\ boot = "walk" /\ calls # << >> /\ Len(nodes[n].compatible) \in Nat
      /\ calls[1].i <= Len(nodes[n].compatible)
      /\ n \in 1..Len(nodes) /\ n \in Tree /\ Succeeded
  BY AtString
<1>2. PICK seen : Walks(seen, calls, nodes, root_node, Usable, drivers, blocks)
  BY AtString
<1>3. CASE ~UsableReg(n) /\ Skip /\ UNCHANGED <<arena, registry, status>>
  <2>1. UNCHANGED <<arena, registry>>
    BY <1>3
  <2> QED
    BY <2>1, <1>3, SkipWalk
<1>4. CASE UsableReg(n) /\ Skip /\ Register("DEVICE_TYPE_UART", n)
  <2>1. Skips(calls, calls') /\ boot' = boot
    BY <1>4 DEF Skip, Skips
  <2>2. Address(n) = <<1, 2>>
    BY <1>1, <1>4, RegAgrees
  <2>3. /\ Takes(freed, blocks, NewBlock, freed', blocks', DriverNode("DEVICE_TYPE_UART", n, Address(n)))
        /\ drivers' = <<NewBlock>> \o drivers
    BY <1>4, Registers
  <2>4. Takes(freed, blocks, NewBlock, freed', blocks', UartOf(n))
    BY <2>2, <2>3 DEF UartOf
  <2>5. Arena(drivers, freed, blocks)
    BY DEF BootInv
  <2>6. n \in Usable
    BY <1>1, <1>4 DEF Usable
  <2>7. Walks(seen, calls', nodes, root_node, Usable, <<NewBlock>> \o drivers, blocks')
    BY <2>1, <2>4, <2>5, <2>6, <1>1, <1>2, UartWalks
  <2>8. Walks(seen, calls', nodes, root_node, Usable, drivers', blocks')
    BY <2>3, <2>7
  <2>9. driver_count' = Len(drivers')
    <3>1. driver_count = Len(drivers) /\ driver_count' = driver_count + 1
      BY <1>4 DEF WalkInv, Register
    <3>2. NewBlock \in Nat /\ drivers \in Seq(Nat)
      BY <1>4, RegisterArena
    <3>3. Len(<<NewBlock>> \o drivers) = Len(drivers) + 1
      BY <3>2, Put
    <3> QED
      BY <3>1, <3>3, <2>3
  <2> QED
    BY <2>1, <2>8, <2>9, <1>1, WalkGoesOn
<1> QED
  BY <1>3, <1>4 DEF uart_device

\* A virtio device keeps it, whatever becomes of it.
LEMMA VirtioWalk ==
  ASSUME TreeInv, PassInv, BootInv, WalkInv, CompatibleString, UNCHANGED vars,
         nodes[calls[1].node].compatible[calls[1].i] # "ns16550a",
         NEW v, virtio_device(calls[1].node, v)
  PROVE  WalkInv'
<1> DEFINE n == calls[1].node
<1>1. /\ boot = "walk" /\ calls # << >> /\ Len(nodes[n].compatible) \in Nat
      /\ calls[1].i <= Len(nodes[n].compatible)
      /\ Succeeded /\ state = "returned" /\ drivers # << >>
  BY AtString
<1>2. CASE Skip /\ UNCHANGED <<arena, registry, status>>
  <2>1. UNCHANGED <<arena, registry>>
    BY <1>2
  <2> QED
    BY <2>1, <1>2, SkipWalk
<1>3. CASE virtio_failed(n)
  <2> DEFINE y == DriverNode("DEVICE_TYPE_VIRTIO_MMIO", NULL, << >>)
             g == IF freed = << >> THEN freed ELSE Tail(freed)
  <2>1. /\ blocks' = Allocated(y) /\ Skips(calls, calls') /\ boot' = boot /\ UNCHANGED registry
    BY <1>3 DEF virtio_failed, Skip, Skips
  <2>2. Takes(freed, blocks, NewBlock, g, blocks', y)
    BY <2>1 DEF Takes, NewBlock, Allocated
  <2> HIDE DEF y, g
  <2>3. Arena(drivers, freed, blocks)
    BY DEF BootInv
  <2>4. \A i \in 1..Len(drivers) : blocks'[drivers[i]] = blocks[drivers[i]]
    BY <2>2, <2>3, ListedKept
  <2>5. PICK seen : Walks(seen, calls, nodes, root_node, Usable, drivers, blocks)
    BY AtString
  <2>6. Walks(seen, calls', nodes, root_node, Usable, drivers, blocks)
    BY <2>1, <2>5, <1>1, SkipWalks
  <2>7. drivers \in Seq(1..Len(blocks))
    BY <2>3 DEF Arena
  <2>8. Walks(seen, calls', nodes, root_node, Usable, drivers, blocks')
    BY <2>4, <2>6, <2>7, BlocksWalks
  <2>9. drivers' = drivers /\ driver_count' = driver_count
    BY <2>1 DEF registry
  <2>10. driver_count' = Len(drivers') /\ Walks(seen, calls', nodes, root_node, Usable, drivers', blocks')
    BY <2>8, <2>9 DEF WalkInv
  <2> QED
    BY <2>1, <2>10, <1>1, WalkGoesOn
<1>4. CASE /\ IF IsBlock(v) THEN block_driver_init(v) ELSE boot' = "todo" /\ UNCHANGED status
           /\ UNCHANGED <<calls, arena, registry>>
  <2>1. boot' \in {"todo", "panic"}
    BY <1>4 DEF block_driver_init
  <2>2. drivers' = drivers /\ driver_count' = driver_count /\ blocks' = blocks /\ calls' = calls
    BY <1>4 DEF arena, registry
  <2>3. BootEnds
    BY <2>1, <1>1 DEF BootEnds
  <2> QED
    BY <2>2, <2>3, SameWalk
<1> QED
  BY <1>2, <1>3, <1>4 DEF virtio_device

\* A string keeps it.
LEMMA StringWalk ==
  ASSUME TreeInv, PassInv, BootInv, WalkInv, CompatibleString, UNCHANGED vars
  PROVE  WalkInv'
<1> DEFINE n == calls[1].node
           compat == nodes[n].compatible[calls[1].i]
<1>1. calls[1] = Head(calls)
  BY AtString
<1>2. "virtio,mmio" # "ns16550a"
  OBVIOUS
<1>3. \/ compat = "ns16550a" /\ uart_device(n)
      \/ compat # "ns16550a" /\ \E v \in VirtioDevices : virtio_device(n, v)
      \/ compat # "ns16550a" /\ Skip /\ UNCHANGED <<arena, registry, status>>
  BY <1>1, <1>2, Zenon DEF CompatibleString
<1>4. CASE compat = "ns16550a" /\ uart_device(n)
  BY <1>4, UartWalk
<1>5. CASE compat # "ns16550a" /\ \E v \in VirtioDevices : virtio_device(n, v)
  BY <1>5, VirtioWalk
<1>6. CASE compat # "ns16550a" /\ Skip /\ UNCHANGED <<arena, registry, status>>
  <2>1. UNCHANGED <<arena, registry>>
    BY <1>6
  <2> QED
    BY <2>1, <1>6, SkipWalk
<1> QED
  BY <1>3, <1>4, <1>5, <1>6

\* Going down to the children keeps it.
LEMMA ChildrenWalk ==
  ASSUME TreeInv, PassInv, WalkInv, Children, UNCHANGED vars
  PROVE  WalkInv'
<1>1. /\ boot = "walk" /\ calls # << >> /\ boot' = boot
      /\ Head(calls).i > Len(nodes[Head(calls).node].compatible)
      /\ calls' = ChildCalls(Head(calls).node) \o Tail(calls)
  BY DEF Children
<1>2. drivers' = drivers /\ driver_count' = driver_count /\ blocks' = blocks
  BY DEF Children, arena, registry
<1>3. PICK seen : Walks(seen, calls, nodes, root_node, Usable, drivers, blocks)
  BY <1>1 DEF WalkInv
<1>4. Stack(nodes, root_node, seen, calls) /\ Succeeded
  BY <1>1, <1>3 DEF Walks, WalkInv
<1>5. calls[1] = Head(calls) /\ calls[1].node \in 1..Len(nodes)
  BY <1>1, <1>4, FirstCall
<1> DEFINE children == SiblingsFrom[nodes[calls[1].node].children]
<1>6. ListedBelow(nodes, calls[1].node, children)
  BY <1>5, ChildrenOnce DEF ListedBelow
<1>7. Descended(calls, children, calls')
  BY <1>1, <1>5 DEF Descended, ChildCalls
<1> HIDE DEF children
<1>8. nodes[root_node].parent = NULL
  BY <1>4 DEF PassInv
<1>9. \A m \in 1..Len(nodes) : Len(nodes[m].compatible) \in Nat
  BY <1>4, CompatibleLists
<1>10. calls[1].i > Len(nodes[calls[1].node].compatible)
  BY <1>1, <1>5
<1>11. Walks(seen \union {calls[1].node}, calls', nodes, root_node, Usable, drivers, blocks)
  BY <1>1, <1>3, <1>6, <1>7, <1>8, <1>9, <1>10, ChildrenWalks
<1>12. driver_count' = Len(drivers')
  BY <1>2 DEF WalkInv
<1>13. Walks(seen \union {calls[1].node}, calls', nodes, root_node, Usable, drivers', blocks')
  BY <1>2, <1>11
<1> QED
  BY <1>1, <1>12, <1>13, WalkGoesOn

\* The parser at work keeps it.
LEMMA ParserWalk ==
  ASSUME WalkInv, Next, UNCHANGED bootVars
  PROVE  WalkInv'
<1>1. boot = "parse"
  BY NoStep DEF WalkInv
<1>2. boot' = boot /\ drivers' = drivers /\ driver_count' = driver_count
  BY DEF bootVars
<1>3. driver_count = Len(drivers)
  BY DEF WalkInv
<1> QED
  BY <1>1, <1>2, <1>3 DEF WalkInv

\* Every step of the boot keeps it.
LEMMA NextWalk ==
  TreeInv /\ PassInv /\ Judged /\ BootInv /\ WalkInv /\ [BootNext]_<<vars, bootVars>> => WalkInv'
<1> SUFFICES ASSUME TreeInv, PassInv, Judged, BootInv, WalkInv, [BootNext]_<<vars, bootVars>>
             PROVE  WalkInv'
  OBVIOUS
<1>1. CASE UNCHANGED vars /\ UNCHANGED bootVars
  <2>1. /\ drivers' = drivers /\ driver_count' = driver_count /\ blocks' = blocks /\ calls' = calls
        /\ boot' = boot
    BY <1>1 DEF bootVars
  <2>2. BootEnds
    BY <2>1 DEF BootEnds
  <2> QED
    BY <2>1, <2>2, <1>1, SameWalk
<1>2. CASE Next /\ UNCHANGED bootVars
  BY <1>2, ParserWalk
<1>3. CASE kernel_c_entry /\ UNCHANGED vars
  BY <1>3, EntryWalk
<1>4. CASE CompatibleString /\ UNCHANGED vars
  BY <1>4, StringWalk
<1>5. CASE Children /\ UNCHANGED vars
  BY <1>5, ChildrenWalk
<1>6. CASE WalkDone /\ UNCHANGED vars
  <2>1. /\ drivers' = drivers /\ driver_count' = driver_count /\ blocks' = blocks /\ calls' = calls
        /\ boot = "walk" /\ boot' = "done" /\ calls = << >>
    BY <1>6 DEF WalkDone, End, arena, registry
  <2>2. BootEnds
    BY <2>1 DEF BootEnds, WalkInv
  <2> QED
    BY <2>1, <2>2, <1>6, SameWalk
<1> QED
  BY <1>1, <1>2, <1>3, <1>4, <1>5, <1>6 DEF BootNext

-----------------------------------------------------------------------------
\* A node mentions what its compatible list holds.
LEMMA MentionsListed ==
  ASSUME TreeInv, PassInv, Succeeded, NEW n \in Tree, NEW c
  PROVE  Mentions(n, c) > 0 <=> c \in ToSet(nodes[n].compatible)
<1> DEFINE list == nodes[n].compatible
           P == Places(list, Len(list), c)
<1>1. list \in Seq(STRING) /\ Mentions(n, c) = Cardinality(P)
  BY MentionsAgree
<1> HIDE DEF list
<1>2. Len(list) \in Nat /\ DOMAIN list = 1..Len(list)
  BY <1>1, LenProperties
<1>3. IsFiniteSet(P) /\ Cardinality(P) \in Nat
  BY <1>2, PlacesStep
<1>4. Cardinality(P) = 0 <=> P = {}
  BY <1>3, FS_EmptySet
<1>5. P # {} <=> c \in ToSet(list)
  BY <1>2 DEF Places, ToSet
<1> HIDE DEF P
<1> QED
  BY <1>1, <1>3, <1>4, <1>5 DEF list

\* The places on the list that hold a driver of a UART at n.
UartPlaces(d, b, n) == {k \in 1..Len(d) : b[d[k]] = UartOf(n)}

PlacesBelow(d, b, seen) == UNION {UartPlaces(d, b, n) : n \in seen}

PlicPlaces(d, b, n) == {k \in 1..Len(d) : b[d[k]] = PlicOf(n)}

\* No driver is listed twice.
LEMMA PlacesOfUarts ==
  ASSUME NEW d, NEW f, NEW b, Arena(d, f, b), NEW n
  PROVE  Cardinality(UartPlaces(d, b, n)) = Cardinality(Has(d, b, n))
<1> DEFINE S == UartPlaces(d, b, n)
           T == Has(d, b, n)
           h == [k \in S |-> d[k]]
<1>1. \A i, j \in 1..Len(d) : d[i] = d[j] => i = j
  BY DEF Arena, Apart
<1>2. S \in SUBSET (1..Len(d)) /\ IsFiniteSet(S)
  <2>1. Len(d) \in Nat
    BY LenProperties DEF Arena
  <2>2. IsFiniteSet(1..Len(d))
    BY <2>1, FS_Interval
  <2>3. S \in SUBSET (1..Len(d))
    BY DEF UartPlaces
  <2> HIDE DEF S
  <2> QED
    BY <2>2, <2>3, FS_Subset
<1>3. /\ \A k \in S : d[k] \in T
      /\ \A z \in T : \E k \in S : d[k] = z
  BY DEF UartPlaces, Has
<1>4. DOMAIN h = S /\ h = [k \in S |-> h[k]] /\ \A k \in S : h[k] = d[k]
  OBVIOUS
<1> HIDE DEF S, T, h
<1>5. \A k, l \in S : h[k] = h[l] => k = l
  BY <1>1, <1>2, <1>4
<1>6. \A k \in S : h[k] \in T
  BY <1>3, <1>4
<1>7. \A z \in T : \E k \in S : h[k] = z
  BY <1>3, <1>4
<1>8. Cardinality(T) = Cardinality(S)
  BY <1>2, <1>4, <1>5, <1>6, <1>7, SameCount
<1> QED
  BY <1>8 DEF S, T

\* When the walk is over: the UARTs are all drivers but the last.
LEMMA UartsLined ==
  ASSUME NEW ns, NEW U, NEW seen, NEW td, NEW b, NEW S, NEW d \in Seq(S),
         Lined(ns, U, seen, td, d, b), Waiting(td) = {}
  PROVE  /\ Len(d) = 1 + Cardinality(PlacesBelow(d, b, seen))
         /\ \E p \in U : ListsPlic(ns, p) /\ Cardinality(PlicPlaces(d, b, p)) = 1
<1>1. /\ d # << >>
      /\ \A k \in 1..(Len(d) - 1) : \E n \in seen : b[d[k]] = UartOf(n)
  BY DEF Lined
<1>2. PICK p \in U : ListsPlic(ns, p) /\ b[d[Len(d)]] = PlicOf(p)
  BY DEF Lined
<1>3. \A n, m : PlicOf(n) # UartOf(m)
  <2>1. \A n, m : PlicOf(n).type = "DEVICE_TYPE_PLIC" /\ UartOf(m).type = "DEVICE_TYPE_UART"
    BY DEF PlicOf, UartOf, DriverNode
  <2> QED
    BY <2>1
<1>4. PICK L \in Nat \ {0} : L = Len(d)
  BY <1>1, EmptySeq
<1>5. L \in 1..L /\ 1..L = 1..(L - 1) \union {L} /\ L \notin 1..(L - 1)
  OBVIOUS
<1> DEFINE W == UNION {UartPlaces(d, b, n) : n \in seen}
           Q == {k \in 1..Len(d) : b[d[k]] = PlicOf(p)}
<1>6. W = 1..(L - 1)
  <2>1. ASSUME NEW k \in 1..(L - 1) PROVE k \in W
    <3>1. PICK n \in seen : b[d[k]] = UartOf(n)
      BY <1>1, <1>4
    <3>2. k \in UartPlaces(d, b, n)
      BY <3>1, <1>4, <1>5 DEF UartPlaces
    <3> QED
      BY <3>2
  <2>2. ASSUME NEW k \in W PROVE k \in 1..(L - 1)
    <3>1. PICK n \in seen : k \in UartPlaces(d, b, n)
      OBVIOUS
    <3>2. k \in 1..L /\ b[d[k]] = UartOf(n)
      BY <3>1, <1>4 DEF UartPlaces
    <3>3. k # L
      BY <3>2, <1>2, <1>3, <1>4
    <3> QED
      BY <3>2, <3>3, <1>5
  <2> HIDE DEF W
  <2> QED
    BY <2>1, <2>2
<1>7. Cardinality(1..(L - 1)) = L - 1
  <2>1. L - 1 \in Nat /\ Cardinality(1..(L - 1)) = IF 1 > L - 1 THEN 0 ELSE (L - 1) - 1 + 1
    BY FS_Interval
  <2> QED
    BY <2>1
<1>8. Q = {L}
  <2>1. ASSUME NEW k \in Q PROVE k = L
    <3>1. k \in 1..L /\ b[d[k]] = PlicOf(p)
      BY <1>4
    <3>2. k \notin 1..(L - 1)
      BY <3>1, <1>1, <1>3, <1>4
    <3> QED
      BY <3>1, <3>2, <1>5
  <2>2. L \in Q
    BY <1>2, <1>4, <1>5
  <2> HIDE DEF Q
  <2> QED
    BY <2>1, <2>2
<1> HIDE DEF W, Q
<1>9. Cardinality(Q) = 1
  BY <1>8, FS_Singleton
<1>10. Len(d) = 1 + Cardinality(W)
  BY <1>4, <1>6, <1>7
<1> QED
  BY <1>2, <1>9, <1>10 DEF W, Q, PlacesBelow, PlicPlaces

\* The invariants say what DriversMatchTree does of a boot that is done.
LEMMA DoneMatches ==
  ASSUME TreeInv, PassInv, BootInv, WalkInv, boot = "done"
  PROVE  /\ \A n \in Tree :
              Cardinality(DriversOf("DEVICE_TYPE_UART", n)) =
                IF RegInBlob(n) THEN Mentions(n, "ns16550a") ELSE 0
         /\ \E p \in Tree :
              /\ ListsPlic(nodes, p) /\ RegInBlob(p)
              /\ Cardinality(DriversOf("DEVICE_TYPE_PLIC", p)) = 1
         /\ Len(drivers) = 1 + Cardinality(UNION {DriversOf("DEVICE_TYPE_UART", n) : n \in Tree})
<1>1. Succeeded /\ calls = << >>
  BY DEF WalkInv
<1>2. PICK seen : Walks(seen, calls, nodes, root_node, Usable, drivers, blocks)
  BY DEF WalkInv
<1>3. /\ Reaches(nodes, root_node, seen, << >>, NoVisit)
      /\ Counted(nodes, Usable, seen, calls, drivers, blocks)
      /\ Lined(nodes, Usable, seen, calls, drivers, blocks)
  BY <1>1, <1>2 DEF Walks, Stack
<1>4. Tree = seen
  <2>1. nodes[root_node].parent = NULL /\ root_node \in 1..Len(nodes)
    BY <1>1 DEF PassInv
  <2> QED
    BY <2>1, <1>3, TreeSeen
<1>5. \A n \in seen : n \in 1..Len(nodes)
  BY <1>3 DEF Reaches
<1>6. Arena(drivers, freed, blocks) /\ drivers \in Seq(1..Len(blocks))
  BY DEF BootInv, Arena
<1>7. DOMAIN drivers = 1..Len(drivers)
  BY <1>6, LenProperties
<1>8. /\ \A n : DriversOf("DEVICE_TYPE_UART", n) = UartPlaces(drivers, blocks, n)
      /\ \A n : DriversOf("DEVICE_TYPE_PLIC", n) = PlicPlaces(drivers, blocks, n)
  BY <1>7 DEF DriversOf, UartPlaces, PlicPlaces, UartOf, PlicOf
<1>9. ASSUME NEW n \in Tree
      PROVE  Cardinality(DriversOf("DEVICE_TYPE_UART", n)) =
               IF RegInBlob(n) THEN Mentions(n, "ns16550a") ELSE 0
  <2> DEFINE list == nodes[n].compatible
  <2>1. Cardinality(DriversOf("DEVICE_TYPE_UART", n)) = Cardinality(Has(drivers, blocks, n))
    BY <1>6, <1>8, PlacesOfUarts
  <2>2. Looked(nodes, seen, calls, n) = Len(list)
    BY <1>4 DEF Looked
  <2>3. Cardinality(Has(drivers, blocks, n)) = Due(n \in Usable, list, Len(list))
    BY <2>2, <1>3, <1>4, <1>5 DEF Counted
  <2>4. n \in Usable <=> RegInBlob(n)
    BY <1>1, <1>4, <1>5, RegAgrees DEF Usable
  <2>5. Mentions(n, "ns16550a") = Cardinality(Places(list, Len(list), "ns16550a"))
    BY <1>1, MentionsAgree
  <2> HIDE DEF list
  <2> QED
    BY <2>1, <2>3, <2>4, <2>5 DEF Due
<1>10. Waiting(calls) = {}
  <2>1. 1..Len(<< >>) = {}
    BY EmptySeq
  <2> QED
    BY <2>1, <1>1 DEF Waiting
<1>11. /\ Len(drivers) = 1 + Cardinality(PlacesBelow(drivers, blocks, seen))
       /\ \E p \in Usable : /\ ListsPlic(nodes, p)
                            /\ Cardinality(PlicPlaces(drivers, blocks, p)) = 1
  BY <1>3, <1>6, <1>10, UartsLined
<1>12. {DriversOf("DEVICE_TYPE_UART", n) : n \in Tree} = {UartPlaces(drivers, blocks, n) : n \in seen}
  BY <1>4, <1>8
<1>13. Len(drivers) = 1 + Cardinality(UNION {DriversOf("DEVICE_TYPE_UART", n) : n \in Tree})
  BY <1>11, <1>12 DEF PlacesBelow
<1>14. PICK p \in Usable : /\ ListsPlic(nodes, p)
                           /\ Cardinality(PlicPlaces(drivers, blocks, p)) = 1
  BY <1>11
<1>15. p \in Tree
  <2>1. p \in 1..Len(nodes)
    BY DEF Usable
  <2> QED
    BY <2>1, <1>1, <1>14, CompatibleLists, Zenon DEF ListsPlic
<1>16. RegInBlob(p)
  BY <1>1, <1>15, RegAgrees DEF Usable
<1>17. Cardinality(DriversOf("DEVICE_TYPE_PLIC", p)) = 1
  BY <1>8, <1>14
<1> QED
  BY <1>9, <1>13, <1>14, <1>15, <1>16, <1>17

\* The invariants say what DriversMatchTree does.
LEMMA WalkMatches == TreeInv /\ PassInv /\ BootInv /\ WalkInv => DriversMatchTree
<1> SUFFICES ASSUME TreeInv, PassInv, BootInv, WalkInv PROVE DriversMatchTree
  OBVIOUS
<1> DEFINE c == "riscv,plic0"
           plics == {n \in Tree : Mentions(n, c) > 0}
<1>1. boot \in {"walk", "done", "todo"} => Succeeded
  BY DEF WalkInv
<1>2. ASSUME Succeeded PROVE \A n \in Tree : Mentions(n, c) > 0 <=> ListsPlic(nodes, n)
  BY <1>2, MentionsListed, Zenon DEF ListsPlic
<1>3. ASSUME Succeeded PROVE \A n \in Tree : n \in 1..Len(nodes)
  BY <1>3, PassEnded
<1>4. ASSUME Succeeded PROVE \A n \in 1..Len(nodes) : ListsPlic(nodes, n) => n \in Tree
  BY <1>4, CompatibleLists, Zenon DEF ListsPlic
<1>5. ASSUME boot = "panic", Succeeded, drivers = << >>
      PROVE  plics = {} \/ \E n \in plics : ~RegInBlob(n)
  <2> HIDE DEF c
  <2>1. Refused(nodes, Usable)
    BY <1>5 DEF WalkInv
  <2>2. CASE \A n \in 1..Len(nodes) : ~ListsPlic(nodes, n)
    BY <2>2, <1>2, <1>3, <1>5
  <2>3. CASE \E n \in 1..Len(nodes) : ListsPlic(nodes, n) /\ n \notin Usable
    <3>1. PICK n \in 1..Len(nodes) : ListsPlic(nodes, n) /\ n \notin Usable
      BY <2>3
    <3>2. n \in Tree /\ ~UsableReg(n)
      BY <3>1, <1>4, <1>5 DEF Usable
    <3>3. ~RegInBlob(n)
      BY <3>2, <1>5, RegAgrees
    <3> QED
      BY <3>1, <3>2, <3>3, <1>2, <1>5
  <2> QED
    BY <2>1, <2>2, <2>3 DEF Refused
<1>6. ASSUME boot = "done"
      PROVE  /\ \A n \in Tree :
                  Cardinality(DriversOf("DEVICE_TYPE_UART", n)) =
                    IF RegInBlob(n) THEN Mentions(n, "ns16550a") ELSE 0
             /\ \E n \in Tree :
                  /\ Mentions(n, c) > 0 /\ RegInBlob(n)
                  /\ Cardinality(DriversOf("DEVICE_TYPE_PLIC", n)) = 1
             /\ driver_count = Len(drivers)
             /\ Len(drivers) = 1 + Cardinality(UNION {DriversOf("DEVICE_TYPE_UART", n) : n \in Tree})
  <2> HIDE DEF c
  <2>1. driver_count = Len(drivers) /\ Succeeded
    BY <1>6 DEF WalkInv
  <2>2. PICK p \in Tree : /\ ListsPlic(nodes, p) /\ RegInBlob(p)
                          /\ Cardinality(DriversOf("DEVICE_TYPE_PLIC", p)) = 1
    BY <1>6, DoneMatches
  <2>3. Mentions(p, c) > 0
    BY <2>1, <2>2, <1>2
  <2>4. \E n \in Tree : /\ Mentions(n, c) > 0 /\ RegInBlob(n)
                        /\ Cardinality(DriversOf("DEVICE_TYPE_PLIC", n)) = 1
    BY <2>2, <2>3, Zenon
  <2>5. /\ \A n \in Tree :
             Cardinality(DriversOf("DEVICE_TYPE_UART", n)) =
               IF RegInBlob(n) THEN Mentions(n, "ns16550a") ELSE 0
        /\ Len(drivers) = 1 + Cardinality(UNION {DriversOf("DEVICE_TYPE_UART", n) : n \in Tree})
    BY <1>6, DoneMatches
  <2> QED
    BY <2>1, <2>4, <2>5, Zenon
<1> QED
  BY <1>1, <1>5, <1>6, Zenon DEF DriversMatchTree

\* At every step of the boot, for every blob, every board and every table of
\* harts: boot goes past the parser only with a tree that parsed; devices_init
\* gives up only if the blob has no PLIC or one without a usable reg; and when
\* the walk is over, the list holds one PLIC of the blob and one driver per
\* UART mentioned anywhere in the tree with a usable reg, each at the address
\* in reg, nothing else, and driver_count is its length.
THEOREM DriversAgree == BootSpec => []DriversMatchTree
<1>1. BootInit => TreeInv /\ ValueInv /\ PassInv /\ Judged /\ BootInv /\ WalkInv
  BY InitTree, InitValue, InitPass, InitJudged, InitBoot, InitWalk DEF BootInit
<1>2. [BootNext]_<<vars, bootVars>> => [Next]_vars
  BY DEF BootNext
<1>3. TreeInv /\ ValueInv /\ PassInv /\ Judged /\ BootInv /\ WalkInv /\ [BootNext]_<<vars, bootVars>> =>
        TreeInv' /\ ValueInv' /\ PassInv' /\ Judged' /\ BootInv' /\ WalkInv'
  BY <1>2, NextTree, NextValue, NextPass, NextJudged, NextBoot, NextWalk
<1> QED
  BY <1>1, <1>3, WalkMatches, PTL DEF BootSpec
=============================================================================
