-------------------------- MODULE SegmentImageProofs --------------------------
(***************************************************************************)
(* Proofs about MemoryImage and SegmentImage, for every depth, page size,  *)
(* value set, cost, order of the commit's loops and hash without           *)
(* collisions of zero subtrees: first every method of the image, then the  *)
(* cut of the tree a segment's image is.                                   *)
(***************************************************************************)
EXTENDS SegmentImage, PagingProofs

-----------------------------------------------------------------------------
(* Depths                                                                  *)

\* The depth of a node: the root has depth 0, a child is one deeper than its
\* parent, and the leaves are the nodes of the greatest depth.
LEMMA DepthIs ==
  ASSUME NEW n \in Nodes, NEW k \in 0 .. MERKLE_TREE_DEPTH,
         2 ^ k <= n, n < 2 ^ (k + 1)
  PROVE  DepthOf(n) = k
<1> DEFINE D == MERKLE_TREE_DEPTH
<1>0. n \in Nat /\ D \in Nat
  BY NodesAre, GeometryAssumption
<1>1. ASSUME NEW j \in 0 .. D, 2 ^ j <= n, n < 2 ^ (j + 1), j < k
      PROVE  FALSE
  <2>1. 2 ^ (j + 1) <= 2 ^ k
    <3>1. j + 1 = k \/ j + 1 < k
      BY <1>0, <1>1
    <3>2. j + 1 \in 0 .. D + 1 /\ k \in 0 .. D + 1
      BY <1>0
    <3>3. 2 ^ (j + 1) \in Nat /\ 2 ^ k \in Nat
      BY <3>2, PowersOfTwo
    <3> QED
      BY <3>1, <3>2, <3>3, PowersGrow
  <2>2. 2 ^ (j + 1) \in Nat /\ 2 ^ k \in Nat
    BY <1>0, PowersOfTwo
  <2> QED
    BY <1>0, <1>1, <2>1, <2>2
<1>2. ASSUME NEW j \in 0 .. D, 2 ^ j <= n, n < 2 ^ (j + 1), k < j
      PROVE  FALSE
  <2>1. 2 ^ (k + 1) <= 2 ^ j
    <3>1. k + 1 = j \/ k + 1 < j
      BY <1>0, <1>2
    <3>2. k + 1 \in 0 .. D + 1 /\ j \in 0 .. D + 1
      BY <1>0
    <3>3. 2 ^ (k + 1) \in Nat /\ 2 ^ j \in Nat
      BY <3>2, PowersOfTwo
    <3> QED
      BY <3>1, <3>2, <3>3, PowersGrow
  <2>2. 2 ^ (k + 1) \in Nat /\ 2 ^ j \in Nat
    BY <1>0, PowersOfTwo
  <2> QED
    BY <1>0, <1>2, <2>1, <2>2
<1>3. \A j \in 0 .. D : 2 ^ j <= n /\ n < 2 ^ (j + 1) => j = k
  <2> SUFFICES ASSUME NEW j \in 0 .. D, 2 ^ j <= n, n < 2 ^ (j + 1)
               PROVE  j = k
    OBVIOUS
  <2>1. ~ (j < k) /\ ~ (k < j)
    BY <1>1, <1>2
  <2> QED
    BY <1>0, <2>1
<1> QED
  BY <1>3 DEF DepthOf

\* Every node has a depth.
LEMMA DepthBetween ==
  ASSUME NEW n \in Nodes
  PROVE  /\ DepthOf(n) \in 0 .. MERKLE_TREE_DEPTH
         /\ 2 ^ DepthOf(n) <= n /\ n < 2 ^ (DepthOf(n) + 1)
<1> DEFINE D == MERKLE_TREE_DEPTH
           S == {k \in 0 .. D : n < 2 ^ (k + 1)}
<1>0. n \in Nat /\ n >= 1 /\ D \in Nat
  BY GeometryAssumption, NodesAre
<1>1. D \in S
  <2>1. 2 ^ (D + 1) = 2 * MEMORY_SIZE_PAGES /\ MEMORY_SIZE_PAGES \in Nat
    BY <1>0, PowersOfTwo, Geometry DEF MEMORY_SIZE_PAGES
  <2> QED
    BY <1>0, <2>1 DEF Nodes
<1>2. S \subseteq Nat
  OBVIOUS
<1>3. PICK k \in S : \A j \in S : k <= j
  BY <1>1, <1>2, LeastElement
<1>4. 2 ^ k <= n
  <2>1. CASE k = 0
    BY <1>0, <2>1, PowersOfTwo
  <2>2. CASE k # 0
    <3>0. k \in 0 .. D /\ k - 1 \in 0 .. D
      BY <1>0, <2>2
    <3>1. k - 1 \notin S
      <4> HIDE DEF S
      <4>1. ~ (k <= k - 1)
        BY <3>0
      <4> QED
        BY <1>3, <4>1
    <3>2. (k - 1) + 1 = k /\ k \in 0 .. D + 1
      BY <1>0
    <3>3. 2 ^ k \in Nat
      BY <3>2, PowersOfTwo
    <3>4. ~ (n < 2 ^ ((k - 1) + 1))
      BY <3>0, <3>1
    <3>5. ~ (n < 2 ^ k)
      BY <3>2, <3>4
    <3> QED
      BY <1>0, <3>3, <3>5
  <2> QED
    BY <2>1, <2>2
<1> QED
  BY <1>3, <1>4, DepthIs

LEMMA Depths ==
  /\ DepthOf(1) = 0
  /\ \A n \in Inner : /\ DepthOf(n) \in 0 .. MERKLE_TREE_DEPTH - 1
                      /\ DepthOf(2 * n) = DepthOf(n) + 1
                      /\ DepthOf(2 * n + 1) = DepthOf(n) + 1
  /\ \A n \in Nodes : n \notin Inner => DepthOf(n) = MERKLE_TREE_DEPTH
<1> DEFINE D == MERKLE_TREE_DEPTH
<1>0. /\ D \in Nat /\ MEMORY_SIZE_PAGES \in Nat \ {0} /\ MEMORY_SIZE_PAGES = 2 ^ D
      /\ Nodes \subseteq Nat \ {0} /\ Inner \subseteq Nodes
      /\ 1 \in Nodes /\ 2 ^ 0 = 1
      /\ \A k \in 0 .. D : 2 ^ (k + 1) = 2 * 2 ^ k
      /\ \A k \in 0 .. D + 1 : 2 ^ k \in Nat
  BY GeometryAssumption, Geometry, NodesAre, PowersOfTwo DEF MEMORY_SIZE_PAGES
<1>1. DepthOf(1) = 0
  <2>1. 2 ^ (0 + 1) = 2 * 2 ^ 0
    BY <1>0
  <2>2. 2 ^ 0 <= 1 /\ 1 < 2 ^ (0 + 1)
    BY <1>0, <2>1
  <2>3. 0 \in 0 .. D
    BY <1>0
  <2> QED
    BY <1>0, <2>2, <2>3, DepthIs
<1>2. ASSUME NEW n \in Inner
      PROVE  /\ DepthOf(n) \in 0 .. D - 1
             /\ DepthOf(2 * n) = DepthOf(n) + 1
             /\ DepthOf(2 * n + 1) = DepthOf(n) + 1
  <2> DEFINE k == DepthOf(n)
  <2>1. n \in Nodes /\ n \in Nat /\ n < MEMORY_SIZE_PAGES
    BY <1>0 DEF Inner
  <2>2. k \in 0 .. D /\ 2 ^ k <= n /\ n < 2 ^ (k + 1)
    BY <2>1, DepthBetween
  <2> HIDE DEF k
  <2>3. k # D
    BY <1>0, <2>1, <2>2
  <2>4. k \in 0 .. D - 1
    BY <1>0, <2>2, <2>3
  <2>5. /\ k + 1 \in 0 .. D
        /\ 2 ^ k \in Nat /\ 2 ^ (k + 1) \in Nat
        /\ 2 ^ (k + 1) = 2 * 2 ^ k
        /\ 2 ^ ((k + 1) + 1) = 2 * 2 ^ (k + 1)
    BY <1>0, <2>4
  <2>6. 2 ^ (k + 1) <= 2 * n /\ 2 * n + 1 < 2 ^ ((k + 1) + 1)
    BY <2>1, <2>2, <2>5
  <2>7. 2 ^ ((k + 1) + 1) \in Nat
    BY <2>5
  <2>8. /\ 2 ^ (k + 1) <= 2 * n + 1 /\ 2 * n < 2 ^ ((k + 1) + 1)
    BY <2>1, <2>5, <2>6, <2>7
  <2>9. 2 * n \in Nodes /\ 2 * n + 1 \in Nodes
    BY NodesAre
  <2> QED
    BY <2>4, <2>5, <2>6, <2>8, <2>9, DepthIs DEF k
<1>3. ASSUME NEW n \in Nodes, n \notin Inner PROVE DepthOf(n) = D
  <2>1. 2 ^ D <= n /\ n < 2 ^ (D + 1)
    <3>1. n >= MEMORY_SIZE_PAGES /\ n < 2 * MEMORY_SIZE_PAGES
      BY <1>0, <1>3 DEF Nodes, Inner
    <3>2. 2 ^ (D + 1) = 2 * MEMORY_SIZE_PAGES
      BY <1>0
    <3> QED
      BY <1>0, <3>1, <3>2
  <2> QED
    BY <1>0, <2>1, DepthIs
<1> QED
  BY <1>1, <1>2, <1>3

-----------------------------------------------------------------------------
(* The recursive definitions.  Each is a CHOOSE of a function that solves   *)
(* an equation; the equation holds once a solution is known to exist.       *)

\* initZeros: a zero node's digest is that of two zero children.
LEMMA ZeroDigestsAre ==
  /\ ZeroDigests[MERKLE_TREE_DEPTH] = HashPage(ZeroPage)
  /\ \A k \in 0 .. MERKLE_TREE_DEPTH - 1 :
       ZeroDigests[k] = HashPair(ZeroDigests[k + 1], ZeroDigests[k + 1])
<1> DEFINE D == MERKLE_TREE_DEPTH
           Eq(f, k) == f[k] = IF k = D THEN HashPage(ZeroPage)
                              ELSE HashPair(f[k + 1], f[k + 1])
           S == {m \in 0 .. D : \E f : /\ f = [k \in m .. D |-> f[k]]
                                      /\ \A k \in m .. D : Eq(f, k)}
<1>0. D \in Nat
  BY GeometryAssumption
<1>1. \A m \in 0 .. D : m + 1 .. D \subseteq S => m \in S
  <2> SUFFICES ASSUME NEW m \in 0 .. D, m + 1 .. D \subseteq S
               PROVE  m \in S
    OBVIOUS
  <2>1. CASE m = D
    <3> DEFINE g == [k \in m .. D |-> HashPage(ZeroPage)]
    <3>1. g = [k \in m .. D |-> g[k]]
      OBVIOUS
    <3>2. \A k \in m .. D : Eq(g, k)
      BY <1>0, <2>1
    <3> HIDE DEF g, Eq
    <3> QED
      BY <3>1, <3>2
  <2>2. CASE m # D
    <3>1. m + 1 \in S
      BY <1>0, <2>2
    <3>2. PICK f : f = [k \in m + 1 .. D |-> f[k]] /\ \A k \in m + 1 .. D : Eq(f, k)
      BY <3>1
    <3> DEFINE g == [k \in m .. D |-> IF k = m THEN HashPair(f[m + 1], f[m + 1])
                                       ELSE f[k]]
    <3>3. g = [k \in m .. D |-> g[k]]
      OBVIOUS
    <3>4. \A k \in m .. D : Eq(g, k)
      <4> SUFFICES ASSUME NEW k \in m .. D PROVE Eq(g, k)
        OBVIOUS
      <4>1. CASE k = m
        <5>1. g[k] = HashPair(f[m + 1], f[m + 1]) /\ g[k + 1] = f[m + 1]
          BY <1>0, <2>2, <4>1
        <5> QED
          BY <2>2, <4>1, <5>1
      <4>2. CASE k # m
        <5>1. k \in m + 1 .. D /\ k \in 0 .. D
          BY <1>0, <4>2
        <5>2. Eq(f, k) /\ g[k] = f[k]
          BY <3>2, <4>2, <5>1
        <5>3. k # D => g[k + 1] = f[k + 1]
          BY <1>0, <5>1
        <5> HIDE DEF g
        <5> QED
          BY <5>2, <5>3
      <4> QED
        BY <4>1, <4>2
    <3> HIDE DEF g, Eq
    <3> QED
      BY <3>3, <3>4
  <2> QED
    BY <2>1, <2>2
<1>2. 0 \in S
  <2> HIDE DEF S
  <2>1. 0 .. D \subseteq S
    BY <1>0, <1>1, InductionDown
  <2> QED
    BY <1>0, <2>1
<1>3. PICK g : g = [k \in 0 .. D |-> g[k]] /\ \A k \in 0 .. D : Eq(g, k)
  BY <1>2
<1>4. g = [k \in 0 .. D |-> IF k = D THEN HashPage(ZeroPage)
                            ELSE HashPair(g[k + 1], g[k + 1])]
  BY <1>3
<1>5. ZeroDigests = [k \in 0 .. D |-> IF k = D THEN HashPage(ZeroPage)
                       ELSE HashPair(ZeroDigests[k + 1], ZeroDigests[k + 1])]
  BY <1>4 DEF ZeroDigests
<1> QED
  BY <1>0, <1>5

\* The digest of a node over a memory, from its children's.
LEMMA TrueDigestsAre ==
  ASSUME NEW memory
  PROVE  /\ \A n \in Inner : TrueDigests(memory)[n] =
              HashPair(TrueDigests(memory)[2 * n], TrueDigests(memory)[2 * n + 1])
         /\ \A p \in Pages : TrueDigests(memory)[Leaf(p)] = HashPage(memory[p])
<1> DEFINE M == MEMORY_SIZE_PAGES
           top == 2 * M - 1
           Eq(f, n) == f[n] = IF n \in Inner THEN HashPair(f[2 * n], f[2 * n + 1])
                              ELSE HashPage(memory[n - M])
           S == {m \in 1 .. top : \E f : /\ f = [n \in m .. top |-> f[n]]
                                        /\ \A n \in m .. top : Eq(f, n)}
<1>0. M \in Nat \ {0} /\ top \in Nat /\ Inner = 1 .. M - 1 /\ Nodes = 1 .. top
  BY Geometry DEF Inner, Nodes
<1>1. \A m \in 1 .. top : m + 1 .. top \subseteq S => m \in S
  <2> SUFFICES ASSUME NEW m \in 1 .. top, m + 1 .. top \subseteq S
               PROVE  m \in S
    OBVIOUS
  <2>1. CASE m = top
    <3> DEFINE g == [n \in m .. top |-> HashPage(memory[n - M])]
    <3>1. g = [n \in m .. top |-> g[n]]
      OBVIOUS
    <3>2. \A n \in m .. top : Eq(g, n)
      BY <1>0, <2>1
    <3> HIDE DEF g, Eq
    <3> QED
      BY <3>1, <3>2
  <2>2. CASE m # top
    <3>1. m + 1 \in S
      <4> HIDE DEF S
      <4> QED
        BY <1>0, <2>2
    <3>2. PICK f : /\ f = [n \in m + 1 .. top |-> f[n]]
                   /\ \A n \in m + 1 .. top : Eq(f, n)
      BY <3>1
    <3> DEFINE g == [n \in m .. top |->
                       IF n = m THEN IF m \in Inner THEN HashPair(f[2 * m], f[2 * m + 1])
                                     ELSE HashPage(memory[m - M])
                       ELSE f[n]]
    <3>3. g = [n \in m .. top |-> g[n]]
      OBVIOUS
    <3>4. \A n \in m .. top : Eq(g, n)
      <4> SUFFICES ASSUME NEW n \in m .. top PROVE Eq(g, n)
        OBVIOUS
      <4>0. n \in Inner => /\ 2 * n \in m + 1 .. top
                           /\ 2 * n + 1 \in m + 1 .. top
        BY <1>0
      <4>1. n \in Inner => g[2 * n] = f[2 * n] /\ g[2 * n + 1] = f[2 * n + 1]
        BY <1>0, <4>0
      <4>2. CASE n = m
        <5>1. g[n] = IF m \in Inner THEN HashPair(f[2 * m], f[2 * m + 1])
                     ELSE HashPage(memory[m - M])
          BY <4>2
        <5> HIDE DEF g
        <5> QED
          BY <4>1, <4>2, <5>1
      <4>3. CASE n # m
        <5>1. n \in m + 1 .. top
          BY <1>0, <4>3
        <5>2. Eq(f, n) /\ g[n] = f[n]
          BY <3>2, <4>3, <5>1
        <5> HIDE DEF g
        <5> QED
          BY <4>1, <5>2
      <4> QED
        BY <4>2, <4>3
    <3> HIDE DEF g, Eq
    <3> QED
      BY <3>3, <3>4
  <2> QED
    BY <2>1, <2>2
<1>2. 1 \in S
  <2> HIDE DEF S
  <2>1. 1 .. top \subseteq S
    BY <1>0, <1>1, InductionDown
  <2> QED
    BY <1>0, <2>1
<1>3. PICK g : g = [n \in 1 .. top |-> g[n]] /\ \A n \in 1 .. top : Eq(g, n)
  BY <1>2
<1>4. g = [n \in Nodes |-> IF n \in Inner THEN HashPair(g[2 * n], g[2 * n + 1])
                           ELSE HashPage(memory[n - MEMORY_SIZE_PAGES])]
  BY <1>0, <1>3
<1> DEFINE T == TrueDigests(memory)
<1>5. T = [n \in Nodes |-> IF n \in Inner THEN HashPair(T[2 * n], T[2 * n + 1])
                           ELSE HashPage(memory[n - MEMORY_SIZE_PAGES])]
  BY <1>4 DEF TrueDigests
<1>6. \A p \in Pages : /\ Leaf(p) \in Nodes /\ Leaf(p) \notin Inner
                       /\ Leaf(p) - MEMORY_SIZE_PAGES = p
  BY <1>0, LeafIsNode DEF Leaf, Pages
<1> HIDE DEF T
<1>7. \A p \in Pages : T[Leaf(p)] = HashPage(memory[p])
  BY <1>5, <1>6
<1>8. \A n \in Inner : T[n] = HashPair(T[2 * n], T[2 * n + 1])
  BY <1>5, NodesAre
<1> QED
  BY <1>7, <1>8 DEF T

-----------------------------------------------------------------------------
(* What a digest says of the pages below its node                          *)

\* The other child of a node's parent.
LEMMA Siblings ==
  ASSUME NEW n \in Nodes, n # 1
  PROVE  /\ Sibling(n) \in Nodes /\ Sibling(n) # 1 /\ Sibling(n) # n
         /\ Sibling(n) \div 2 = n \div 2
         /\ Sibling(Sibling(n)) = n
         /\ {n, Sibling(n)} = {2 * (n \div 2), 2 * (n \div 2) + 1}
<1> DEFINE h == n \div 2
<1>1. h \in Inner /\ n \in {2 * h, 2 * h + 1}
  BY NodesAre
<1>2. h \in Nat \ {0} /\ 2 * h \in Nodes /\ 2 * h + 1 \in Nodes
  BY <1>1, NodesAre
<1> HIDE DEF h
<1>3. CASE n = 2 * h
  <2>1. Sibling(n) = n + 1 /\ Sibling(n + 1) = n /\ (n + 1) \div 2 = h /\ n \div 2 = h
    BY <1>2, <1>3 DEF Sibling
  <2> QED
    BY <1>2, <1>3, <2>1 DEF h
<1>4. CASE n = 2 * h + 1
  <2>1. /\ Sibling(n) = n - 1 /\ Sibling(n - 1) = n
        /\ (n - 1) \div 2 = h /\ n \div 2 = h /\ n - 1 = 2 * h
    BY <1>2, <1>4 DEF Sibling
  <2> QED
    BY <1>2, <1>4, <2>1 DEF h
<1> QED
  BY <1>1, <1>3, <1>4

\* A node over zero pages only has the zero digest of its depth.
LEMMA ZeroSubtree ==
  ASSUME NEW memory, NEW n \in Nodes,
         \A p \in Pages : n \in Path(Leaf(p)) => memory[p] = ZeroPage
  PROVE  TrueDigests(memory)[n] = ZeroDigests[DepthOf(n)]
<1> DEFINE Z(m)  == \A p \in Pages : m \in Path(Leaf(p)) => memory[p] = ZeroPage
           T     == TrueDigests(memory)
           S     == {m \in Nodes : Z(m) => T[m] = ZeroDigests[DepthOf(m)]}
           top   == 2 * MEMORY_SIZE_PAGES - 1
<1>0. top \in Nat /\ Nodes = 1 .. top
  BY Geometry DEF Nodes
<1>1. ASSUME NEW m \in Nodes, m + 1 .. top \subseteq S, Z(m)
      PROVE  T[m] = ZeroDigests[DepthOf(m)]
  <2>1. CASE m \in Inner
    <3>1. /\ 2 * m \in m + 1 .. top /\ 2 * m + 1 \in m + 1 .. top
          /\ 2 * m \in S /\ 2 * m + 1 \in S
      <4>1. 2 * m \in Nodes /\ 2 * m + 1 \in Nodes /\ m \in Nat \ {0}
        BY <2>1, NodesAre
      <4>2. 2 * m \in m + 1 .. top /\ 2 * m + 1 \in m + 1 .. top
        BY <1>0, <4>1
      <4> HIDE DEF S
      <4> QED
        BY <1>1, <4>2
    <3>2. Z(2 * m) /\ Z(2 * m + 1)
      BY <1>1, <2>1, BelowChild
    <3>3. T[m] = HashPair(T[2 * m], T[2 * m + 1])
      BY <2>1, TrueDigestsAre
    <3> HIDE DEF Z, T
    <3>4. /\ T[2 * m] = ZeroDigests[DepthOf(2 * m)]
          /\ T[2 * m + 1] = ZeroDigests[DepthOf(2 * m + 1)]
      BY <3>1, <3>2
    <3>5. /\ DepthOf(2 * m) = DepthOf(m) + 1 /\ DepthOf(2 * m + 1) = DepthOf(m) + 1
          /\ DepthOf(m) \in 0 .. MERKLE_TREE_DEPTH - 1
      BY <2>1, Depths
    <3> QED
      BY <3>3, <3>4, <3>5, ZeroDigestsAre
  <2>2. CASE m \notin Inner
    <3>1. PICK p \in Pages : m = Leaf(p)
      BY <2>2, NodesAre
    <3>2. memory[p] = ZeroPage
      BY <1>1, <3>1, LeafOnOwnPath
    <3>3. T[m] = HashPage(ZeroPage)
      BY <3>1, <3>2, TrueDigestsAre
    <3> QED
      BY <2>2, <3>3, Depths, ZeroDigestsAre
  <2> QED
    BY <2>1, <2>2
<1>2. \A m \in 1 .. top : m + 1 .. top \subseteq S => m \in S
  BY <1>0, <1>1
<1>3. 1 .. top \subseteq S
  <2> HIDE DEF S
  <2> QED
    BY <1>0, <1>2, InductionDown
<1>4. n \in S
  <2> HIDE DEF S
  <2> QED
    BY <1>0, <1>3
<1> QED
  BY <1>4

\* Below a node with the zero digest every node has the zero digest.
LEMMA ZeroBelow ==
  ASSUME NEW memory \in [Pages -> PageData], NEW n \in Nodes,
         TrueDigests(memory)[n] = ZeroDigests[DepthOf(n)],
         NEW m \in Nodes, n \in Path(m)
  PROVE  /\ TrueDigests(memory)[m] = ZeroDigests[DepthOf(m)]
         /\ \A p \in Pages : m \in Path(Leaf(p)) => memory[p] = ZeroPage
<1>1. \A p \in Pages : n \in Path(Leaf(p)) => memory[p] = ZeroPage
  BY ZeroDigestAssumption
<1>2. \A p \in Pages : m \in Path(Leaf(p)) => n \in Path(Leaf(p))
  BY LeafIsNode, PathIsChain
<1>3. \A p \in Pages : m \in Path(Leaf(p)) => memory[p] = ZeroPage
  BY <1>1, <1>2
<1> QED
  BY <1>3, ZeroSubtree

\* A digest depends on the pages below its node only.
LEMMA DigestsAgree ==
  ASSUME NEW one, NEW two, NEW n \in Nodes,
         \A p \in Pages : n \in Path(Leaf(p)) => one[p] = two[p]
  PROVE  TrueDigests(one)[n] = TrueDigests(two)[n]
<1> DEFINE Z(m)  == \A p \in Pages : m \in Path(Leaf(p)) => one[p] = two[p]
           T     == TrueDigests(one)
           U     == TrueDigests(two)
           S     == {m \in Nodes : Z(m) => T[m] = U[m]}
           top   == 2 * MEMORY_SIZE_PAGES - 1
<1>0. top \in Nat /\ Nodes = 1 .. top
  BY Geometry DEF Nodes
<1>1. ASSUME NEW m \in Nodes, m + 1 .. top \subseteq S, Z(m)
      PROVE  T[m] = U[m]
  <2>1. CASE m \in Inner
    <3>1. 2 * m \in S /\ 2 * m + 1 \in S
      <4>1. 2 * m \in Nodes /\ 2 * m + 1 \in Nodes /\ m \in Nat \ {0}
        BY <2>1, NodesAre
      <4>2. 2 * m \in m + 1 .. top /\ 2 * m + 1 \in m + 1 .. top
        BY <1>0, <4>1
      <4> HIDE DEF S
      <4> QED
        BY <1>1, <4>2
    <3>2. Z(2 * m) /\ Z(2 * m + 1)
      BY <1>1, <2>1, BelowChild
    <3>3. T[m] = HashPair(T[2 * m], T[2 * m + 1]) /\ U[m] = HashPair(U[2 * m], U[2 * m + 1])
      BY <2>1, TrueDigestsAre
    <3> HIDE DEF Z, T, U
    <3>4. T[2 * m] = U[2 * m] /\ T[2 * m + 1] = U[2 * m + 1]
      BY <3>1, <3>2
    <3> QED
      BY <3>3, <3>4
  <2>2. CASE m \notin Inner
    <3>1. PICK p \in Pages : m = Leaf(p)
      BY <2>2, NodesAre
    <3>2. one[p] = two[p]
      BY <1>1, <3>1, LeafOnOwnPath
    <3> QED
      BY <3>1, <3>2, TrueDigestsAre
  <2> QED
    BY <2>1, <2>2
<1>2. \A m \in 1 .. top : m + 1 .. top \subseteq S => m \in S
  BY <1>0, <1>1
<1>3. 1 .. top \subseteq S
  <2> HIDE DEF S
  <2> QED
    BY <1>0, <1>2, InductionDown
<1>4. n \in S
  <2> HIDE DEF S
  <2> QED
    BY <1>0, <1>3
<1> QED
  BY <1>4

-----------------------------------------------------------------------------
(* fixupDigests                                                            *)

\* The nodes the climb recomputes are ancestors, and of each of them one child
\* is on the way down to idx and was recomputed before, and the other is known.
LEMMA RehashedChildren ==
  ASSUME NEW digests, NEW idx \in Nodes, NEW a \in Rehashed(digests, idx)
  PROVE  /\ a \in Inner /\ a \in Path(idx) /\ a # idx
         /\ \E c \in Path(idx) :
              /\ c > a /\ {c, Sibling(c)} = {2 * a, 2 * a + 1}
              /\ c = idx \/ c \in Rehashed(digests, idx)
              /\ Sibling(c) \in DOMAIN digests /\ Sibling(c) \notin Path(idx)
<1>1. a \in Path(idx) /\ a # idx
  BY DEF Rehashed
<1>2. PICK c \in Path(idx) : /\ c \in {2 * a, 2 * a + 1}
                             /\ \A b \in Path(idx) : b > a => b >= c
  BY <1>1, PathGoesOn
<1>3. a \in Inner
  BY <1>1, PathGoesOn
<1>4. a \in Nat \ {0} /\ c \in Nodes /\ c > a /\ c # 1 /\ c \div 2 = a
  BY <1>2, <1>3, NodesAre, PathInNodes
<1>5. {c, Sibling(c)} = {2 * a, 2 * a + 1}
  BY <1>4, Siblings
<1>6. Sibling(c) \in DOMAIN digests
  BY <1>4 DEF Rehashed
<1>7. Sibling(c) \notin Path(idx)
  <2>1. Sibling(c) # c
    BY <1>4, Siblings
  <2> QED
    BY <1>3, <1>5, <2>1, OneChildOnPath
<1>8. c = idx \/ c \in Rehashed(digests, idx)
  <2>1. \A n \in Path(idx) : n > c => n > a
    BY <1>4, PathInNodes, NodesAre
  <2> QED
    BY <2>1 DEF Rehashed
<1> QED
  BY <1>1, <1>3, <1>4, <1>5, <1>6, <1>7, <1>8

\* If idx has its true digest, and every known node the climb does not
\* recompute, then every known node has its true digest after the climb.
LEMMA FixupIsTrue ==
  ASSUME NEW memory, NEW digests, NEW idx \in Nodes,
         DOMAIN digests \subseteq Nodes, idx \in DOMAIN digests,
         \A n \in DOMAIN digests : n \notin Rehashed(digests, idx)
           => digests[n] = TrueDigests(memory)[n]
  PROVE  LET new == FixupDigests(digests, idx)
         IN  /\ DOMAIN new = DOMAIN digests \cup Rehashed(digests, idx)
             /\ \A n \in DOMAIN new : new[n] = TrueDigests(memory)[n]
<1> DEFINE T  == TrueDigests(memory)
           up == Rehashed(digests, idx)
           Child(f, c) == IF c \in up \cup {idx} THEN f[c] ELSE digests[c]
           Value(f, n) == IF n = idx THEN digests[idx]
                          ELSE HashPair(Child(f, 2 * n), Child(f, 2 * n + 1))
           Solves(f) == f = [n \in up \cup {idx} |-> Value(f, n)]
           climb == CHOOSE f : Solves(f)
           truth == [n \in up \cup {idx} |-> T[n]]
<1>1. \A a \in up : a \in Inner /\ a # idx /\ a \in Path(idx) /\ a \in Nat
  BY RehashedChildren, NodesAre
<1>2. digests[idx] = T[idx]
  BY DEF Rehashed
<1>3. \A a \in up : /\ T[a] = HashPair(T[2 * a], T[2 * a + 1])
                    /\ \A c \in {2 * a, 2 * a + 1} :
                         c \notin up \cup {idx} => digests[c] = T[c]
  <2> SUFFICES ASSUME NEW a \in up
               PROVE  \A c \in {2 * a, 2 * a + 1} :
                        c \notin up \cup {idx} => digests[c] = T[c]
    BY <1>1, TrueDigestsAre
  <2>1. PICK c \in Path(idx) : /\ {c, Sibling(c)} = {2 * a, 2 * a + 1}
                               /\ c = idx \/ c \in up
                               /\ Sibling(c) \in DOMAIN digests
    BY RehashedChildren
  <2> QED
    BY <2>1
<1>4. Solves(truth)
  <2>1. \A n \in up \cup {idx} : T[n] = Value(truth, n)
    <3> SUFFICES ASSUME NEW n \in up PROVE T[n] = Value(truth, n)
      BY <1>2
    <3>1. \A c \in {2 * n, 2 * n + 1} : Child(truth, c) = T[c]
      BY <1>3
    <3>2. n # idx
      BY <1>1
    <3> HIDE DEF Child, truth, T
    <3> QED
      BY <1>3, <3>1, <3>2
  <2> QED
    BY <2>1
<1>5. Solves(climb)
  <2> HIDE DEF Solves, truth
  <2> QED
    BY <1>4
<1>6. FixupDigests(digests, idx) =
        [n \in DOMAIN digests \cup up |-> IF n \in up THEN climb[n] ELSE digests[n]]
  BY DEF FixupDigests
<1> HIDE DEF climb
<1>7. \A n \in up \cup {idx} : climb[n] = Value(climb, n)
  BY <1>5
<1>8. \A n \in up \cup {idx} : climb[n] = T[n]
  <2> DEFINE wrong == {n \in up \cup {idx} : climb[n] # T[n]}
  <2> SUFFICES ASSUME wrong # {} PROVE FALSE
    OBVIOUS
  <2>1. wrong \subseteq Nat /\ idx \in Nat /\ \A n \in wrong : n <= idx
    <3>1. \A n \in up \cup {idx} : n \in Path(idx) /\ n \in Nat
      BY <1>1, OnOwnPath, NodesAre
    <3> QED
      BY <3>1, OnOwnPath, NodesAre
  <2>2. PICK n \in wrong : \A m \in wrong : m <= n
    <3> HIDE DEF wrong
    <3> QED
      BY <2>1, GreatestElement
  <2>3. n # idx
    BY <1>2, <1>7
  <2>4. n \in up /\ n \in Nat
    BY <2>1, <2>3
  <2>5. \A c \in {2 * n, 2 * n + 1} : c \in up \cup {idx} => climb[c] = T[c]
    <3> SUFFICES ASSUME NEW c \in {2 * n, 2 * n + 1}, c \in up \cup {idx}, climb[c] # T[c]
                 PROVE  FALSE
      OBVIOUS
    <3>1. c \in wrong
      OBVIOUS
    <3>2. n \in Nat \ {0}
      BY <1>1, <2>4, NodesAre
    <3>3. ~ (c <= n)
      BY <3>2
    <3> HIDE DEF wrong
    <3> QED
      BY <2>2, <3>1, <3>3
  <2>6. \A c \in {2 * n, 2 * n + 1} : Child(climb, c) = T[c]
    BY <1>3, <2>4, <2>5
  <2>7. climb[n] = HashPair(Child(climb, 2 * n), Child(climb, 2 * n + 1))
    BY <1>7, <2>3
  <2> HIDE DEF Child, T
  <2>8. climb[n] = T[n]
    BY <1>3, <2>4, <2>6, <2>7
  <2> QED
    BY <2>8
<1> HIDE DEF T
<1>9. \A n \in DOMAIN digests \cup up :
        (IF n \in up THEN climb[n] ELSE digests[n]) = T[n]
  BY <1>8 DEF T
<1> QED
  BY <1>6, <1>9 DEF T

-----------------------------------------------------------------------------
(* expandIfZero                                                            *)

\* Every known digest is that of the memory.
Sound(digests, memory) ==
  /\ DOMAIN digests \subseteq Nodes
  /\ \A n \in DOMAIN digests : digests[n] = TrueDigests(memory)[n]

\* The known node nearest to idx on its way to the root.
Nearest(digests, idx) == Max(Path(idx) \cap DOMAIN digests)

\* The nodes expandZero gives digests.
Fresh(digests, idx) ==
  LET new == {n \in Path(idx) : n > Nearest(digests, idx)}
  IN  new \cup {Sibling(n) : n \in new}

LEMMA NearestIs ==
  ASSUME NEW digests, NEW idx \in Nodes, Path(idx) \cap DOMAIN digests # {}
  PROVE  LET m == Nearest(digests, idx)
         IN  /\ m \in Path(idx) /\ m \in DOMAIN digests /\ m \in Nodes
             /\ \A n \in Path(idx) : n > m => n \notin DOMAIN digests
             /\ \A n \in Path(idx) : n \in DOMAIN digests => n <= m
<1> DEFINE K == Path(idx) \cap DOMAIN digests
<1>1. K # {} /\ K \subseteq Nat /\ idx \in Nat /\ \A n \in K : n <= idx
  BY PathInNodes, NodesAre, OnOwnPath
<1>2. PICK m \in K : \A n \in K : n <= m
  <2> HIDE DEF K
  <2> QED
    BY <1>1, GreatestElement
<1>3. \A n \in K : m >= n
  BY <1>1, <1>2
<1>4. Max(K) \in K /\ \A n \in K : Max(K) >= n
  BY <1>2, <1>3 DEF Max
<1>5. \A n \in K : n <= Max(K)
  BY <1>1, <1>4
<1>6. \A n \in Path(idx) : n > Max(K) => n \notin DOMAIN digests
  <2> SUFFICES ASSUME NEW n \in Path(idx), n > Max(K), n \in DOMAIN digests
               PROVE  FALSE
    OBVIOUS
  <2>1. n \in K /\ n \in Nat /\ Max(K) \in Nat
    BY <1>1, <1>4
  <2> HIDE DEF K
  <2> QED
    BY <1>5, <2>1
<1> QED
  BY <1>4, <1>5, <1>6, PathInNodes DEF Nearest

\* Nothing is added above or beside a node that is known.
LEMMA NearestToKnown ==
  ASSUME NEW digests, NEW idx \in Nodes, idx \in DOMAIN digests
  PROVE  Nearest(digests, idx) = idx /\ DOMAIN ExpandIfZero(digests, idx) = DOMAIN digests
<1> DEFINE m == Nearest(digests, idx)
<1>1. idx \in Path(idx) /\ idx \in Nat
  BY OnOwnPath, NodesAre
<1>2. m \in Path(idx) /\ m \in Nat /\ idx <= m /\ m <= idx
  BY <1>1, NearestIs, OnOwnPath, PathInNodes, NodesAre
<1>3. m = idx
  BY <1>1, <1>2
<1>4. \A n \in Path(idx) : ~ (n > m)
  BY <1>1, <1>3, OnOwnPath, PathInNodes, NodesAre
<1>5. DOMAIN ExpandZero(digests, idx) = DOMAIN digests
  BY <1>4 DEF ExpandZero, Nearest
<1> QED
  BY <1>3, <1>5 DEF ExpandIfZero

LEMMA FreshIs ==
  ASSUME NEW digests, NEW idx \in Nodes, Path(idx) \cap DOMAIN digests # {}
  PROVE  LET m == Nearest(digests, idx)
             S == Fresh(digests, idx)
         IN  /\ \A n \in S : /\ n \in Nodes /\ n # 1 /\ m \in Path(n)
                              /\ n \div 2 \in S \cup {m}
                              /\ Sibling(n) \in S
             /\ \A n \in Path(idx) : n > m => n \in S
             /\ idx \in S \cup {m}
<1> DEFINE m   == Nearest(digests, idx)
           new == {n \in Path(idx) : n > m}
           S   == Fresh(digests, idx)
<1>0. m \in Path(idx) /\ m \in Nodes /\ m \in Nat \ {0}
  BY NearestIs, NodesAre
<1> HIDE DEF m
<1>1. S = new \cup {Sibling(n) : n \in new}
  BY DEF Fresh, m
<1>2. \A n \in new : /\ n \in Nodes /\ n # 1
                     /\ m \in Path(n \div 2) /\ n \div 2 \in Path(idx)
                     /\ n \div 2 \in new \cup {m}
  <2> SUFFICES ASSUME NEW n \in new
               PROVE  /\ n \in Nodes /\ n # 1
                      /\ m \in Path(n \div 2) /\ n \div 2 \in Path(idx)
                      /\ n \div 2 \in new \cup {m}
    OBVIOUS
  <2>1. n \in Nodes /\ n \in Nat /\ n > m /\ n # 1
    BY <1>0, PathInNodes, NodesAre
  <2>2. m \in Path(n)
    BY <1>0, <2>1, PathIsChain
  <2>3. m \in Path(n \div 2) /\ n \div 2 \in Nodes
    BY <1>0, <2>1, <2>2, PathStep, NodesAre
  <2>4. n \div 2 \in Path(n)
    BY <2>1, <2>3, PathStep, OnOwnPath
  <2>5. n \div 2 \in Path(idx)
    BY <2>4, PathIsChain
  <2>6. m <= n \div 2 /\ n \div 2 \in Nat
    BY <2>3, OnOwnPath, NodesAre
  <2> QED
    BY <1>0, <2>1, <2>3, <2>5, <2>6
<1>3. \A n \in new : /\ Sibling(n) \in Nodes /\ Sibling(n) # 1
                     /\ Sibling(n) \div 2 = n \div 2 /\ Sibling(Sibling(n)) = n
  BY <1>2, Siblings
<1> HIDE DEF S, new
<1>4. \A n \in S : /\ n \in Nodes /\ n # 1
                   /\ n \div 2 \in new \cup {m} /\ m \in Path(n \div 2)
                   /\ Sibling(n) \in S
  BY <1>1, <1>2, <1>3
<1>5. \A n \in S : m \in Path(n)
  BY <1>4, PathStep
<1>6. idx \in new \cup {m}
  <2>1. idx \in Path(idx) /\ m <= idx /\ idx \in Nat
    BY <1>0, OnOwnPath, NodesAre
  <2> QED
    BY <1>0, <2>1 DEF new
<1> QED
  BY <1>1, <1>4, <1>5, <1>6 DEF S, new, m

\* Expanding gives every new node the zero digest, which is its true digest,
\* and leaves the others alone.
LEMMA ExpandIsTrue ==
  ASSUME NEW memory \in [Pages -> PageData], NEW digests, Sound(digests, memory),
         NEW idx \in Nodes
  PROVE  LET new   == ExpandIfZero(digests, idx)
             fresh == Fresh(digests, idx)
         IN  /\ Sound(new, memory)
             /\ ~ IsZero(digests, idx) => new = digests
             /\ IsZero(digests, idx) =>
                  /\ Path(idx) \cap DOMAIN digests # {}
                  /\ DOMAIN new = DOMAIN digests \cup fresh
                  /\ \A n \in fresh :
                       TrueDigests(memory)[n] = ZeroDigests[DepthOf(n)]
                  /\ \A p \in Pages : idx \in Path(Leaf(p)) => memory[p] = ZeroPage
<1> DEFINE m     == Nearest(digests, idx)
           fresh == Fresh(digests, idx)
           T     == TrueDigests(memory)
<1> SUFFICES ASSUME IsZero(digests, idx)
             PROVE  LET new == ExpandIfZero(digests, idx)
                    IN  /\ Sound(new, memory)
                        /\ Path(idx) \cap DOMAIN digests # {}
                        /\ DOMAIN new = DOMAIN digests \cup fresh
                        /\ \A n \in fresh : T[n] = ZeroDigests[DepthOf(n)]
                        /\ \A p \in Pages : idx \in Path(Leaf(p)) => memory[p] = ZeroPage
  BY DEF ExpandIfZero
<1>1. Path(idx) \cap DOMAIN digests # {} /\ digests[m] = ZeroDigests[DepthOf(m)]
  BY DEF IsZero, Nearest
<1>2. m \in DOMAIN digests /\ m \in Nodes /\ m \in Path(idx)
  BY <1>1, NearestIs
<1>3. T[m] = ZeroDigests[DepthOf(m)]
  BY <1>1, <1>2 DEF Sound
<1>4. \A n \in fresh : n \in Nodes /\ m \in Path(n)
  BY <1>1, FreshIs
<1>5. ExpandIfZero(digests, idx) =
        [n \in DOMAIN digests \cup fresh |->
           IF n \in fresh THEN ZeroDigests[DepthOf(n)] ELSE digests[n]]
  BY DEF ExpandIfZero, ExpandZero, Fresh, Nearest
<1> HIDE DEF fresh, m
<1>6. \A n \in fresh : T[n] = ZeroDigests[DepthOf(n)]
  BY <1>2, <1>3, <1>4, ZeroBelow
<1>7. \A p \in Pages : idx \in Path(Leaf(p)) => memory[p] = ZeroPage
  BY <1>2, <1>3, ZeroBelow
<1>8. Sound(ExpandIfZero(digests, idx), memory)
  BY <1>4, <1>5, <1>6 DEF Sound
<1> QED
  BY <1>1, <1>5, <1>6, <1>7, <1>8

-----------------------------------------------------------------------------
(* Images that know their whole memory                                     *)

\* A tree of true digests that can reach every node: with a node it knows the
\* nodes above it and their siblings, and where it stops above the leaves the
\* subtree is zero.
Tree(digests, memory) ==
  /\ Sound(digests, memory)
  /\ 1 \in DOMAIN digests
  /\ \A n \in DOMAIN digests : n # 1 => /\ n \div 2 \in DOMAIN digests
                                        /\ Sibling(n) \in DOMAIN digests
  /\ \A n \in Inner : n \in DOMAIN digests /\ 2 * n \notin DOMAIN digests
       => TrueDigests(memory)[n] = ZeroDigests[DepthOf(n)]

\* An image that describes the memory and can supply all of it.
Whole(img, memory) ==
  /\ img = [digests |-> img.digests, pages |-> img.pages]
  /\ Tree(img.digests, memory)
  /\ DOMAIN img.pages \subseteq Pages
  /\ \A p \in DOMAIN img.pages : img.pages[p] = memory[p]
  /\ \A p \in Pages : Leaf(p) \in DOMAIN img.digests /\ p \notin DOMAIN img.pages
       => TrueDigests(memory)[Leaf(p)] = ZeroDigests[DepthOf(Leaf(p))]

\* Above a known node every node is known.
LEMMA TreeHasPaths ==
  ASSUME NEW memory, NEW digests, Tree(digests, memory), NEW n \in DOMAIN digests
  PROVE  Path(n) \subseteq DOMAIN digests
<1> DEFINE missing == {a \in Path(n) : a \notin DOMAIN digests}
<1> SUFFICES ASSUME missing # {} PROVE FALSE
  OBVIOUS
<1>0. n \in Nodes
  BY DEF Tree, Sound
<1>1. missing \subseteq Nat /\ n \in Nat /\ \A a \in missing : a <= n
  BY <1>0, PathInNodes, NodesAre, OnOwnPath
<1>2. PICK a \in missing : \A b \in missing : b <= a
  <2> HIDE DEF missing
  <2> QED
    BY <1>1, GreatestElement
<1>3. a # n /\ a \in Path(n)
  OBVIOUS
<1>4. PICK c \in Path(n) : c \in {2 * a, 2 * a + 1}
  BY <1>0, <1>3, PathGoesOn
<1>5. a \in Inner /\ a \in Nat \ {0}
  BY <1>0, <1>3, PathGoesOn, NodesAre
<1>6. c > a /\ c # 1 /\ c \div 2 = a
  BY <1>4, <1>5
<1>7. c \notin missing
  <2>1. ~ (c <= a)
    BY <1>4, <1>5
  <2> HIDE DEF missing
  <2> QED
    BY <1>2, <2>1
<1>8. c \in DOMAIN digests
  BY <1>7
<1>9. a \in DOMAIN digests
  BY <1>6, <1>8 DEF Tree
<1> QED
  BY <1>2, <1>9

\* Every node is known or lies in a subtree known to be zero.
LEMMA TreeReaches ==
  ASSUME NEW memory, NEW digests, Tree(digests, memory), NEW idx \in Nodes
  PROVE  /\ Path(idx) \cap DOMAIN digests # {}
         /\ idx \in DOMAIN digests \/ IsZero(digests, idx)
         /\ idx \in DOMAIN ExpandIfZero(digests, idx)
<1> DEFINE m == Nearest(digests, idx)
<1>1. Path(idx) \cap DOMAIN digests # {}
  BY OnOwnPath DEF Tree
<1>2. /\ m \in Path(idx) /\ m \in DOMAIN digests /\ m \in Nodes
      /\ \A n \in Path(idx) : n > m => n \notin DOMAIN digests
  BY <1>1, NearestIs
<1> HIDE DEF m
<1>3. ASSUME idx \notin DOMAIN digests PROVE IsZero(digests, idx)
  <2>1. m # idx
    BY <1>2, <1>3
  <2>2. PICK c \in Path(idx) : c \in {2 * m, 2 * m + 1}
    BY <1>2, <2>1, PathGoesOn
  <2>3. m \in Inner /\ m \in Nat \ {0} /\ c \in Nodes
    BY <1>2, <2>1, PathGoesOn, NodesAre, PathInNodes
  <2>4. c > m /\ c # 1 /\ c \div 2 = m
    BY <2>2, <2>3
  <2>5. c \notin DOMAIN digests
    BY <1>2, <2>4
  <2>6. 2 * m \notin DOMAIN digests
    <3>1. 2 * m \in Nodes /\ 2 * m # 1
      BY <2>3, NodesAre
    <3>2. Sibling(2 * m) = 2 * m + 1
      <4>1. (2 * m) % 2 = 0
        BY <2>3
      <4> QED
        BY <4>1 DEF Sibling
    <3> QED
      BY <2>2, <2>5, <3>1, <3>2 DEF Tree
  <2>7. TrueDigests(memory)[m] = ZeroDigests[DepthOf(m)]
    BY <1>2, <2>3, <2>6 DEF Tree
  <2> QED
    BY <1>1, <1>2, <2>7 DEF IsZero, Tree, Sound, Nearest, m
<1>4. idx \in DOMAIN ExpandIfZero(digests, idx)
  <2>1. CASE ~ IsZero(digests, idx)
    BY <1>3, <2>1 DEF ExpandIfZero
  <2>2. CASE IsZero(digests, idx)
    <3>1. DOMAIN ExpandIfZero(digests, idx) = DOMAIN digests \cup Fresh(digests, idx)
      BY <2>2 DEF ExpandIfZero, ExpandZero, Fresh, Nearest
    <3>2. idx \in Fresh(digests, idx) \cup {m}
      BY <1>1, FreshIs DEF m
    <3> QED
      BY <1>2, <3>1, <3>2
  <2> QED
    BY <2>1, <2>2
<1> QED
  BY <1>1, <1>3, <1>4

\* Expanding keeps a tree a tree; the nodes it adds are zero.
LEMMA TreeExpands ==
  ASSUME NEW memory \in [Pages -> PageData], NEW digests, Tree(digests, memory),
         NEW idx \in Nodes
  PROVE  LET new == ExpandIfZero(digests, idx)
         IN  /\ Tree(new, memory) /\ idx \in DOMAIN new
             /\ DOMAIN digests \subseteq DOMAIN new
             /\ \A n \in DOMAIN new : n \notin DOMAIN digests
                  => TrueDigests(memory)[n] = ZeroDigests[DepthOf(n)]
<1> DEFINE new   == ExpandIfZero(digests, idx)
           fresh == Fresh(digests, idx)
           m     == Nearest(digests, idx)
<1>0. Sound(digests, memory)
  BY DEF Tree
<1>1. CASE ~ IsZero(digests, idx)
  BY <1>1, TreeReaches DEF ExpandIfZero
<1>2. CASE IsZero(digests, idx)
  <2>1. /\ Sound(new, memory) /\ DOMAIN new = DOMAIN digests \cup fresh
        /\ Path(idx) \cap DOMAIN digests # {}
        /\ \A n \in fresh : TrueDigests(memory)[n] = ZeroDigests[DepthOf(n)]
    BY <1>0, <1>2, ExpandIsTrue
  <2>2. /\ m \in DOMAIN digests
        /\ \A n \in fresh : n \div 2 \in fresh \cup {m} /\ Sibling(n) \in fresh
    BY <2>1, NearestIs, FreshIs
  <2>3. idx \in DOMAIN new
    BY TreeReaches
  <2> HIDE DEF new, fresh, m
  <2>4. Tree(new, memory)
    BY <2>1, <2>2 DEF Tree
  <2> QED
    BY <2>1, <2>3, <2>4 DEF new
<1> QED
  BY <1>1, <1>2

\* getDigest finds every digest.
LEMMA WholeHasDigests ==
  ASSUME NEW memory \in [Pages -> PageData], NEW img, Whole(img, memory),
         NEW idx \in Nodes
  PROVE  /\ HasDigest(img, idx)
         /\ DigestAt(img, idx) = TrueDigests(memory)[idx]
         /\ Whole(AskDigest(img, idx), memory)
<1> DEFINE new == ExpandIfZero(img.digests, idx)
<1>1. /\ Tree(new, memory) /\ idx \in DOMAIN new
      /\ \A n \in DOMAIN new : n \notin DOMAIN img.digests
           => TrueDigests(memory)[n] = ZeroDigests[DepthOf(n)]
  BY TreeExpands DEF Whole
<1>2. AskDigest(img, idx) = [digests |-> new, pages |-> img.pages]
  BY DEF AskDigest, Whole
<1> HIDE DEF new
<1>3. new[idx] = TrueDigests(memory)[idx]
  BY <1>1 DEF Tree, Sound
<1>4. Whole(AskDigest(img, idx), memory)
  BY <1>1, <1>2 DEF Whole
<1>5. HasDigest(img, idx)
  BY <1>1 DEF HasDigest, new
<1> QED
  BY <1>2, <1>3, <1>4, <1>5 DEF DigestAt

\* getPage finds every page, the zero ones it does not hold included.
LEMMA WholeHasPages ==
  ASSUME NEW memory \in [Pages -> PageData], NEW img, Whole(img, memory),
         NEW p \in Pages
  PROVE  /\ HasPage(img, p)
         /\ PageAt(img, p) = memory[p]
         /\ Whole(AskPage(img, p), memory)
<1> DEFINE dig == img.digests
           new == ExpandZero(dig, Leaf(p))
<1>0. /\ img = [digests |-> dig, pages |-> img.pages]
      /\ Tree(dig, memory) /\ Leaf(p) \in Nodes /\ Sound(dig, memory)
  BY LeafIsNode DEF Whole, Tree
<1>1. CASE p \in DOMAIN img.pages
  <2>1. AskPage(img, p) = img
    BY <1>1 DEF AskPage
  <2> QED
    BY <1>1, <2>1 DEF HasPage, PageAt, Whole
<1>2. CASE p \notin DOMAIN img.pages
  <2>1. IsZero(dig, Leaf(p))
    <3>1. CASE Leaf(p) \in DOMAIN dig
      <4>1. TrueDigests(memory)[Leaf(p)] = ZeroDigests[DepthOf(Leaf(p))]
        BY <1>2, <3>1 DEF Whole
      <4>2. Path(Leaf(p)) \cap DOMAIN dig # {}
        BY <3>1, LeafOnOwnPath
      <4>3. Nearest(dig, Leaf(p)) = Leaf(p)
        BY <1>0, <3>1, NearestToKnown
      <4> QED
        BY <1>0, <3>1, <4>1, <4>2, <4>3 DEF IsZero, Nearest, Sound
    <3>2. CASE Leaf(p) \notin DOMAIN dig
      BY <1>0, <3>2, TreeReaches
    <3> QED
      BY <3>1, <3>2
  <2>2. new = ExpandIfZero(dig, Leaf(p))
    BY <2>1 DEF ExpandIfZero
  <2>3. /\ Tree(new, memory) /\ Leaf(p) \in DOMAIN new
        /\ DOMAIN dig \subseteq DOMAIN new
        /\ \A n \in DOMAIN new : n \notin DOMAIN dig
             => TrueDigests(memory)[n] = ZeroDigests[DepthOf(n)]
    BY <1>0, <2>2, TreeExpands
  <2>4. memory[p] = ZeroPage
    BY <1>0, <2>1, ExpandIsTrue, LeafOnOwnPath
  <2>5. AskPage(img, p) = [digests |-> new, pages |-> With(img.pages, p, ZeroPage)]
    BY <1>2, <2>1 DEF AskPage
  <2>6. /\ DOMAIN With(img.pages, p, ZeroPage) = DOMAIN img.pages \cup {p}
        /\ \A q \in DOMAIN img.pages \cup {p} :
             With(img.pages, p, ZeroPage)[q] = IF q = p THEN ZeroPage ELSE img.pages[q]
    BY DEF With
  <2> HIDE DEF new
  <2>7. Whole(AskPage(img, p), memory)
    BY <1>0, <2>3, <2>4, <2>5, <2>6 DEF Whole
  <2>8. PageAt(img, p) = memory[p]
    BY <2>4, <2>5, <2>6 DEF PageAt
  <2> QED
    BY <2>1, <2>7, <2>8 DEF HasPage
<1> QED
  BY <1>1, <1>2

\* What such an image supplies to a pager is the memory.
LEMMA WholeSupplies ==
  ASSUME NEW memory \in [Pages -> PageData], NEW img, Whole(img, memory)
  PROVE  Supplied(img) = memory
<1>1. {q \in Pages : HasPage(img, q)} = Pages
  BY WholeHasPages
<1>2. \A p \in Pages : PageAt(img, p) = memory[p]
  BY WholeHasPages
<1> QED
  BY <1>1, <1>2 DEF Supplied

\* A page written to its leaf, in a tree that knows the way to the root and
\* the siblings along it: every digest follows.
LEMMA OverwriteIsTrue ==
  ASSUME NEW memory \in [Pages -> PageData], NEW digests, Sound(digests, memory),
         NEW p \in Pages, NEW data,
         \A n \in Path(Leaf(p)) : /\ n \in DOMAIN digests
                                  /\ n # 1 => Sibling(n) \in DOMAIN digests
  PROVE  LET new == FixupDigests(With(digests, Leaf(p), HashPage(data)), Leaf(p))
         IN  /\ DOMAIN new = DOMAIN digests
             /\ Sound(new, [memory EXCEPT ![p] = data])
<1> DEFINE put    == With(digests, Leaf(p), HashPage(data))
           after  == [memory EXCEPT ![p] = data]
           new    == FixupDigests(put, Leaf(p))
<1>0. Leaf(p) \in Nodes /\ Leaf(p) \in Path(Leaf(p))
  BY LeafIsNode, LeafOnOwnPath
<1>1. /\ DOMAIN put = DOMAIN digests
      /\ put[Leaf(p)] = HashPage(data)
      /\ \A n \in DOMAIN digests : n # Leaf(p) => put[n] = digests[n]
  BY <1>0 DEF With
<1>2. DOMAIN digests \subseteq Nodes
  BY DEF Sound
<1> HIDE DEF put
<1>3. Rehashed(put, Leaf(p)) = Path(Leaf(p)) \ {Leaf(p)}
  <2>1. \A a \in Path(Leaf(p)), n \in Path(Leaf(p)) :
          n > a => Sibling(n) \in DOMAIN put
    <3> SUFFICES ASSUME NEW a \in Path(Leaf(p)), NEW n \in Path(Leaf(p)), n > a
                 PROVE  Sibling(n) \in DOMAIN put
      OBVIOUS
    <3>1. a \in Nat \ {0} /\ n \in Nat
      BY PathInNodes, NodesAre
    <3>2. n # 1
      BY <3>1
    <3> QED
      BY <1>1, <3>2
  <2> QED
    BY <2>1 DEF Rehashed
<1>4. \A q \in Pages : q # p => after[q] = memory[q]
  OBVIOUS
<1>5. after[p] = data
  OBVIOUS
<1> HIDE DEF after
<1>6. \A n \in DOMAIN put : n \notin Rehashed(put, Leaf(p))
        => put[n] = TrueDigests(after)[n]
  <2> SUFFICES ASSUME NEW n \in DOMAIN put, n \notin Rehashed(put, Leaf(p))
               PROVE  put[n] = TrueDigests(after)[n]
    OBVIOUS
  <2>1. CASE n = Leaf(p)
    BY <1>1, <1>5, <2>1, TrueDigestsAre
  <2>2. CASE n # Leaf(p)
    <3>1. n \notin Path(Leaf(p)) /\ n \in Nodes /\ n \in DOMAIN digests
      BY <1>1, <1>2, <1>3, <2>2
    <3>2. \A q \in Pages : n \in Path(Leaf(q)) => memory[q] = after[q]
      BY <1>4, <3>1
    <3>3. TrueDigests(memory)[n] = TrueDigests(after)[n]
      BY <3>1, <3>2, DigestsAgree
    <3> QED
      BY <1>1, <2>2, <3>1, <3>3 DEF Sound
  <2> QED
    BY <2>1, <2>2
<1>7. /\ DOMAIN new = DOMAIN put \cup Rehashed(put, Leaf(p))
      /\ \A n \in DOMAIN new : new[n] = TrueDigests(after)[n]
  BY <1>0, <1>1, <1>2, <1>6, FixupIsTrue
<1> HIDE DEF new
<1>8. DOMAIN new = DOMAIN digests
  BY <1>1, <1>3, <1>7
<1>9. Sound(new, after)
  BY <1>2, <1>7, <1>8 DEF Sound
<1> QED
  BY <1>8, <1>9 DEF new, put, after

LEMMA SetPageIs ==
  ASSUME NEW img, img = [digests |-> img.digests, pages |-> img.pages],
         NEW p, NEW data
  PROVE  SetPage(img, p, data) =
           [digests |-> FixupDigests(With(ExpandIfZero(img.digests, Leaf(p)),
                                          Leaf(p), HashPage(data)), Leaf(p)),
            pages   |-> With(img.pages, p, data)]
<1> DEFINE dig == FixupDigests(With(ExpandIfZero(img.digests, Leaf(p)),
                                    Leaf(p), HashPage(data)), Leaf(p))
<1>1. SetDigest(img, Leaf(p), HashPage(data)) = [digests |-> dig, pages |-> img.pages]
  BY DEF SetDigest
<1> HIDE DEF dig
<1>2. SetPage(img, p, data) = [digests |-> dig, pages |-> With(img.pages, p, data)]
  BY <1>1 DEF SetPage
<1> QED
  BY <1>2 DEF dig

\* setPage keeps the image whole, over the memory with the page written.
LEMMA WholeSetPage ==
  ASSUME NEW memory \in [Pages -> PageData], NEW img, Whole(img, memory),
         NEW p \in Pages, NEW data \in PageData
  PROVE  Whole(SetPage(img, p, data), [memory EXCEPT ![p] = data])
<1> DEFINE mid   == ExpandIfZero(img.digests, Leaf(p))
           new   == FixupDigests(With(mid, Leaf(p), HashPage(data)), Leaf(p))
           pages == With(img.pages, p, data)
           after == [memory EXCEPT ![p] = data]
<1>0. /\ img = [digests |-> img.digests, pages |-> img.pages]
      /\ Tree(img.digests, memory) /\ Leaf(p) \in Nodes
      /\ DOMAIN img.pages \subseteq Pages
      /\ \A q \in DOMAIN img.pages : img.pages[q] = memory[q]
  BY LeafIsNode DEF Whole
<1>1. SetPage(img, p, data) = [digests |-> new, pages |-> pages]
  BY <1>0, SetPageIs
<1>2. /\ Tree(mid, memory) /\ Leaf(p) \in DOMAIN mid
      /\ \A n \in DOMAIN mid : n \notin DOMAIN img.digests
           => TrueDigests(memory)[n] = ZeroDigests[DepthOf(n)]
  BY <1>0, TreeExpands
<1>3. /\ DOMAIN pages = DOMAIN img.pages \cup {p}
      /\ \A q \in DOMAIN pages : pages[q] = IF q = p THEN data ELSE img.pages[q]
  BY DEF With
<1> HIDE DEF mid, pages
<1>4. Sound(mid, memory) /\ DOMAIN mid \subseteq Nodes
  BY <1>2 DEF Tree, Sound
<1>5. Path(Leaf(p)) \subseteq DOMAIN mid
  BY <1>2, TreeHasPaths
<1>6. \A n \in Path(Leaf(p)) : n # 1 => Sibling(n) \in DOMAIN mid
  BY <1>2, <1>5 DEF Tree
<1>7. DOMAIN new = DOMAIN mid /\ Sound(new, after)
  BY <1>4, <1>5, <1>6, OverwriteIsTrue
<1>8. \A q \in Pages : after[q] = IF q = p THEN data ELSE memory[q]
  OBVIOUS
<1> HIDE DEF new, after
<1>9. \A n \in Nodes : n \notin Path(Leaf(p))
        => TrueDigests(after)[n] = TrueDigests(memory)[n]
  <2> SUFFICES ASSUME NEW n \in Nodes, n \notin Path(Leaf(p))
               PROVE  TrueDigests(after)[n] = TrueDigests(memory)[n]
    OBVIOUS
  <2>1. \A q \in Pages : n \in Path(Leaf(q)) => after[q] = memory[q]
    BY <1>8
  <2> QED
    BY <2>1, DigestsAgree
<1>10. \A n \in Inner : n \in DOMAIN new /\ 2 * n \notin DOMAIN new
         => TrueDigests(after)[n] = ZeroDigests[DepthOf(n)]
  <2> SUFFICES ASSUME NEW n \in Inner, n \in DOMAIN new, 2 * n \notin DOMAIN new
               PROVE  TrueDigests(after)[n] = ZeroDigests[DepthOf(n)]
    OBVIOUS
  <2>1. n \notin Path(Leaf(p))
    <3> SUFFICES ASSUME n \in Path(Leaf(p)) PROVE FALSE
      OBVIOUS
    <3>1. n # Leaf(p)
      BY LeafIsNode
    <3>2. PICK c \in Path(Leaf(p)) : c \in {2 * n, 2 * n + 1}
      BY <1>0, <3>1, PathGoesOn
    <3>3. n \in Nat \ {0} /\ c \in Nodes
      BY NodesAre, PathInNodes
    <3>4. c # 1 /\ c \div 2 = n
      BY <3>2, <3>3
    <3>5. c \in DOMAIN mid /\ Sibling(c) \in DOMAIN mid
      BY <1>5, <1>6, <3>4
    <3>6. {c, Sibling(c)} = {2 * n, 2 * n + 1}
      BY <3>3, <3>4, Siblings
    <3> QED
      BY <1>7, <3>5, <3>6
  <2>2. TrueDigests(memory)[n] = ZeroDigests[DepthOf(n)]
    BY <1>2, <1>7 DEF Tree
  <2> QED
    BY <1>9, <2>1, <2>2, NodesAre
<1>11. Tree(new, after)
  BY <1>2, <1>7, <1>10 DEF Tree
<1>12. ASSUME NEW q \in Pages, Leaf(q) \in DOMAIN new, q \notin DOMAIN pages
       PROVE  TrueDigests(after)[Leaf(q)] = ZeroDigests[DepthOf(Leaf(q))]
  <2>1. q # p /\ q \notin DOMAIN img.pages /\ Leaf(q) \in DOMAIN mid
    BY <1>3, <1>7, <1>12
  <2>2. TrueDigests(memory)[Leaf(q)] = ZeroDigests[DepthOf(Leaf(q))]
    BY <1>2, <2>1 DEF Whole
  <2>3. TrueDigests(after)[Leaf(q)] = TrueDigests(memory)[Leaf(q)]
    BY <1>8, <2>1, TrueDigestsAre
  <2> QED
    BY <2>2, <2>3
<1>13. \A q \in DOMAIN pages : pages[q] = after[q]
  BY <1>0, <1>3, <1>8
<1>14. DOMAIN pages \subseteq Pages
  BY <1>0, <1>3
<1>15. Whole(SetPage(img, p, data), after)
  BY <1>1, <1>11, <1>12, <1>13, <1>14 DEF Whole
<1> QED
  BY <1>15 DEF after

-----------------------------------------------------------------------------
(* fromWords                                                               *)

ZeroMemory == [p \in Pages |-> ZeroPage]

LEMMA ZeroImageIsWhole == Whole(ZeroImage, ZeroMemory)
<1>1. /\ ZeroImage = [digests |-> ZeroImage.digests, pages |-> ZeroImage.pages]
      /\ ZeroImage.digests = [n \in {1} |-> ZeroDigests[0]]
      /\ ZeroImage.pages = [p \in {} |-> 0]
  BY DEF ZeroImage, UnknownImage
<1> HIDE DEF ZeroImage
<1>2. 1 \in Nodes /\ TrueDigests(ZeroMemory)[1] = ZeroDigests[0]
  BY NodesAre, ZeroSubtree, Depths DEF ZeroMemory
<1>3. \A n \in Nodes : TrueDigests(ZeroMemory)[n] = ZeroDigests[DepthOf(n)]
  BY ZeroSubtree DEF ZeroMemory
<1>4. Tree(ZeroImage.digests, ZeroMemory)
  BY <1>1, <1>2, <1>3, NodesAre DEF Tree, Sound
<1> QED
  BY <1>1, <1>3, <1>4, LeafIsNode DEF Whole

\* The memory a map of words stands for.
Filled(words) ==
  [p \in Pages |-> [o \in Offsets |->
     IF p * PAGE_SIZE_WORDS + o \in DOMAIN words
     THEN words[p * PAGE_SIZE_WORDS + o] ELSE ZeroPage[o]]]

\* The image fromWords builds knows the memory its words stand for: whatever
\* pages they touch, the others are zero subtrees.
LEMMA FromWordsIsWhole ==
  ASSUME NEW W \in SUBSET Nat, NEW words \in [W -> Val]
  PROVE  /\ Filled(words) \in [Pages -> PageData]
         /\ Whole(FromWords(words), Filled(words))
<1> DEFINE M       == MEMORY_SIZE_PAGES
           touched == {PageOf(w) : w \in DOMAIN words}
           data(p) == [o \in Offsets |->
                         IF p * PAGE_SIZE_WORDS + o \in DOMAIN words
                         THEN words[p * PAGE_SIZE_WORDS + o] ELSE ZeroPage[o]]
           Value(f, n) == IF n = 0 THEN ZeroImage
                          ELSE IF n - 1 \in touched
                          THEN SetPage(f[n - 1], n - 1, data(n - 1))
                          ELSE f[n - 1]
           Memory(n) == [p \in Pages |-> IF p < n THEN data(p) ELSE ZeroPage]
           S == {m \in 0 .. M : \E f : /\ f = [n \in 0 .. m |-> f[n]]
                                      /\ \A n \in 0 .. m : f[n] = Value(f, n)}
<1>0. M \in Nat \ {0} /\ Pages = 0 .. M - 1
  BY Geometry DEF Pages
<1>1. \A p \in Pages : data(p) \in PageData
  BY ZeroPageAssumption DEF PageData
<1>2. \A p \in Pages : p \notin touched => data(p) = ZeroPage
  <2> SUFFICES ASSUME NEW p \in Pages, p \notin touched PROVE data(p) = ZeroPage
    OBVIOUS
  <2>1. \A o \in Offsets : PageOf(p * PAGE_SIZE_WORDS + o) = p
    BY <1>0, WordOfPage
  <2>2. \A o \in Offsets : p * PAGE_SIZE_WORDS + o \notin DOMAIN words
    BY <2>1
  <2>3. data(p) = [o \in Offsets |-> ZeroPage[o]]
    BY <2>2
  <2> QED
    BY <2>3, ZeroPageAssumption DEF PageData
<1> HIDE DEF touched, data
<1>3. \A m \in 0 .. M : 0 .. m - 1 \subseteq S => m \in S
  <2> SUFFICES ASSUME NEW m \in 0 .. M, 0 .. m - 1 \subseteq S
               PROVE  m \in S
    OBVIOUS
  <2>1. CASE m = 0
    <3> DEFINE g == [n \in 0 .. m |-> ZeroImage]
    <3>1. g = [n \in 0 .. m |-> g[n]] /\ \A n \in 0 .. m : g[n] = Value(g, n)
      BY <2>1
    <3> HIDE DEF g, Value
    <3> QED
      BY <3>1
  <2>2. CASE m # 0
    <3>0. m - 1 \in 0 .. m - 1 /\ m \in Nat
      BY <1>0, <2>2
    <3>1. m - 1 \in S
      <4> HIDE DEF S
      <4> QED
        BY <3>0
    <3>2. PICK f : /\ f = [n \in 0 .. m - 1 |-> f[n]]
                   /\ \A n \in 0 .. m - 1 : f[n] = Value(f, n)
      BY <3>1
    <3> DEFINE g == [n \in 0 .. m |-> IF n = m THEN Value(f, m) ELSE f[n]]
    <3>3. g = [n \in 0 .. m |-> g[n]]
      OBVIOUS
    <3>4. \A n \in 0 .. m : g[n] = Value(g, n)
      <4> SUFFICES ASSUME NEW n \in 0 .. m PROVE g[n] = Value(g, n)
        OBVIOUS
      <4>1. n # 0 => n - 1 \in 0 .. m /\ n - 1 # m
        BY <3>0
      <4>2. n # 0 => g[n - 1] = f[n - 1]
        BY <4>1
      <4>3. Value(g, n) = Value(f, n)
        <5> HIDE DEF g
        <5> QED
          BY <4>2
      <4>4. n # m => n \in 0 .. m - 1
        BY <3>0
      <4>5. g[n] = IF n = m THEN Value(f, m) ELSE f[n]
        OBVIOUS
      <4> HIDE DEF g, Value
      <4> QED
        BY <3>2, <4>3, <4>4, <4>5
    <3> HIDE DEF g, Value
    <3> QED
      BY <3>3, <3>4
  <2> QED
    BY <2>1, <2>2
<1>4. M \in S
  <2> HIDE DEF S
  <2>1. 0 .. M \subseteq S
    BY <1>0, <1>3, InductionUp
  <2> QED
    BY <1>0, <2>1
<1>5. PICK g : g = [n \in 0 .. M |-> g[n]] /\ \A n \in 0 .. M : g[n] = Value(g, n)
  BY <1>4
<1>6. g = [n \in 0 .. M |-> Value(g, n)]
  BY <1>5
<1> DEFINE step == CHOOSE f : f = [n \in 0 .. M |-> Value(f, n)]
<1>7. step = [n \in 0 .. M |-> Value(step, n)]
  <2> HIDE DEF Value
  <2> QED
    BY <1>6
<1>8. FromWords(words) = step[M]
  BY DEF FromWords, touched, data
<1> HIDE DEF step
<1>9. \A n \in 0 .. M : step[n] = Value(step, n)
  BY <1>7
<1> DEFINE R == {n \in 0 .. M : Whole(step[n], Memory(n))}
<1>10. \A n \in 0 .. M : 0 .. n - 1 \subseteq R => n \in R
  <2> SUFFICES ASSUME NEW n \in 0 .. M, 0 .. n - 1 \subseteq R
               PROVE  Whole(step[n], Memory(n))
    OBVIOUS
  <2>1. CASE n = 0
    <3>1. step[n] = ZeroImage
      BY <1>9, <2>1
    <3>2. Memory(n) = ZeroMemory
      BY <1>0, <2>1 DEF ZeroMemory
    <3> QED
      BY <3>1, <3>2, ZeroImageIsWhole
  <2>2. CASE n # 0
    <3>0. n - 1 \in 0 .. n - 1 /\ n - 1 \in Pages /\ n \in Nat
      BY <1>0, <2>2
    <3>1. Whole(step[n - 1], Memory(n - 1))
      <4>1. n - 1 \in R
        <5> HIDE DEF R
        <5> QED
          BY <3>0
      <4> QED
        BY <4>1
    <3>2. Memory(n) = [Memory(n - 1) EXCEPT ![n - 1] = data(n - 1)]
      <4>1. \A p \in Pages : p < n <=> p < n - 1 \/ p = n - 1
        BY <1>0, <3>0
      <4> QED
        BY <3>0, <4>1
    <3>3. Memory(n - 1) \in [Pages -> PageData]
      BY <1>1, ZeroPageAssumption
    <3>4. CASE n - 1 \in touched
      <4>1. step[n] = SetPage(step[n - 1], n - 1, data(n - 1))
        BY <1>9, <2>2, <3>4
      <4> HIDE DEF Memory
      <4> QED
        BY <1>1, <3>0, <3>1, <3>2, <3>3, <4>1, WholeSetPage
    <3>5. CASE n - 1 \notin touched
      <4>1. step[n] = step[n - 1]
        BY <1>9, <2>2, <3>5
      <4>2. data(n - 1) = Memory(n - 1)[n - 1]
        BY <1>2, <3>0, <3>5
      <4>3. Memory(n) = Memory(n - 1)
        <5> HIDE DEF Memory
        <5> QED
          BY <3>2, <3>3, <4>2
      <4> QED
        BY <3>1, <4>1, <4>3
    <3> QED
      BY <3>4, <3>5
  <2> QED
    BY <2>1, <2>2
<1>11. Whole(step[M], Memory(M))
  <2>1. 0 .. M \subseteq R
    <3> HIDE DEF R
    <3> QED
      BY <1>0, <1>10, InductionUp
  <2> QED
    BY <1>0, <2>1
<1>12. Memory(M) = Filled(words)
  <2>1. Memory(M) = [p \in Pages |-> data(p)]
    BY <1>0
  <2>2. Filled(words) = [p \in Pages |-> data(p)]
    BY DEF Filled, data
  <2> QED
    BY <2>1, <2>2
<1>13. Filled(words) \in [Pages -> PageData]
  <2>1. Filled(words) = [p \in Pages |-> data(p)]
    BY DEF Filled, data
  <2> QED
    BY <1>1, <2>1
<1> QED
  BY <1>8, <1>11, <1>12, <1>13

-----------------------------------------------------------------------------
(* The cut of the tree a segment's image is                                *)

\* The inner nodes above a page the guest touched.
Above(pg) == {n \in Inner : pg.stateTable[n] # UNLOADED}

\* An image over a memory that was given the digests of the nodes 'got' of the
\* frontier: it knows nothing below the frontier, and above it exactly the
\* nodes whose children it knows.
Cut(img, memory, pg, got, pages) ==
  LET K == DOMAIN img.digests
  IN  /\ img = [digests |-> img.digests, pages |-> img.pages]
      /\ Sound(img.digests, memory)
      /\ K \subseteq Above(pg) \cup Frontier(pg)
      /\ K \cap Frontier(pg) = got
      /\ \A n \in Above(pg) : n \in K <=> (2 * n \in K /\ 2 * n + 1 \in K)
      /\ DOMAIN img.pages = pages
      /\ \A p \in pages : img.pages[p] = memory[p]

\* What commit takes from the tree: the frontier lies right below the touched
\* nodes.
LEMMA FrontierIs ==
  ASSUME NEW img, IsImage(img), NEW pg, PagerTyped(img, pg), Maximal(pg.stateTable)
  PROVE  /\ Frontier(pg) \subseteq Nodes /\ Above(pg) \subseteq Inner
         /\ Above(pg) \cap Frontier(pg) = {}
         /\ \A f \in Frontier(pg) : \A a \in Path(f) : a # f => a \in Above(pg)
         /\ \A n \in Above(pg) : /\ 2 * n \in Above(pg) \cup Frontier(pg)
                                 /\ 2 * n + 1 \in Above(pg) \cup Frontier(pg)
         /\ DOMAIN pg.pageCache # {} => 1 \in Above(pg) \cup Frontier(pg)
<1> DEFINE st == pg.stateTable
<1>1. DOMAIN pg.pageCache \subseteq Pages
  BY TouchedNodes
<1>2. \A p \in DOMAIN pg.pageCache : /\ Leaf(p) \in Nodes /\ Leaf(p) \notin Inner
                                     /\ st[Leaf(p)] # UNLOADED
  BY <1>1, TouchedNodes, LeafIsNode DEF IsCached
<1>3. Frontier(pg) \subseteq Nodes /\ Above(pg) \subseteq Inner
  BY <1>2 DEF Frontier, Uncles, Above
<1>4. Above(pg) \cap Frontier(pg) = {}
  BY <1>2 DEF Frontier, Uncles, Above
<1>5. ASSUME NEW f \in Frontier(pg), NEW a \in Path(f), a # f
      PROVE  a \in Above(pg)
  <2>1. a \in Inner /\ f \in Nodes
    BY <1>3, <1>5, PathGoesOn
  <2>2. CASE f \in Uncles(pg)
    <3>1. f # 1 /\ st[f \div 2] # UNLOADED
      BY <2>2 DEF Uncles
    <3>2. f \div 2 \in Nodes /\ a \in Path(f \div 2)
      BY <1>5, <2>1, <3>1, PathStep, NodesAre
    <3>3. st[a] # UNLOADED
      BY <3>1, <3>2, TouchedUpwards
    <3> QED
      BY <2>1, <3>3 DEF Above
  <2>3. CASE f \notin Uncles(pg)
    <3>1. st[f] # UNLOADED
      BY <1>2, <2>3 DEF Frontier
    <3>2. st[a] # UNLOADED
      BY <2>1, <3>1, TouchedUpwards
    <3> QED
      BY <2>1, <3>2 DEF Above
  <2> QED
    BY <2>2, <2>3
<1>6. ASSUME NEW c \in Nodes, st[c] # UNLOADED
      PROVE  c \in Above(pg) \cup Frontier(pg)
  <2>1. CASE c \in Inner
    BY <1>6, <2>1 DEF Above
  <2>2. CASE c \notin Inner
    <3>1. PICK p \in Pages : c = Leaf(p)
      BY <2>2, NodesAre
    <3>2. p \in DOMAIN pg.pageCache
      BY <1>6, <3>1, TouchedNodes DEF IsCached
    <3> QED
      BY <3>1, <3>2 DEF Frontier
  <2> QED
    BY <2>1, <2>2
<1>7. ASSUME NEW n \in Above(pg), NEW c \in {2 * n, 2 * n + 1}
      PROVE  c \in Above(pg) \cup Frontier(pg)
  <2>1. n \in Inner /\ st[n] # UNLOADED
    BY DEF Above
  <2>2. n \in Nat \ {0} /\ c \in Nodes
    BY <2>1, NodesAre
  <2>3. c # 1 /\ c \div 2 = n
    BY <2>2
  <2>4. CASE st[c] = UNLOADED
    BY <2>1, <2>2, <2>3, <2>4 DEF Frontier, Uncles
  <2> QED
    BY <1>6, <2>2, <2>4
<1>8. ASSUME DOMAIN pg.pageCache # {} PROVE 1 \in Above(pg) \cup Frontier(pg)
  <2>1. PICK p \in DOMAIN pg.pageCache : TRUE
    BY <1>8
  <2>2. Leaf(p) \in Nodes /\ st[Leaf(p)] # UNLOADED /\ 1 \in Path(Leaf(p))
    BY <1>2, OnOwnPath
  <2>3. st[1] # UNLOADED
    BY <2>2, TouchedUpwards
  <2> QED
    BY <1>6, <2>3, NodesAre
<1> QED
  BY <1>3, <1>4, <1>5, <1>7, <1>8

LEMMA SetDigestIs ==
  ASSUME NEW img, img = [digests |-> img.digests, pages |-> img.pages],
         NEW idx, NEW digest
  PROVE  SetDigest(img, idx, digest) =
           [digests |-> FixupDigests(With(ExpandIfZero(img.digests, idx), idx, digest), idx),
            pages   |-> img.pages]
BY DEF SetDigest

\* Giving the image one more digest of the frontier: nothing above it was
\* known, so no zero subtree is expanded, and the climb stops where a sibling
\* is missing.
LEMMA CutGrows ==
  ASSUME NEW memory, NEW img, IsImage(img), NEW pg, PagerTyped(img, pg),
         Maximal(pg.stateTable), NEW seg, NEW got, NEW pages,
         Cut(seg, memory, pg, got, pages), NEW idx \in Frontier(pg), idx \notin got
  PROVE  Cut(SetDigest(seg, idx, TrueDigests(memory)[idx]), memory, pg,
             got \cup {idx}, pages)
<1> DEFINE K   == DOMAIN seg.digests
           A   == Above(pg)
           F   == Frontier(pg)
           dig == TrueDigests(memory)[idx]
           put == With(seg.digests, idx, dig)
           up  == Rehashed(put, idx)
           new == FixupDigests(put, idx)
<1>0. /\ K \subseteq A \cup F /\ K \cap F = got
      /\ \A n \in A : n \in K <=> (2 * n \in K /\ 2 * n + 1 \in K)
      /\ seg = [digests |-> seg.digests, pages |-> seg.pages]
      /\ Sound(seg.digests, memory) /\ K \subseteq Nodes
  BY DEF Cut, Sound
<1>1. /\ F \subseteq Nodes /\ A \subseteq Inner /\ A \cap F = {}
      /\ \A a \in Path(idx) : a # idx => a \in A
      /\ idx \in Nodes
  BY FrontierIs
<1> HIDE DEF F, A
<1>2. Path(idx) \cap K = {}
  <2> DEFINE known == Path(idx) \cap K
  <2> SUFFICES ASSUME known # {} PROVE FALSE
    OBVIOUS
  <2>1. known \subseteq Nat /\ idx \in Nat /\ \A n \in known : n <= idx
    BY <1>1, PathInNodes, NodesAre, OnOwnPath
  <2>2. PICK a \in known : \A n \in known : n <= a
    <3> HIDE DEF known
    <3> QED
      BY <2>1, GreatestElement
  <2>3. a \in Path(idx) /\ a # idx /\ a \in K
    BY <1>0 DEF F
  <2>4. PICK c \in Path(idx) : c \in {2 * a, 2 * a + 1}
    BY <1>1, <2>3, PathGoesOn
  <2>5. a \in A /\ a \in Nat \ {0}
    BY <1>1, <2>3, NodesAre
  <2>6. c \in known
    BY <1>0, <2>3, <2>4, <2>5
  <2>7. ~ (c <= a)
    BY <2>4, <2>5
  <2> HIDE DEF known
  <2> QED
    BY <2>2, <2>6, <2>7
<1>3. ExpandIfZero(seg.digests, idx) = seg.digests
  BY <1>2 DEF ExpandIfZero, IsZero
<1>4. SetDigest(seg, idx, dig) = [digests |-> new, pages |-> seg.pages]
  BY <1>0, <1>3, SetDigestIs
<1>5. /\ DOMAIN put = K \cup {idx} /\ put[idx] = dig
      /\ \A n \in K : n # idx => put[n] = seg.digests[n]
  BY DEF With
<1> HIDE DEF put, new
<1>6. /\ DOMAIN new = K \cup {idx} \cup up
      /\ \A n \in DOMAIN new : new[n] = TrueDigests(memory)[n]
  <2>1. \A n \in DOMAIN put : n \notin Rehashed(put, idx)
          => put[n] = TrueDigests(memory)[n]
    BY <1>0, <1>5 DEF Sound
  <2>2. DOMAIN put \subseteq Nodes /\ idx \in DOMAIN put /\ idx \in Nodes
    BY <1>0, <1>1, <1>5
  <2>3. /\ DOMAIN new = DOMAIN put \cup Rehashed(put, idx)
        /\ \A n \in DOMAIN new : new[n] = TrueDigests(memory)[n]
    <3> HIDE DEF up, K, dig
    <3> QED
      BY <2>1, <2>2, FixupIsTrue DEF new
  <2> QED
    BY <1>5, <2>3
<1>7. up \subseteq A /\ up \subseteq Path(idx)
  BY <1>1 DEF Rehashed
<1> DEFINE L == DOMAIN new
<1>8. L \subseteq Nodes /\ L \subseteq A \cup F /\ L \cap F = got \cup {idx}
  <2>1. idx \in F
    BY DEF F
  <2> QED
    BY <1>0, <1>1, <1>6, <1>7, <2>1, PathInNodes
<1>9. ASSUME NEW n \in A, n \in L PROVE 2 * n \in L /\ 2 * n + 1 \in L
  <2>1. CASE n \in K
    BY <1>0, <1>6, <2>1
  <2>2. CASE n \in up
    <3>1. PICK c \in Path(idx) : /\ {c, Sibling(c)} = {2 * n, 2 * n + 1}
                                 /\ c = idx \/ c \in up
                                 /\ Sibling(c) \in DOMAIN put
      BY <1>1, <2>2, RehashedChildren
    <3>2. c \in L /\ Sibling(c) \in L
      BY <1>5, <1>6, <3>1
    <3> HIDE DEF L
    <3> QED
      BY <3>1, <3>2
  <2>3. n # idx
    BY <1>1, <1>9 DEF F
  <2> QED
    BY <1>6, <1>9, <2>1, <2>2, <2>3
<1>10. ASSUME NEW n \in A, 2 * n \in L, 2 * n + 1 \in L PROVE n \in L
  <2>1. CASE 2 * n \in K /\ 2 * n + 1 \in K
    BY <1>0, <1>6, <2>1
  <2>2. CASE ~ (2 * n \in K /\ 2 * n + 1 \in K)
    <3>1. PICK c \in {2 * n, 2 * n + 1} : c \in Path(idx) /\ (c = idx \/ c \in up)
      <4>1. idx \in Path(idx)
        BY <1>1, OnOwnPath
      <4> QED
        BY <1>6, <1>7, <1>10, <2>2, <4>1
    <3>2. n \in Inner /\ n \in Nat \ {0} /\ n \in Nodes
      BY <1>1, NodesAre
    <3>3. c \in Nodes /\ c # 1 /\ c \div 2 = n /\ c > n /\ c \in Nat
      BY <3>1, <3>2, PathInNodes
    <3>4. n \in Path(idx) /\ n # idx
      <4>1. n \in Path(c)
        BY <3>2, <3>3, PathStep, OnOwnPath
      <4>2. n \in Path(idx)
        BY <1>1, <3>1, <4>1, PathIsChain
      <4> QED
        BY <1>1, <4>2 DEF F
    <3>5. Sibling(c) \in DOMAIN put
      <4>1. {c, Sibling(c)} = {2 * n, 2 * n + 1} /\ Sibling(c) # c
        BY <3>3, Siblings
      <4>2. Sibling(c) \in L
        <5> HIDE DEF L
        <5> QED
          BY <1>10, <4>1
      <4>3. Sibling(c) \notin Path(idx)
        BY <1>1, <3>1, <3>2, <4>1, OneChildOnPath
      <4> QED
        BY <1>5, <1>6, <1>7, <4>2, <4>3
    <3>6. \A m \in Path(idx) : m > n => Sibling(m) \in DOMAIN put
      <4> SUFFICES ASSUME NEW m \in Path(idx), m > n
                   PROVE  Sibling(m) \in DOMAIN put
        OBVIOUS
      <4>1. m \in Nat /\ m <= idx /\ idx \in Nat
        BY <1>1, OnOwnPath, PathInNodes, NodesAre
      <4>2. CASE m = c
        BY <3>5, <4>2
      <4>3. CASE m > c
        <5>1. c # idx
          BY <3>3, <4>1, <4>3
        <5> QED
          BY <3>1, <4>3, <5>1 DEF Rehashed
      <4>4. CASE m < c
        <5>1. PICK d \in Path(idx) : /\ d \in {2 * n, 2 * n + 1}
                                     /\ \A b \in Path(idx) : b > n => b >= d
          BY <1>1, <3>4, PathGoesOn
        <5>2. d = c
          BY <1>1, <3>1, <3>2, <5>1, OneChildOnPath
        <5> QED
          BY <3>3, <4>1, <4>4, <5>1, <5>2
      <4> QED
        BY <3>3, <4>1, <4>2, <4>3, <4>4
    <3>7. n \in up
      BY <3>4, <3>6 DEF Rehashed
    <3> QED
      BY <1>6, <3>7
  <2> QED
    BY <2>1, <2>2
<1>11. Sound(new, memory)
  BY <1>6, <1>8 DEF Sound
<1>12. DOMAIN seg.pages = pages /\ \A p \in pages : seg.pages[p] = memory[p]
  BY DEF Cut
<1> QED
  BY <1>4, <1>8, <1>9, <1>10, <1>11, <1>12 DEF Cut, A, F

LEMMA CutOfNothing ==
  ASSUME NEW memory, NEW pg
  PROVE  Cut(UnknownImage, memory, pg, {}, {})
<1>1. /\ UnknownImage = [digests |-> UnknownImage.digests, pages |-> UnknownImage.pages]
      /\ DOMAIN UnknownImage.digests = {} /\ DOMAIN UnknownImage.pages = {}
  BY DEF UnknownImage
<1> QED
  BY <1>1 DEF Cut, Sound

\* The page that goes with a leaf's digest.
LEMMA CutTakesPage ==
  ASSUME NEW memory, NEW img, NEW pg, NEW got, NEW pages,
         Cut(img, memory, pg, got, pages), NEW p
  PROVE  Cut([img EXCEPT !.pages = With(@, p, memory[p])], memory, pg, got,
             pages \cup {p})
<1> DEFINE new == [img EXCEPT !.pages = With(@, p, memory[p])]
<1>1. new = [digests |-> img.digests, pages |-> With(img.pages, p, memory[p])]
  BY DEF Cut
<1>2. /\ DOMAIN With(img.pages, p, memory[p]) = pages \cup {p}
      /\ \A q \in pages \cup {p} : With(img.pages, p, memory[p])[q] = memory[q]
  BY DEF Cut, With
<1> HIDE DEF new
<1> QED
  BY <1>1, <1>2 DEF Cut, new

\* With the whole frontier known, so is everything above it, the root first
\* of all.
LEMMA CutIsComplete ==
  ASSUME NEW memory, NEW img, IsImage(img), NEW pg, PagerTyped(img, pg),
         Maximal(pg.stateTable), NEW seg, NEW pages,
         Cut(seg, memory, pg, Frontier(pg), pages)
  PROVE  /\ DOMAIN seg.digests = Above(pg) \cup Frontier(pg)
         /\ DOMAIN pg.pageCache # {} => 1 \in DOMAIN seg.digests
<1> DEFINE K   == DOMAIN seg.digests
           all == Above(pg) \cup Frontier(pg)
           top == 2 * MEMORY_SIZE_PAGES - 1
           S   == {n \in Nodes : n \in all => n \in K}
<1>0. top \in Nat /\ Nodes = 1 .. top /\ all \subseteq Nodes
  <2>1. top \in Nat /\ Nodes = 1 .. top
    BY Geometry DEF Nodes
  <2>2. all \subseteq Nodes
    BY FrontierIs, NodesAre
  <2> QED
    BY <2>1, <2>2
<1>1. ASSUME NEW n \in Nodes, n + 1 .. top \subseteq S, n \in all PROVE n \in K
  <2>1. CASE n \in Frontier(pg)
    BY <2>1 DEF Cut
  <2>2. CASE n \in Above(pg)
    <3>1. 2 * n \in all /\ 2 * n + 1 \in all
      BY <2>2, FrontierIs
    <3>2. 2 * n \in n + 1 .. top /\ 2 * n + 1 \in n + 1 .. top
      <4>1. n \in Nat \ {0} /\ 2 * n \in Nodes /\ 2 * n + 1 \in Nodes
        BY <1>0, <3>1, NodesAre
      <4> QED
        BY <1>0, <4>1
    <3>3. 2 * n \in S /\ 2 * n + 1 \in S
      <4> HIDE DEF S
      <4> QED
        BY <1>1, <3>2
    <3> QED
      BY <2>2, <3>1, <3>3 DEF Cut
  <2> QED
    BY <1>1, <2>1, <2>2
<1>2. \A n \in 1 .. top : n + 1 .. top \subseteq S => n \in S
  BY <1>0, <1>1
<1>3. 1 .. top \subseteq S
  <2> HIDE DEF S
  <2> QED
    BY <1>0, <1>2, InductionDown
<1>4. all \subseteq K
  <2> HIDE DEF all
  <2> QED
    BY <1>0, <1>3
<1>5. K \subseteq all
  BY DEF Cut
<1> QED
  BY <1>4, <1>5, FrontierIs

\* Asking for a digest of the cut changes nothing that matters.
LEMMA CutAnswers ==
  ASSUME NEW memory \in [Pages -> PageData], NEW img, NEW pg, NEW got, NEW pages,
         Cut(img, memory, pg, got, pages), NEW idx \in DOMAIN img.digests
  PROVE  /\ HasDigest(img, idx)
         /\ Cut(AskDigest(img, idx), memory, pg, got, pages)
         /\ DOMAIN AskDigest(img, idx).digests = DOMAIN img.digests
<1> DEFINE new == ExpandIfZero(img.digests, idx)
<1>1. idx \in Nodes /\ Sound(img.digests, memory)
  BY DEF Cut, Sound
<1>2. DOMAIN new = DOMAIN img.digests /\ Sound(new, memory)
  BY <1>1, NearestToKnown, ExpandIsTrue
<1>3. AskDigest(img, idx) = [digests |-> new, pages |-> img.pages]
  BY DEF AskDigest, Cut
<1> HIDE DEF new
<1>4. Cut(AskDigest(img, idx), memory, pg, got, pages)
  BY <1>2, <1>3 DEF Cut
<1> QED
  BY <1>2, <1>3, <1>4 DEF HasDigest, new

\* A page of the cut overwritten: the climb reaches the root.
LEMMA CutSetPage ==
  ASSUME NEW memory \in [Pages -> PageData], NEW img, IsImage(img), NEW pg,
         PagerTyped(img, pg), Maximal(pg.stateTable), NEW seg,
         Cut(seg, memory, pg, Frontier(pg), DOMAIN pg.pageCache),
         NEW p \in DOMAIN pg.pageCache, NEW data
  PROVE  Cut(SetPage(seg, p, data), [memory EXCEPT ![p] = data], pg,
             Frontier(pg), DOMAIN pg.pageCache)
<1> DEFINE pages == DOMAIN pg.pageCache
           mid   == ExpandIfZero(seg.digests, Leaf(p))
           new   == FixupDigests(With(mid, Leaf(p), HashPage(data)), Leaf(p))
           after == [memory EXCEPT ![p] = data]
           K     == DOMAIN seg.digests
<1>0. /\ seg = [digests |-> seg.digests, pages |-> seg.pages]
      /\ Sound(seg.digests, memory)
      /\ DOMAIN seg.pages = pages /\ \A q \in pages : seg.pages[q] = memory[q]
  BY DEF Cut
<1>1. K = Above(pg) \cup Frontier(pg)
  BY CutIsComplete
<1>2. p \in Pages /\ pages \subseteq Pages /\ Leaf(p) \in Frontier(pg) /\ Leaf(p) \in Nodes
  BY TouchedNodes, LeafIsNode DEF Frontier
<1>3. DOMAIN mid = K /\ Sound(mid, memory)
  BY <1>0, <1>1, <1>2, NearestToKnown, ExpandIsTrue
<1> HIDE DEF mid
<1>4. ASSUME NEW n \in Path(Leaf(p))
      PROVE  n \in K /\ (n # 1 => Sibling(n) \in K)
  <2>1. n \in K /\ n \in Nodes
    BY <1>1, <1>2, FrontierIs, PathInNodes
  <2>2. CASE n # 1
    <3>1. n \div 2 \in Above(pg)
      <4>1. n \div 2 \in Inner
        BY <2>1, <2>2, NodesAre
      <4>2. n \div 2 \in Path(n)
        BY <2>1, <2>2, <4>1, PathStep, NodesAre, OnOwnPath
      <4>3. n \div 2 \in Path(Leaf(p))
        BY <1>2, <4>2, PathIsChain
      <4>4. n \div 2 # Leaf(p)
        BY <1>2, <4>1, LeafIsNode
      <4> QED
        BY <1>2, <4>3, <4>4, FrontierIs
    <3>2. {n, Sibling(n)} = {2 * (n \div 2), 2 * (n \div 2) + 1}
      BY <2>1, <2>2, Siblings
    <3> QED
      BY <1>1, <2>1, <3>1, <3>2, FrontierIs
  <2> QED
    BY <2>1, <2>2
<1>5. DOMAIN new = K /\ Sound(new, after)
  <2>1. \A n \in Path(Leaf(p)) : /\ n \in DOMAIN mid
                                 /\ n # 1 => Sibling(n) \in DOMAIN mid
    BY <1>3, <1>4
  <2>2. DOMAIN new = DOMAIN mid /\ Sound(new, after)
    <3> HIDE DEF K, pages
    <3> QED
      BY <1>2, <1>3, <2>1, OverwriteIsTrue
  <2> QED
    BY <1>3, <2>2
<1>6. SetPage(seg, p, data) = [digests |-> new, pages |-> With(seg.pages, p, data)]
  BY <1>0, SetPageIs DEF mid
<1>7. /\ DOMAIN With(seg.pages, p, data) = pages
      /\ \A q \in pages : With(seg.pages, p, data)[q] = after[q]
  BY <1>0, <1>2 DEF With
<1> HIDE DEF new, after, pages
<1>8. Cut(SetPage(seg, p, data), after, pg, Frontier(pg), pages)
  BY <1>5, <1>6, <1>7 DEF Cut
<1> QED
  BY <1>8 DEF after, pages

-----------------------------------------------------------------------------
(* The inductive invariant                                                 *)

\* What the loop of each phase goes over.
LoopOver ==
  CASE phase = "gather"              -> DOMAIN pager.pageCache
    [] phase = "uncles"              -> Uncles(pager)
    [] phase \in {"write", "replay"} -> DirtyPages(pager)
    [] phase = "pagein"              -> PagingNodes(DOMAIN pager.pageCache)
    [] OTHER                         -> {}

\* The nodes and the pages the segment's image was given so far.
Got ==
  CASE phase = "gather" -> {Leaf(p) : p \in DOMAIN pager.pageCache \ todo}
    [] phase = "uncles" -> {Leaf(p) : p \in DOMAIN pager.pageCache}
                             \cup (Uncles(pager) \ todo)
    [] OTHER            -> Frontier(pager)

GotPages ==
  CASE phase = "gather" -> DOMAIN pager.pageCache \ todo
    [] OTHER            -> DOMAIN pager.pageCache

\* The memory the segment's image must describe.
PartMemory == CASE phase = "replay" -> WrittenBack
                [] phase = "done"   -> Current
                [] OTHER            -> base

Phases == {"run", "gather", "uncles", "write", "pagein", "replay", "done"}

Inv ==
  /\ phase \in Phases
  /\ base \in [Pages -> PageData]
  /\ PagerInv(base, pager)
  /\ phase # "run" => DOMAIN pager.pageCache # {}
  /\ todo \subseteq LoopOver
  /\ Whole(full, FullMemory)
  /\ phase = "run" => part = UnknownImage
  /\ phase # "run" => Cut(part, PartMemory, pager, Got, GotPages)

-----------------------------------------------------------------------------
(* What the invariant says in every state                                  *)

LEMMA StateFacts ==
  ASSUME Inv
  PROVE  /\ IsImage(base) /\ DOMAIN base = Pages
         /\ PagerTyped(base, pager) /\ Maximal(pager.stateTable)
         /\ DOMAIN pager.pageCache \subseteq Pages
         /\ DirtyPages(pager) \subseteq DOMAIN pager.pageCache
         /\ \A p \in DOMAIN pager.pageCache : pager.pageCache[p] \in PageData
         /\ Current \in [Pages -> PageData]
         /\ WrittenBack \in [Pages -> PageData]
         /\ FullMemory \in [Pages -> PageData]
         /\ todo = DirtyPages(pager) => WrittenBack = base
         /\ todo = {} => WrittenBack = Current
<1>1. /\ IsImage(base) /\ DOMAIN base = Pages /\ base \in [Pages -> PageData]
      /\ PagerTyped(base, pager) /\ Maximal(pager.stateTable)
      /\ Coherent(base, pager)
  BY DEF Inv, IsImage, PagerInv
<1>2. /\ DOMAIN pager.pageCache \subseteq Pages
      /\ \A p \in Pages : p \in DOMAIN pager.pageCache <=> IsCached(pager, p)
  BY <1>1, TouchedNodes
<1>3. DirtyPages(pager) \subseteq DOMAIN pager.pageCache
  BY DEF DirtyPages
<1>4. \A p \in DOMAIN pager.pageCache : pager.pageCache[p] \in PageData
  BY <1>1 DEF PagerTyped
<1>5. Current \in [Pages -> PageData] /\ WrittenBack \in [Pages -> PageData]
  BY <1>1, <1>2, <1>3, <1>4 DEF Current, WrittenBack
<1>6. FullMemory \in [Pages -> PageData]
  BY <1>1, <1>5 DEF FullMemory
<1>7. todo = DirtyPages(pager) => WrittenBack = base
  BY <1>1 DEF WrittenBack
<1>8. ASSUME todo = {} PROVE WrittenBack = Current
  <2>1. ASSUME NEW p \in Pages
        PROVE  (IF p \in DirtyPages(pager) THEN pager.pageCache[p] ELSE base[p])
                 = IF IsCached(pager, p) THEN pager.pageCache[p] ELSE base[p]
    <3>1. IsCached(pager, p) => pager.stateTable[Leaf(p)] \in {LOADED, DIRTY}
      BY <1>1, LeafIsNode DEF IsCached, PagerTyped, StateTables
    <3>2. pager.stateTable[Leaf(p)] = LOADED /\ p \in DOMAIN pager.pageCache
            => pager.pageCache[p] = base[p]
      BY <1>1 DEF Coherent
    <3>3. p \in DirtyPages(pager) <=>
            p \in DOMAIN pager.pageCache /\ pager.stateTable[Leaf(p)] = DIRTY
      BY DEF DirtyPages
    <3> QED
      BY <1>2, <3>1, <3>2, <3>3
  <2> QED
    BY <1>8, <2>1 DEF WrittenBack, Current
<1> QED
  BY <1>1, <1>2, <1>3, <1>4, <1>5, <1>6, <1>7, <1>8

\* The segment's image once the commit's loops have filled it.
LEMMA PartFacts ==
  ASSUME Inv, phase \in {"write", "pagein", "replay", "done"}
  PROVE  /\ Cut(part, PartMemory, pager, Frontier(pager), DOMAIN pager.pageCache)
         /\ DOMAIN part.pages = DOMAIN pager.pageCache
         /\ DOMAIN part.digests = Above(pager) \cup Frontier(pager)
         /\ 1 \in DOMAIN part.digests
<1>1. Cut(part, PartMemory, pager, Frontier(pager), DOMAIN pager.pageCache)
  BY DEF Inv, Got, GotPages
<1>2. DOMAIN pager.pageCache # {}
  BY DEF Inv
<1> QED
  BY <1>1, <1>2, StateFacts, CutIsComplete DEF Cut

\* The nodes readPaging walks are touched, and their children are in the image.
LEMMA NodesToAsk ==
  ASSUME Inv, phase = "pagein", NEW n \in todo
  PROVE  /\ n \in Above(pager)
         /\ 2 * n \in DOMAIN part.digests /\ 2 * n + 1 \in DOMAIN part.digests
<1>1. n \in PagingNodes(DOMAIN pager.pageCache)
  BY DEF Inv, LoopOver
<1>2. PagingNodes(DOMAIN pager.pageCache) = AtLeast(pager.stateTable, LOADED)
  BY StateFacts, PagingNodesAreTabled
<1>3. \A m \in Nodes : pager.stateTable[m] \in {0, 1, 2}
  BY StateFacts DEF PagerTyped, StateTables, UNLOADED, LOADED, DIRTY
<1>4. n \in Above(pager)
  BY <1>1, <1>2, <1>3, NodesAre DEF AtLeast, Above, UNLOADED, LOADED
<1> QED
  BY <1>4, PartFacts, StateFacts, FrontierIs

-----------------------------------------------------------------------------
(* Every step keeps the invariant                                          *)

LEMMA InitInv == Init => Inv
<1> SUFFICES ASSUME Init PROVE Inv
  OBVIOUS
<1>1. PICK words \in InitialWords : full = FromWords(words) /\ base = PagesOf(words)
  BY DEF Init
<1>2. PICK W \in SUBSET Nat : words \in [W -> Val]
  <2>1. PICK S \in SUBSET (0 .. WORD_LIMIT - 1) : words \in [S -> Val]
    BY DEF InitialWords
  <2> QED
    BY <2>1
<1>3. PagesOf(words) = Filled(words)
  BY DEF PagesOf, Filled
<1>4. base \in [Pages -> PageData] /\ Whole(full, base)
  BY <1>1, <1>2, <1>3, FromWordsIsWhole
<1>5. PagerInv(base, pager)
  BY <1>4, NewPagerInv DEF Init, IsImage
<1> QED
  BY <1>4, <1>5 DEF Init, Inv, Phases, FullMemory, LoopOver

\* The guest's loads and stores: the image at most expands a zero page.
LEMMA AccessInv ==
  ASSUME Inv, phase = "run", PagerInv(base, pager'),
         full' = full \/ \E p \in Pages : full' = AskPage(full, p),
         UNCHANGED <<part, base, phase, todo>>
  PROVE  Inv'
<1>1. /\ base \in [Pages -> PageData] /\ Whole(full, base)
      /\ todo = {} /\ part = UnknownImage
  BY DEF Inv, FullMemory, LoopOver
<1>2. Whole(full', base)
  BY <1>1, WholeHasPages
<1> QED
  BY <1>1, <1>2 DEF Inv, FullMemory, LoopOver, Phases

LEMMA LoadInv ==
  ASSUME Inv, NEW word \in 0 .. WORD_LIMIT - 1,
         Load(word) \/ \E v \in Val : Store(word, v)
  PROVE  Inv'
<1>1. phase = "run" /\ UNCHANGED <<part, base, phase, todo>>
  BY DEF Load, Store
<1>2. WORD_LIMIT \in Nat
  BY Geometry, SMT DEF WORD_LIMIT
<1>3. PageOf(word) \in Pages /\ word \in Nat
  BY <1>2, WordInPage
<1>4. IsImage(base) /\ word \in WordsOf(base) /\ PagerInv(base, pager)
  BY <1>2, <1>3, StateFacts DEF WordsOf, Inv
<1>5. Supplied(full) = base
  <2>1. base \in [Pages -> PageData] /\ Whole(full, base)
    BY <1>1 DEF Inv, FullMemory
  <2> QED
    BY <2>1, WholeSupplies
<1>6. PagerInv(base, pager')
  <2>1. CASE Load(word)
    <3>1. pager' = PagerLoad(base, pager, word)
      BY <1>5, <2>1 DEF Load
    <3> QED
      BY <1>4, <3>1, PagerLoadInv
  <2>2. ASSUME NEW v \in Val, Store(word, v) PROVE PagerInv(base, pager')
    <3>1. pager' = PagerStore(base, pager, word, v)
      BY <1>5, <2>2 DEF Store
    <3> QED
      BY <1>4, <3>1, PagerStoreInv
  <2> QED
    BY <2>1, <2>2
<1>7. full' = full \/ full' = AskPage(full, PageOf(word))
  BY DEF Load, Store
<1> QED
  BY <1>1, <1>3, <1>6, <1>7, AccessInv

LEMMA StartCommitInv ==
  ASSUME Inv, StartCommit
  PROVE  Inv'
<1>1. /\ phase = "run" /\ phase' = "gather" /\ DOMAIN pager.pageCache # {}
      /\ todo' = DOMAIN pager.pageCache /\ part' = UnknownImage
      /\ full' = full /\ pager' = pager /\ base' = base
  BY DEF StartCommit
<1>2. Whole(full, base)
  BY <1>1 DEF Inv, FullMemory
<1>3. Cut(part', base, pager, {}, {})
  BY <1>1, CutOfNothing
<1>4. Got' = {} /\ GotPages' = {} /\ PartMemory' = base /\ FullMemory' = base
  BY <1>1 DEF Got, GotPages, PartMemory, FullMemory
<1>5. todo' \subseteq LoopOver'
  BY <1>1 DEF LoopOver
<1> QED
  BY <1>1, <1>2, <1>3, <1>4, <1>5 DEF Inv, Phases

\* commit copies a page: what the image gives is the page as the segment found
\* it.
LEMMA GatherPageInv ==
  ASSUME Inv, NEW p \in Pages, GatherPage(p)
  PROVE  Inv'
<1>1. /\ phase = "gather" /\ p \in todo /\ phase' = phase
      /\ part' = SetPage(part, p, PageAt(full, p))
      /\ full' = AskPage(full, p) /\ todo' = todo \ {p}
      /\ pager' = pager /\ base' = base
  BY DEF GatherPage
<1>2. /\ Whole(full, base) /\ base \in [Pages -> PageData]
      /\ Cut(part, base, pager, {Leaf(q) : q \in DOMAIN pager.pageCache \ todo},
             DOMAIN pager.pageCache \ todo)
      /\ todo \subseteq DOMAIN pager.pageCache
  BY <1>1 DEF Inv, FullMemory, PartMemory, Got, GotPages, LoopOver
<1>3. Whole(full', base) /\ PageAt(full, p) = base[p]
  BY <1>1, <1>2, WholeHasPages
<1> DEFINE got == {Leaf(q) : q \in DOMAIN pager.pageCache \ todo}
           mid == SetDigest(part, Leaf(p), HashPage(base[p]))
<1>4. Cut(mid, base, pager, got \cup {Leaf(p)}, DOMAIN pager.pageCache \ todo)
  <2>1. Leaf(p) \in Frontier(pager)
    BY <1>1, <1>2 DEF Frontier
  <2>2. Leaf(p) \notin got
    <3>1. \A q \in DOMAIN pager.pageCache : Leaf(q) = Leaf(p) => q = p
      <4>1. \A q \in Pages : Leaf(q) = Leaf(p) => q = p
        BY OneLeafPerPath, LeafOnOwnPath
      <4> QED
        BY <4>1, StateFacts
    <3> QED
      BY <1>1, <3>1
  <2>3. HashPage(base[p]) = TrueDigests(base)[Leaf(p)]
    BY TrueDigestsAre
  <2> HIDE DEF got
  <2> QED
    BY <1>2, <2>1, <2>2, <2>3, StateFacts, CutGrows DEF got
<1>5. SetPage(part, p, base[p]) = [mid EXCEPT !.pages = With(@, p, base[p])]
  BY DEF SetPage
<1> HIDE DEF mid
<1>6. Cut(part', base, pager, got \cup {Leaf(p)}, (DOMAIN pager.pageCache \ todo) \cup {p})
  <2> HIDE DEF got
  <2>1. part' = [mid EXCEPT !.pages = With(@, p, base[p])]
    BY <1>1, <1>3, <1>5
  <2>2. Cut([mid EXCEPT !.pages = With(@, p, base[p])], base, pager,
            got \cup {Leaf(p)}, (DOMAIN pager.pageCache \ todo) \cup {p})
    BY <1>4, CutTakesPage
  <2> QED
    BY <2>1, <2>2
<1>7. (DOMAIN pager.pageCache \ todo) \cup {p} = DOMAIN pager.pageCache \ todo'
  BY <1>1, <1>2
<1>8. got \cup {Leaf(p)} = {Leaf(q) : q \in DOMAIN pager.pageCache \ todo'}
  <2> HIDE DEF mid
  <2>1. got \cup {Leaf(p)} = {Leaf(q) : q \in (DOMAIN pager.pageCache \ todo) \cup {p}}
    OBVIOUS
  <2> QED
    BY <1>7, <2>1
<1> HIDE DEF got
<1>9. /\ Got' = got \cup {Leaf(p)} /\ GotPages' = DOMAIN pager.pageCache \ todo'
      /\ PartMemory' = base /\ FullMemory' = base
  BY <1>1, <1>8 DEF Got, GotPages, PartMemory, FullMemory
<1>10. todo' \subseteq LoopOver'
  BY <1>1, <1>2 DEF LoopOver
<1> QED
  BY <1>1, <1>3, <1>6, <1>7, <1>9, <1>10 DEF Inv, Phases

\* commit copies the digest of an untouched subtree.
LEMMA GatherUncleInv ==
  ASSUME Inv, GatherUncle
  PROVE  Inv'
<1> DEFINE idx == Min(todo)
<1>1. /\ phase = "uncles" /\ phase' = phase /\ todo # {}
      /\ part' = SetDigest(part, idx, DigestAt(full, idx))
      /\ full' = AskDigest(full, idx) /\ todo' = todo \ {idx}
      /\ pager' = pager /\ base' = base
  BY DEF GatherUncle
<1> DEFINE leaves == {Leaf(q) : q \in DOMAIN pager.pageCache}
<1>2. /\ Whole(full, base) /\ base \in [Pages -> PageData]
      /\ Cut(part, base, pager, leaves \cup (Uncles(pager) \ todo), DOMAIN pager.pageCache)
      /\ todo \subseteq Uncles(pager)
  BY <1>1 DEF Inv, FullMemory, PartMemory, Got, GotPages, LoopOver
<1>3. Uncles(pager) \subseteq Nodes
  BY DEF Uncles
<1>4. idx \in todo
  <2>1. todo \subseteq Nat
    BY <1>2, <1>3, NodesAre
  <2>2. \E m \in todo : \A n \in todo : m <= n
    BY <1>1, <2>1, LeastElement
  <2> QED
    BY <2>2 DEF Min
<1> HIDE DEF idx
<1>5. Whole(full', base) /\ DigestAt(full, idx) = TrueDigests(base)[idx]
  BY <1>1, <1>2, <1>3, <1>4, WholeHasDigests
<1>6. idx \in Frontier(pager) /\ idx \notin leaves \cup (Uncles(pager) \ todo)
  <2>1. idx \in Uncles(pager)
    BY <1>2, <1>4
  <2>2. idx \notin leaves
    <3>1. pager.stateTable[idx] = UNLOADED
      BY <2>1 DEF Uncles
    <3>2. \A q \in DOMAIN pager.pageCache : pager.stateTable[Leaf(q)] # UNLOADED
      BY StateFacts, TouchedNodes DEF IsCached
    <3> QED
      BY <3>1, <3>2
  <2> QED
    BY <1>4, <2>1, <2>2 DEF Frontier
<1>7. Cut(part', base, pager, (leaves \cup (Uncles(pager) \ todo)) \cup {idx},
          DOMAIN pager.pageCache)
  <2> HIDE DEF leaves
  <2> QED
    BY <1>1, <1>2, <1>5, <1>6, StateFacts, CutGrows
<1>8. (leaves \cup (Uncles(pager) \ todo)) \cup {idx} = leaves \cup (Uncles(pager) \ todo')
  BY <1>1, <1>2, <1>4
<1>9. /\ Got' = leaves \cup (Uncles(pager) \ todo') /\ GotPages' = DOMAIN pager.pageCache
      /\ PartMemory' = base /\ FullMemory' = base
  BY <1>1 DEF Got, GotPages, PartMemory, FullMemory
<1>10. todo' \subseteq LoopOver'
  BY <1>1, <1>2 DEF LoopOver
<1> HIDE DEF leaves
<1> QED
  BY <1>1, <1>5, <1>7, <1>8, <1>9, <1>10 DEF Inv, Phases

\* commit writes a dirty page back to the executor's image.
LEMMA WriteBackInv ==
  ASSUME Inv, NEW p \in Pages, WriteBack(p)
  PROVE  Inv'
<1>1. /\ phase = "write" /\ phase' = phase /\ p \in todo
      /\ full' = SetPage(full, p, pager.pageCache[p])
      /\ todo' = todo \ {p} /\ part' = part /\ pager' = pager /\ base' = base
  BY DEF WriteBack
<1>2. /\ Whole(full, WrittenBack) /\ todo \subseteq DirtyPages(pager)
      /\ base \in [Pages -> PageData]
  BY <1>1 DEF Inv, FullMemory, LoopOver
<1>3. pager.pageCache[p] \in PageData /\ WrittenBack \in [Pages -> PageData]
  BY <1>1, <1>2, StateFacts
<1>4. Whole(full', [WrittenBack EXCEPT ![p] = pager.pageCache[p]])
  BY <1>1, <1>2, <1>3, WholeSetPage
<1>5. WrittenBack' = [WrittenBack EXCEPT ![p] = pager.pageCache[p]]
  <2>1. DirtyPages(pager) \ (todo \ {p}) = (DirtyPages(pager) \ todo) \cup {p}
    BY <1>1, <1>2
  <2> QED
    BY <1>1, <2>1 DEF WrittenBack
<1>6. /\ FullMemory' = WrittenBack' /\ PartMemory' = PartMemory
      /\ Got' = Got /\ GotPages' = GotPages
  BY <1>1 DEF FullMemory, PartMemory, Got, GotPages
<1>7. todo' \subseteq LoopOver'
  BY <1>1, <1>2 DEF LoopOver
<1> QED
  BY <1>1, <1>4, <1>5, <1>6, <1>7 DEF Inv, Phases

\* readPaging asks for the digests of a touched node's children.
LEMMA AskNodeInv ==
  ASSUME Inv, AskNode
  PROVE  Inv'
<1> DEFINE idx   == Max(todo)
           first == AskDigest(part, 2 * idx)
<1>1. /\ phase = "pagein" /\ phase' = phase /\ todo # {}
      /\ part' = AskDigest(first, 2 * idx + 1)
      /\ todo' = todo \ {idx}
      /\ full' = full /\ pager' = pager /\ base' = base
  BY DEF AskNode
<1>2. todo \subseteq Above(pager)
  BY <1>1, NodesToAsk
<1>3. idx \in todo
  <2>0. Above(pager) \subseteq 1 .. MEMORY_SIZE_PAGES - 1
    BY DEF Above, Inner
  <2>1. todo \subseteq Nat /\ \A n \in todo : n <= MEMORY_SIZE_PAGES
    <3> HIDE DEF Above
    <3>1. \A n \in 1 .. MEMORY_SIZE_PAGES - 1 : n \in Nat /\ n <= MEMORY_SIZE_PAGES
      BY Geometry
    <3> QED
      BY <1>2, <2>0, <3>1
  <2>2. PICK m \in todo : \A n \in todo : n <= m
    BY <1>1, <2>1, Geometry, GreatestElement
  <2>3. \A n \in todo : m >= n
    BY <2>1, <2>2
  <2> QED
    BY <2>2, <2>3 DEF Max
<1> HIDE DEF idx
<1>4. /\ DOMAIN part.digests = Above(pager) \cup Frontier(pager)
      /\ Cut(part, base, pager, Frontier(pager), DOMAIN pager.pageCache)
      /\ base \in [Pages -> PageData]
  BY <1>1, PartFacts DEF PartMemory, Inv
<1>5. 2 * idx \in DOMAIN part.digests /\ 2 * idx + 1 \in DOMAIN part.digests
  BY <1>1, <1>3, NodesToAsk
<1>6. /\ Cut(first, base, pager, Frontier(pager), DOMAIN pager.pageCache)
      /\ 2 * idx + 1 \in DOMAIN first.digests
  BY <1>4, <1>5, CutAnswers
<1> HIDE DEF first
<1>7. Cut(part', base, pager, Frontier(pager), DOMAIN pager.pageCache)
  BY <1>1, <1>4, <1>6, CutAnswers
<1>8. /\ FullMemory' = FullMemory /\ PartMemory' = base
      /\ Got' = Frontier(pager) /\ GotPages' = DOMAIN pager.pageCache
  BY <1>1 DEF FullMemory, PartMemory, Got, GotPages, Current
<1>9. todo' \subseteq LoopOver'
  BY <1>1 DEF Inv, LoopOver
<1> QED
  BY <1>1, <1>7, <1>8, <1>9 DEF Inv, Phases

\* The preflight's commit writes a dirty page to its copy.
LEMMA ReplayWriteInv ==
  ASSUME Inv, NEW p \in Pages, ReplayWrite(p)
  PROVE  Inv'
<1>1. /\ phase = "replay" /\ phase' = phase /\ p \in todo
      /\ part' = SetPage(part, p, pager.pageCache[p])
      /\ todo' = todo \ {p} /\ full' = full /\ pager' = pager /\ base' = base
  BY DEF ReplayWrite
<1>2. /\ todo \subseteq DirtyPages(pager) /\ base \in [Pages -> PageData]
      /\ Cut(part, WrittenBack, pager, Frontier(pager), DOMAIN pager.pageCache)
      /\ WrittenBack \in [Pages -> PageData] /\ p \in DOMAIN pager.pageCache
  BY <1>1, PartFacts, StateFacts DEF Inv, PartMemory, LoopOver
<1>3. Cut(part', [WrittenBack EXCEPT ![p] = pager.pageCache[p]], pager,
          Frontier(pager), DOMAIN pager.pageCache)
  BY <1>1, <1>2, StateFacts, CutSetPage
<1>4. WrittenBack' = [WrittenBack EXCEPT ![p] = pager.pageCache[p]]
  <2>1. DirtyPages(pager) \ (todo \ {p}) = (DirtyPages(pager) \ todo) \cup {p}
    BY <1>1, <1>2
  <2> QED
    BY <1>1, <2>1 DEF WrittenBack
<1>5. /\ FullMemory' = FullMemory /\ PartMemory' = WrittenBack'
      /\ Got' = Frontier(pager) /\ GotPages' = DOMAIN pager.pageCache
  BY <1>1 DEF FullMemory, PartMemory, Got, GotPages, Current
<1>6. todo' \subseteq LoopOver'
  BY <1>1, <1>2 DEF LoopOver
<1> QED
  BY <1>1, <1>3, <1>4, <1>5, <1>6 DEF Inv, Phases

\* From one loop to the next: the memories the images stand for meet where
\* nothing is left to do.
LEMMA AdvanceInv ==
  ASSUME Inv, AdvancePhase
  PROVE  Inv'
<1>0. /\ todo = {} /\ full' = full /\ part' = part /\ pager' = pager /\ base' = base
      /\ DirtyPages(pager) \ DirtyPages(pager) = {}
      /\ Uncles(pager) \ {} = Uncles(pager) /\ DOMAIN pager.pageCache \ {} = DOMAIN pager.pageCache
  BY DEF AdvancePhase, Advance
<1>1. WrittenBack = Current /\ Current' = Current
  BY <1>0, StateFacts DEF Current
<1>2. todo' = DirtyPages(pager) => WrittenBack' = base
  <2>1. \A p \in Pages : p \notin DirtyPages(pager) \ DirtyPages(pager)
    OBVIOUS
  <2>2. base = [p \in Pages |-> base[p]]
    BY DEF Inv
  <2> QED
    BY <1>0, <2>1, <2>2 DEF WrittenBack
<1>3. CASE Advance("gather", "uncles", Uncles(pager))
  <2>1. /\ phase = "gather" /\ phase' = "uncles" /\ todo' = Uncles(pager)
    BY <1>3 DEF Advance
  <2>2. Got' = Got /\ GotPages' = GotPages /\ PartMemory' = PartMemory
        /\ FullMemory' = FullMemory /\ todo' \subseteq LoopOver'
    BY <1>0, <2>1 DEF Got, GotPages, PartMemory, FullMemory, LoopOver
  <2> QED
    BY <1>0, <2>1, <2>2 DEF Inv, Phases
<1>4. CASE Advance("uncles", "write", DirtyPages(pager))
  <2>1. /\ phase = "uncles" /\ phase' = "write" /\ todo' = DirtyPages(pager)
    BY <1>4 DEF Advance
  <2>2. Got' = Got /\ GotPages' = GotPages /\ PartMemory' = PartMemory
        /\ FullMemory' = FullMemory /\ todo' \subseteq LoopOver'
    BY <1>0, <1>2, <2>1 DEF Got, GotPages, PartMemory, FullMemory, LoopOver, Frontier
  <2> QED
    BY <1>0, <2>1, <2>2 DEF Inv, Phases
<1>5. CASE Advance("write", "pagein", PagingNodes(DOMAIN part.pages))
  <2>1. /\ phase = "write" /\ phase' = "pagein"
        /\ todo' = PagingNodes(DOMAIN pager.pageCache)
    BY <1>5, PartFacts DEF Advance
  <2>2. Got' = Got /\ GotPages' = GotPages /\ PartMemory' = PartMemory
        /\ FullMemory' = FullMemory /\ todo' \subseteq LoopOver'
    BY <1>0, <1>1, <2>1 DEF Got, GotPages, PartMemory, FullMemory, LoopOver
  <2> QED
    BY <1>0, <2>1, <2>2 DEF Inv, Phases
<1>6. CASE Advance("pagein", "replay", DirtyPages(pager))
  <2>1. /\ phase = "pagein" /\ phase' = "replay" /\ todo' = DirtyPages(pager)
    BY <1>6 DEF Advance
  <2>2. Got' = Got /\ GotPages' = GotPages /\ PartMemory' = PartMemory
        /\ FullMemory' = FullMemory /\ todo' \subseteq LoopOver'
    BY <1>0, <1>1, <1>2, <2>1 DEF Got, GotPages, PartMemory, FullMemory, LoopOver
  <2> QED
    BY <1>0, <2>1, <2>2 DEF Inv, Phases
<1>7. CASE Advance("replay", "done", {})
  <2>1. /\ phase = "replay" /\ phase' = "done" /\ todo' = {}
    BY <1>7 DEF Advance
  <2>2. Got' = Got /\ GotPages' = GotPages /\ PartMemory' = PartMemory
        /\ FullMemory' = FullMemory /\ todo' \subseteq LoopOver'
    BY <1>0, <1>1, <2>1 DEF Got, GotPages, PartMemory, FullMemory, LoopOver
  <2> QED
    BY <1>0, <2>1, <2>2 DEF Inv, Phases
<1> QED
  BY <1>3, <1>4, <1>5, <1>6, <1>7 DEF AdvancePhase

LEMMA ClearInv ==
  ASSUME Inv, Clear
  PROVE  Inv'
<1>1. /\ phase = "done" /\ phase' = "run" /\ base' = Current /\ pager' = NewPager
      /\ part' = UnknownImage /\ full' = full /\ todo' = todo
  BY DEF Clear
<1>2. Whole(full, Current) /\ Current \in [Pages -> PageData] /\ todo = {}
  BY <1>1, StateFacts DEF Inv, FullMemory, LoopOver
<1>3. PagerInv(base', pager')
  BY <1>1, <1>2, NewPagerInv DEF IsImage
<1> QED
  BY <1>1, <1>2, <1>3 DEF Inv, FullMemory, LoopOver, Phases

LEMMA NextInv == Inv /\ [Next]_vars => Inv'
<1> SUFFICES ASSUME Inv, [Next]_vars PROVE Inv'
  OBVIOUS
<1>1. CASE UNCHANGED vars
  BY <1>1 DEF vars, Inv, FullMemory, PartMemory, Got, GotPages, LoopOver, Current, WrittenBack
<1>2. CASE Next
  BY <1>2, LoadInv, StartCommitInv, GatherPageInv, GatherUncleInv, WriteBackInv,
     AskNodeInv, ReplayWriteInv, AdvanceInv, ClearInv DEF Next
<1> QED
  BY <1>1, <1>2

LEMMA InvHolds == Spec => []Inv
BY InitInv, NextInv, PTL DEF Spec

-----------------------------------------------------------------------------
(* The theorems                                                            *)

\* The executor's image always commits to the memory, whatever zero subtrees
\* were expanded and in whatever order pages were written, and can supply every
\* page (image.cpp setPage, fixupDigests, expandZero; paging.cpp commit).
THEOREM FullImageCommits == Spec => []FullImageIsTrue
<1>1. Inv => FullImageIsTrue
  <2> SUFFICES ASSUME Inv PROVE FullImageIsTrue
    OBVIOUS
  <2>1. Whole(full, FullMemory) /\ FullMemory \in [Pages -> PageData]
    BY StateFacts DEF Inv
  <2>2. Supplied(full) = FullMemory /\ DOMAIN FullMemory = Pages
    BY <2>1, WholeSupplies
  <2> QED
    BY <2>1, <2>2 DEF FullImageIsTrue, DescribesMemory, Whole, Tree, Sound
<1> QED
  BY <1>1, InvHolds, PTL

\* The segment's image agrees with the memory the segment began with, holds the
\* root once gathered, and ends the preflight's write-back with the root of the
\* executor's image (paging.cpp commit; preflight.cpp readPaging).
THEOREM PartImageCommits == Spec => []PartImageIsTrue
<1>1. Inv => PartImageIsTrue
  <2> SUFFICES ASSUME Inv PROVE PartImageIsTrue
    OBVIOUS
  <2>1. DescribesMemory(part, PartMemory)
    <3>1. CASE phase = "run"
      BY <3>1 DEF Inv, UnknownImage, DescribesMemory
    <3>2. CASE phase # "run"
      BY <3>2 DEF Inv, Cut, Sound, DescribesMemory
    <3> QED
      BY <3>1, <3>2
  <2>2. phase \in {"write", "pagein", "replay", "done"} =>
          /\ 1 \in DOMAIN part.digests
          /\ DOMAIN part.pages = DOMAIN pager.pageCache
    BY PartFacts
  <2>3. ASSUME phase = "done" PROVE part.digests[1] = full.digests[1]
    <3>1. part.digests[1] = TrueDigests(Current)[1]
      BY <2>1, <2>2, <2>3 DEF PartMemory, DescribesMemory
    <3>2. full.digests[1] = TrueDigests(Current)[1]
      BY <2>3 DEF Inv, FullMemory, Whole, Tree, Sound
    <3> QED
      BY <3>1, <3>2
  <2> QED
    BY <2>1, <2>2, <2>3 DEF PartImageIsTrue, PartMemory
<1> QED
  BY <1>1, InvHolds, PTL

\* None of the exceptions of getPage and getDigest is ever thrown by commit,
\* readPaging or the preflight (image.cpp getPage, getDigest).
THEOREM NothingIsUnavailable == Spec => []NothingUnavailable
<1>1. Inv => NothingUnavailable
  <2> SUFFICES ASSUME Inv PROVE NothingUnavailable
    OBVIOUS
  <2>0. Whole(full, FullMemory) /\ FullMemory \in [Pages -> PageData] /\ todo \subseteq LoopOver
    BY StateFacts DEF Inv
  <2>1. ASSUME phase = "gather", NEW p \in todo PROVE HasPage(full, p)
    BY <2>0, <2>1, StateFacts, WholeHasPages DEF LoopOver
  <2>2. ASSUME phase = "uncles", NEW n \in todo PROVE HasDigest(full, n)
    BY <2>0, <2>2, WholeHasDigests DEF LoopOver, Uncles
  <2>3. ASSUME phase = "pagein", NEW n \in todo
        PROVE  HasDigest(part, 2 * n) /\ HasDigest(part, 2 * n + 1)
    <3>2. 2 * n \in DOMAIN part.digests /\ 2 * n + 1 \in DOMAIN part.digests
      BY <2>3, NodesToAsk
    <3>3. Cut(part, base, pager, Frontier(pager), DOMAIN pager.pageCache)
          /\ base \in [Pages -> PageData]
      BY <2>3, PartFacts DEF PartMemory, Inv
    <3> QED
      BY <3>2, <3>3, CutAnswers
  <2>4. ASSUME phase = "replay", NEW p \in todo PROVE HasPage(part, p)
    BY <2>0, <2>4, PartFacts, StateFacts DEF LoopOver, HasPage
  <2> QED
    BY <2>1, <2>2, <2>3, <2>4 DEF NothingUnavailable
<1> QED
  BY <1>1, InvHolds, PTL
=============================================================================
