---------------------------- MODULE PagingProofs ----------------------------
(***************************************************************************)
(* Lemmas about the page tree and the operators of Paging: for every       *)
(* depth, page size, value set, cost and image, each method of PagedMemory *)
(* keeps the pager in step with the image it caches and with its own state *)
(* table.                                                                  *)
(*                                                                         *)
(* The induction theorems of the library take a predicate, which the       *)
(* provers cannot supply; here induction is stated for sets of numbers,    *)
(* and comes from the well-foundedness of strict inclusion.                *)
(***************************************************************************)
EXTENDS Paging, TLAPS, FiniteSetTheorems

-----------------------------------------------------------------------------
(* Induction                                                               *)

LEMMA LeastElement ==
  ASSUME NEW S, S \subseteq Nat, S # {}
  PROVE  \E m \in S : \A n \in S : m <= n
<1> DEFINE T == {0 .. m : m \in S}
           R == StrictSubsetOrdering(Nat)
<1>1. IsWellFoundedOn(R, FiniteSubsetsOf(Nat))
  BY FS_StrictSubsetOrderingWellFounded
<1>2. T \subseteq FiniteSubsetsOf(Nat)
  <2>1. \A m \in Nat : 0 .. m \subseteq Nat /\ IsFiniteSet(0 .. m)
    BY FS_Interval
  <2> QED
    BY <2>1 DEF FiniteSubsetsOf
<1>3. T # {}
  OBVIOUS
<1> HIDE DEF T, R
<1>4. PICK x \in T : \A y \in T : ~ (<<y, x>> \in R)
  BY <1>1, <1>2, <1>3, WFMin
<1>5. PICK m \in S : x = 0 .. m
  BY DEF T
<1>6. ASSUME NEW n \in S, n < m PROVE FALSE
  <2>1. 0 .. n \in T
    BY DEF T
  <2>2. 0 .. n \subseteq 0 .. m /\ 0 .. n # 0 .. m
    <3>1. m \in 0 .. m /\ m \notin 0 .. n
      BY <1>6
    <3> QED
      BY <1>6, <3>1
  <2>3. <<0 .. n, 0 .. m>> \in R
    BY <2>2 DEF R, StrictSubsetOrdering
  <2> QED
    BY <1>4, <1>5, <2>1, <2>3
<1> QED
  BY <1>6

LEMMA GreatestElement ==
  ASSUME NEW S, S \subseteq Nat, S # {}, NEW b \in Nat, \A n \in S : n <= b
  PROVE  \E m \in S : \A n \in S : n <= m
<1> DEFINE T == {b - n : n \in S}
<1>1. T \subseteq Nat /\ T # {}
  <2>1. \A n \in S : b - n \in Nat
    OBVIOUS
  <2> QED
    BY <2>1
<1> HIDE DEF T
<1>2. PICK x \in T : \A y \in T : x <= y
  BY <1>1, LeastElement
<1>3. PICK m \in S : x = b - m
  BY DEF T
<1>4. \A n \in S : b - m <= b - n
  BY <1>2, <1>3 DEF T
<1> QED
  BY <1>4

LEMMA InductionUp ==
  ASSUME NEW S, NEW a \in Nat, NEW b \in Nat,
         \A n \in a .. b : a .. n - 1 \subseteq S => n \in S
  PROVE  a .. b \subseteq S
<1> DEFINE Bad == {n \in a .. b : n \notin S}
<1> SUFFICES ASSUME Bad # {} PROVE FALSE
  OBVIOUS
<1>1. Bad \subseteq Nat
  OBVIOUS
<1>2. PICK m \in Bad : \A n \in Bad : m <= n
  BY <1>1, LeastElement
<1>3. a .. m - 1 \subseteq S
  BY <1>2
<1> QED
  BY <1>3

LEMMA InductionDown ==
  ASSUME NEW S, NEW a \in Nat, NEW b \in Nat,
         \A n \in a .. b : n + 1 .. b \subseteq S => n \in S
  PROVE  a .. b \subseteq S
<1> DEFINE Bad == {n \in a .. b : n \notin S}
<1> SUFFICES ASSUME Bad # {} PROVE FALSE
  OBVIOUS
<1>1. Bad \subseteq Nat /\ \A n \in Bad : n <= b
  OBVIOUS
<1>2. PICK m \in Bad : \A n \in Bad : n <= m
  BY <1>1, GreatestElement
<1>3. m + 1 .. b \subseteq S
  BY <1>2
<1> QED
  BY <1>3

-----------------------------------------------------------------------------
(* Powers of two                                                           *)

LEMMA PowersOfTwo ==
  /\ 2 ^ 0 = 1
  /\ \A k \in 0 .. MERKLE_TREE_DEPTH + 1 : 2 ^ k \in Nat \ {0}
  /\ \A k \in 0 .. MERKLE_TREE_DEPTH : 2 ^ (k + 1) = 2 * 2 ^ k
<1> DEFINE D == MERKLE_TREE_DEPTH
           S == {k \in 0 .. D + 1 : 2 ^ k \in Nat \ {0}}
<1>1. 2 ^ 0 = 1
  BY SMT
<1>2. D \in Nat /\ \A k \in 0 .. D : 2 ^ (k + 1) = 2 * 2 ^ k
  BY GeometryAssumption
<1>3. ASSUME NEW n \in 0 .. D + 1, 0 .. n - 1 \subseteq S PROVE n \in S
  <2>1. CASE n = 0
    BY <1>1, <2>1
  <2>2. CASE n # 0
    <3>1. n - 1 \in 0 .. D /\ n - 1 \in S /\ n = (n - 1) + 1
      BY <1>2, <1>3, <2>2
    <3>2. 2 ^ n = 2 * 2 ^ (n - 1)
      BY <1>2, <3>1
    <3> QED
      BY <3>1, <3>2
  <2> QED
    BY <2>1, <2>2
<1>4. 0 .. D + 1 \subseteq S
  <2>1. \A n \in 0 .. D + 1 : 0 .. n - 1 \subseteq S => n \in S
    BY <1>3
  <2>2. D + 1 \in Nat /\ 0 \in Nat
    BY <1>2
  <2> HIDE DEF S
  <2> QED
    BY <2>1, <2>2, InductionUp
<1> QED
  BY <1>1, <1>2, <1>4

LEMMA PowersGrow ==
  ASSUME NEW j \in 0 .. MERKLE_TREE_DEPTH + 1, NEW k \in 0 .. MERKLE_TREE_DEPTH + 1, j < k
  PROVE  2 ^ j < 2 ^ k
<1> DEFINE D == MERKLE_TREE_DEPTH
           S == {n \in 0 .. D + 1 : j < n => 2 ^ j < 2 ^ n}
<1>0. D \in Nat
  BY GeometryAssumption
<1>1. ASSUME NEW n \in 0 .. D + 1, 0 .. n - 1 \subseteq S PROVE n \in S
  <2> SUFFICES ASSUME j < n PROVE 2 ^ j < 2 ^ n
    OBVIOUS
  <2>1. n - 1 \in 0 .. D /\ n - 1 \in S /\ n = (n - 1) + 1
    BY <1>0, <1>1
  <2>2. 2 ^ n = 2 * 2 ^ (n - 1) /\ 2 ^ (n - 1) \in Nat \ {0} /\ 2 ^ j \in Nat \ {0}
    BY <1>0, <2>1, PowersOfTwo
  <2>3. j = n - 1 \/ 2 ^ j < 2 ^ (n - 1)
    BY <2>1
  <2> QED
    BY <2>2, <2>3
<1>2. 0 .. D + 1 \subseteq S
  <2>1. \A n \in 0 .. D + 1 : 0 .. n - 1 \subseteq S => n \in S
    BY <1>1
  <2>2. D + 1 \in Nat /\ 0 \in Nat
    BY <1>0
  <2> HIDE DEF S
  <2> QED
    BY <2>1, <2>2, InductionUp
<1> QED
  BY <1>2

LEMMA Geometry ==
  /\ MEMORY_SIZE_PAGES \in Nat \ {0}
  /\ PAGE_SIZE_WORDS \in Nat \ {0}
  /\ Strides \subseteq Nat \ {0}
  /\ 1 \in Strides
<1>1. MERKLE_TREE_DEPTH \in Nat /\ PAGE_SIZE_WORDS \in Nat \ {0}
  BY GeometryAssumption
<1>2. \A k \in 0 .. MERKLE_TREE_DEPTH : 2 ^ k \in Nat \ {0}
  BY <1>1, PowersOfTwo
<1>3. 0 \in 0 .. MERKLE_TREE_DEPTH /\ 2 ^ 0 = 1
  BY <1>1, PowersOfTwo
<1>4. MEMORY_SIZE_PAGES \in Nat \ {0}
  BY <1>1, <1>2 DEF MEMORY_SIZE_PAGES
<1>5. Strides \subseteq Nat \ {0} /\ 1 \in Strides
  BY <1>2, <1>3, Zenon DEF Strides
<1> QED
  BY <1>1, <1>4, <1>5

\* A stride is one or twice another, and its double is one unless it reaches
\* from a leaf to the root.
LEMMA StrideStep ==
  ASSUME NEW d \in Strides
  PROVE  /\ d = 1 \/ \E e \in Strides : d = 2 * e
         /\ d = MEMORY_SIZE_PAGES \/ 2 * d \in Strides
<1> DEFINE D == MERKLE_TREE_DEPTH
<1>1. PICK k \in 0 .. D : d = 2 ^ k
  BY DEF Strides
<1>2. D \in Nat /\ \A n \in 0 .. D : 2 ^ (n + 1) = 2 * 2 ^ n
  BY GeometryAssumption
<1>3. d = 1 \/ \E e \in Strides : d = 2 * e
  <2>1. CASE k = 0
    BY <1>1, <2>1, PowersOfTwo
  <2>2. CASE k # 0
    <3>1. k - 1 \in 0 .. D /\ k = (k - 1) + 1
      BY <1>2, <2>2
    <3>2. d = 2 * 2 ^ (k - 1) /\ 2 ^ (k - 1) \in Strides
      BY <1>1, <1>2, <3>1 DEF Strides
    <3> QED
      BY <3>2
  <2> QED
    BY <2>1, <2>2
<1>4. d = MEMORY_SIZE_PAGES \/ 2 * d \in Strides
  <2>1. CASE k = D
    BY <1>1, <2>1 DEF MEMORY_SIZE_PAGES
  <2>2. CASE k # D
    <3>1. k + 1 \in 0 .. D /\ 2 * d = 2 ^ (k + 1)
      BY <1>1, <1>2, <2>2
    <3> QED
      BY <3>1 DEF Strides
  <2> QED
    BY <2>1, <2>2
<1> QED
  BY <1>3, <1>4

-----------------------------------------------------------------------------
(* Words                                                                   *)

\* The words of a page lie in it, each at its offset.
LEMMA WordOfPage ==
  ASSUME NEW p \in Nat, NEW o \in Offsets
  PROVE  /\ p * PAGE_SIZE_WORDS + o \in Nat
         /\ PageOf(p * PAGE_SIZE_WORDS + o) = p /\ OffsetOf(p * PAGE_SIZE_WORDS + o) = o
<1> DEFINE P == PAGE_SIZE_WORDS
           w == p * P + o
           q == w \div P
           r == w % P
<1>1. P \in Nat \ {0} /\ o \in 0 .. P - 1
  BY Geometry DEF Offsets
<1>2. p * P \in Nat
  BY <1>1, SMT
<1>3. w \in Nat
  BY <1>1, <1>2
<1> HIDE DEF w
<1>4. q \in Nat /\ r \in 0 .. P - 1 /\ w = P * q + r
  BY <1>1, <1>3, SMT
<1> HIDE DEF P, q, r
<1>5. w = p * P + o
  BY DEF w, P
<1>6. ASSUME q < p PROVE FALSE
  <2>1. P * (q + 1) <= p * P
    BY <1>1, <1>4, <1>6, SMT
  <2>2. P * (q + 1) = P * q + P
    BY <1>1, <1>4, SMT
  <2>3. P * q \in Int
    BY <1>1, <1>4, SMT
  <2> QED
    BY <1>1, <1>2, <1>4, <1>5, <2>1, <2>2, <2>3
<1>7. ASSUME p < q PROVE FALSE
  <2>1. (p + 1) * P <= P * q
    BY <1>1, <1>4, <1>7, SMT
  <2>2. (p + 1) * P = p * P + P
    BY <1>1, SMT
  <2>3. P * q \in Int
    BY <1>1, <1>4, SMT
  <2> QED
    BY <1>1, <1>2, <1>4, <1>5, <2>1, <2>2, <2>3
<1>8. q = p
  BY <1>4, <1>6, <1>7
<1>9. r = o
  BY <1>1, <1>2, <1>4, <1>5, <1>8, SMT
<1> QED
  BY <1>3, <1>8, <1>9 DEF PageOf, OffsetOf, P, q, r, w

-----------------------------------------------------------------------------
(* Pages, nodes and paths                                                  *)

\* Pages and inner nodes are disjoint sets of nodes.
LEMMA LeafIsNode ==
  ASSUME NEW p \in Pages
  PROVE  Leaf(p) \in Nodes /\ Leaf(p) \notin Inner
BY Geometry DEF Pages, Leaf, Nodes, Inner

LEMMA NodesAre ==
  /\ Nodes \subseteq Nat \ {0} /\ Inner \subseteq Nodes /\ 1 \in Nodes
  /\ \A n \in Inner : 2 * n \in Nodes /\ 2 * n + 1 \in Nodes
  /\ \A n \in Nodes : n # 1 => n \div 2 \in Inner /\ n \in {2 * (n \div 2), 2 * (n \div 2) + 1}
  /\ \A n \in Nodes : n \notin Inner => n - MEMORY_SIZE_PAGES \in Pages
                                        /\ n = Leaf(n - MEMORY_SIZE_PAGES)
<1>1. MEMORY_SIZE_PAGES \in Nat \ {0}
  BY Geometry
<1> QED
  BY <1>1, SMT DEF Nodes, Inner, Pages, Leaf

LEMMA PathInNodes == \A idx : Path(idx) \subseteq Nodes
BY DEF Path

LEMMA DivideTwice ==
  ASSUME NEW x \in Nat, NEW d \in Nat \ {0}
  PROVE  x \div (2 * d) = (x \div 2) \div d
<1> DEFINE q == x \div 2
           t == q \div d
           r == x % 2
           s == q % d
<1>1. q \in Nat /\ r \in 0 .. 1 /\ x = 2 * q + r
  BY SMT
<1>2. t \in Nat /\ s \in 0 .. d - 1 /\ q = d * t + s
  BY <1>1, SMT
<1> HIDE DEF q, t, r, s
<1>3. 2 * d \in Nat \ {0} /\ 2 * s + r \in 0 .. 2 * d - 1
  BY <1>1, <1>2, SMT
<1>4. x = (2 * d) * t + (2 * s + r)
  BY <1>1, <1>2, SMT
<1>5. \A m \in Nat \ {0}, u \in Nat : \A v \in 0 .. m - 1 : (m * u + v) \div m = u
  BY SMT
<1>6. x \div (2 * d) = t
  BY <1>2, <1>3, <1>4, <1>5
<1> QED
  BY <1>6 DEF t, q

\* One step of the climb.
LEMMA PathStep ==
  /\ Path(1) = {1}
  /\ \A n \in Nodes : n # 1 => Path(n) = {n} \cup Path(n \div 2)
<1>0. /\ MEMORY_SIZE_PAGES \in Nat \ {0} /\ Strides \subseteq Nat \ {0} /\ 1 \in Strides
  BY Geometry
<1>1. Path(1) = {1}
  <2>1. \A d \in Nat \ {0} : 1 \div d \in {0, 1}
    BY SMT
  <2>2. 1 \div 1 = 1
    BY SMT
  <2> QED
    BY <1>0, <2>1, <2>2, NodesAre DEF Path, Nodes
<1>2. ASSUME NEW n \in Nodes, n # 1 PROVE Path(n) = {n} \cup Path(n \div 2)
  <2>0. n \in Nat /\ n < 2 * MEMORY_SIZE_PAGES /\ n \div 2 \in Nat /\ n \div 2 \in Nodes
    BY <1>0, <1>2, NodesAre DEF Nodes
  <2>1. n \in Path(n)
    <3>1. n \div 1 = n
      BY <2>0, SMT
    <3> QED
      BY <1>0, <3>1 DEF Path
  <2>2. ASSUME NEW m \in Path(n), m # n PROVE m \in Path(n \div 2)
    <3>1. PICK d \in Strides : m = n \div d
      BY DEF Path
    <3>2. d # 1
      BY <2>0, <2>2, <3>1, SMT
    <3>3. PICK e \in Strides : d = 2 * e
      BY <3>2, StrideStep
    <3>4. m = (n \div 2) \div e
      BY <1>0, <2>0, <3>1, <3>3, DivideTwice
    <3> QED
      BY <3>4, PathInNodes DEF Path
  <2>3. ASSUME NEW m \in Path(n \div 2) PROVE m \in Path(n)
    <3>1. PICK e \in Strides : m = (n \div 2) \div e
      BY DEF Path
    <3>2. m = n \div (2 * e)
      BY <1>0, <2>0, <3>1, DivideTwice
    <3>3. m \in Nodes
      BY PathInNodes
    <3>4. CASE e = MEMORY_SIZE_PAGES
      <4>1. (n \div 2) < MEMORY_SIZE_PAGES
        BY <1>0, <2>0, SMT
      <4>2. \A x \in Nat, y \in Nat \ {0} : x < y => x \div y = 0
        BY SMT
      <4>3. m = 0
        BY <1>0, <2>0, <3>1, <3>4, <4>1, <4>2
      <4> QED
        BY <3>3, <4>3, NodesAre
    <3>5. CASE 2 * e \in Strides
      BY <3>2, <3>3, <3>5 DEF Path
    <3> QED
      BY <3>4, <3>5, StrideStep
  <2> QED
    BY <2>1, <2>2, <2>3
<1> QED
  BY <1>1, <1>2

LEMMA OnOwnPath ==
  ASSUME NEW n \in Nodes
  PROVE  n \in Path(n) /\ 1 \in Path(n) /\ \A a \in Path(n) : a <= n
<1> DEFINE M == 2 * MEMORY_SIZE_PAGES - 1
           S == {m \in Nodes : m \in Path(m) /\ 1 \in Path(m) /\ \A a \in Path(m) : a <= m}
<1>0. M \in Nat /\ Nodes = 1 .. M /\ Nodes \subseteq Nat
  BY Geometry DEF Nodes
<1>1. ASSUME NEW m \in 1 .. M, 1 .. m - 1 \subseteq S PROVE m \in S
  <2>1. CASE m = 1
    BY <1>0, <2>1, PathStep
  <2>2. CASE m # 1
    <3>1. m \in Nodes /\ m \div 2 \in Nodes /\ m \div 2 \in 1 .. m - 1 /\ m \in Nat
      BY <1>0, <2>2, NodesAre, SMT
    <3>2. Path(m) = {m} \cup Path(m \div 2) /\ m \div 2 \in S
      BY <1>1, <2>2, <3>1, PathStep
    <3>3. \A a \in Path(m \div 2) : a \in Nat /\ a <= m
      BY <1>0, <3>1, <3>2, PathInNodes
    <3> QED
      BY <3>1, <3>2, <3>3
  <2> QED
    BY <2>1, <2>2
<1>2. 1 .. M \subseteq S
  <2>1. \A m \in 1 .. M : 1 .. m - 1 \subseteq S => m \in S
    BY <1>1
  <2> HIDE DEF S, M
  <2> QED
    BY <1>0, <2>1, InductionUp
<1> QED
  BY <1>0, <1>2

\* Of two nodes on one path the smaller is an ancestor of the greater.
LEMMA PathIsChain ==
  ASSUME NEW n \in Nodes, NEW a \in Path(n)
  PROVE  /\ Path(a) \subseteq Path(n)
         /\ \A b \in Path(n) : b <= a => b \in Path(a)
<1> DEFINE M == 2 * MEMORY_SIZE_PAGES - 1
           Chain(m) == \A c \in Path(m) : /\ Path(c) \subseteq Path(m)
                                          /\ \A b \in Path(m) : b <= c => b \in Path(c)
           S == {m \in Nodes : Chain(m)}
<1>0. M \in Nat /\ Nodes = 1 .. M /\ Nodes \subseteq Nat
  BY Geometry DEF Nodes
<1>1. ASSUME NEW m \in 1 .. M, 1 .. m - 1 \subseteq S PROVE m \in S
  <2>1. CASE m = 1
    BY <1>0, <2>1, PathStep
  <2>2. CASE m # 1
    <3>1. m \in Nodes /\ m \div 2 \in Nodes /\ m \div 2 \in 1 .. m - 1 /\ m \in Nat
      BY <1>0, <2>2, NodesAre, SMT
    <3>2. Path(m) = {m} \cup Path(m \div 2) /\ m \div 2 \in S
      BY <1>1, <2>2, <3>1, PathStep
    <3>3. \A b \in Path(m \div 2) : b \in Nat /\ b < m
      BY <1>0, <3>1, OnOwnPath, PathInNodes
    <3>4. ASSUME NEW c \in Path(m)
          PROVE  Path(c) \subseteq Path(m) /\ \A b \in Path(m) : b <= c => b \in Path(c)
      <4>1. CASE c = m
        BY <4>1
      <4>2. CASE c \in Path(m \div 2)
        <5>1. Path(c) \subseteq Path(m \div 2)
              /\ \A b \in Path(m \div 2) : b <= c => b \in Path(c)
          BY <3>2, <4>2
        <5>2. ~ (m <= c)
          BY <3>1, <3>3, <4>2
        <5> QED
          BY <3>2, <5>1, <5>2
      <4> QED
        BY <3>2, <4>1, <4>2
    <3> QED
      BY <3>1, <3>4
  <2> QED
    BY <2>1, <2>2
<1>2. 1 .. M \subseteq S
  <2>1. \A m \in 1 .. M : 1 .. m - 1 \subseteq S => m \in S
    BY <1>1
  <2> HIDE DEF S, M
  <2> QED
    BY <1>0, <2>1, InductionUp
<1> QED
  BY <1>0, <1>2

\* Below an ancestor the path goes on to exactly one of its children.
LEMMA PathGoesOn ==
  ASSUME NEW n \in Nodes, NEW a \in Path(n), a # n
  PROVE  /\ a \in Inner
         /\ \E c \in Path(n) : /\ c \in {2 * a, 2 * a + 1}
                               /\ \A b \in Path(n) : b > a => b >= c
<1> DEFINE Above == {b \in Path(n) : b > a}
<1>1. /\ n \in Above /\ Above \subseteq Nat
      /\ a \in Nodes /\ a \in Nat /\ n \in Nat
  <2>1. /\ a \in Nodes /\ n \in Path(n) /\ a \in Nat /\ n \in Nat /\ a <= n
        /\ Path(n) \subseteq Nat
    BY OnOwnPath, PathInNodes, NodesAre
  <2> QED
    BY <2>1
<1>2. PICK c \in Above : \A b \in Above : c <= b
  <2> HIDE DEF Above
  <2>1. Above # {}
    BY <1>1
  <2> QED
    BY <1>1, <2>1, LeastElement
<1>3. c \in Path(n) /\ c \in Nodes /\ c > a /\ c # 1 /\ c \in Nat
  BY <1>1, PathInNodes, NodesAre
<1>4. Path(c) = {c} \cup Path(c \div 2) /\ c \div 2 \in Inner
      /\ c \in {2 * (c \div 2), 2 * (c \div 2) + 1}
  BY <1>3, PathStep, NodesAre
<1>5. c \div 2 \in Path(c) /\ c \div 2 \in Nodes /\ c \div 2 < c /\ c \div 2 \in Nat
  <2>1. c \div 2 \in Nodes
    BY <1>4, NodesAre
  <2> QED
    BY <1>3, <1>4, <2>1, OnOwnPath, SMT
<1>6. c \div 2 \in Path(n)
  BY <1>3, <1>5, PathIsChain
<1>7. c \div 2 <= a
  BY <1>1, <1>2, <1>3, <1>5, <1>6
<1>8. a \in Path(c \div 2)
  <2>1. a \in Path(c)
    BY <1>1, <1>3, PathIsChain
  <2> QED
    BY <1>1, <1>3, <1>4, <2>1
<1>9. a = c \div 2
  BY <1>1, <1>5, <1>7, <1>8, OnOwnPath
<1> QED
  BY <1>2, <1>3, <1>4, <1>9

\* The two children of a node never lie on one path.
LEMMA OneChildOnPath ==
  ASSUME NEW n \in Nodes, NEW a \in Inner
  PROVE  ~ (2 * a \in Path(n) /\ 2 * a + 1 \in Path(n))
<1> SUFFICES ASSUME 2 * a \in Path(n), 2 * a + 1 \in Path(n)
             PROVE  FALSE
  OBVIOUS
<1>1. a \in Nat \ {0} /\ a \in Nodes /\ 2 * a + 1 \in Nodes
  BY NodesAre
<1>2. 2 * a \in Path(2 * a + 1)
  BY <1>1, PathIsChain
<1>3. (2 * a + 1) \div 2 = a
  BY <1>1, SMT
<1>4. 2 * a \in Path(a)
  BY <1>1, <1>2, <1>3, PathStep
<1> QED
  BY <1>1, <1>4, OnOwnPath

\* A node's page or pages: every node lies on the path of some leaf.
LEMMA SomeLeafBelow ==
  ASSUME NEW n \in Nodes
  PROVE  \E p \in Pages : n \in Path(Leaf(p))
<1> DEFINE M == 2 * MEMORY_SIZE_PAGES - 1
           S == {m \in Nodes : \E p \in Pages : m \in Path(Leaf(p))}
<1>0. M \in Nat /\ Nodes = 1 .. M /\ Nodes \subseteq Nat
  BY Geometry DEF Nodes
<1>1. ASSUME NEW m \in 1 .. M, m + 1 .. M \subseteq S PROVE m \in S
  <2>1. CASE m \notin Inner
    BY <1>0, <2>1, NodesAre, OnOwnPath
  <2>2. CASE m \in Inner
    <3>1. 2 * m \in m + 1 .. M /\ 2 * m \in Nodes /\ m \in Nat /\ 2 * m # 1
          /\ (2 * m) \div 2 = m
      BY <1>0, <2>2, NodesAre, SMT
    <3>2. PICK p \in Pages : 2 * m \in Path(Leaf(p))
      BY <1>1, <3>1
    <3>3. m \in Path(2 * m)
      BY <1>0, <3>1, PathStep, OnOwnPath
    <3>4. m \in Path(Leaf(p))
      BY <3>2, <3>3, LeafIsNode, PathIsChain
    <3> QED
      BY <1>0, <3>4
  <2> QED
    BY <2>1, <2>2
<1>2. 1 .. M \subseteq S
  <2>1. \A m \in 1 .. M : m + 1 .. M \subseteq S => m \in S
    BY <1>1
  <2> HIDE DEF S, M
  <2> QED
    BY <1>0, <2>1, InductionDown
<1> QED
  BY <1>0, <1>2

\* The climb from a leaf meets no other leaf: fixupCosts changes the state of
\* one page only.
LEMMA OneLeafPerPath ==
  ASSUME NEW p \in Pages, NEW q \in Pages, Leaf(q) \in Path(Leaf(p))
  PROVE  q = p
<1>1. Leaf(q) = Leaf(p)
  BY LeafIsNode, PathGoesOn
<1> QED
  BY <1>1, Geometry DEF Leaf, Pages

LEMMA LeafOnOwnPath ==
  ASSUME NEW p \in Pages
  PROVE  Leaf(p) \in Path(Leaf(p))
BY LeafIsNode, OnOwnPath

\* Pages below a child are below its parent.
LEMMA BelowChild ==
  ASSUME NEW n \in Inner, NEW p \in Pages,
         2 * n \in Path(Leaf(p)) \/ 2 * n + 1 \in Path(Leaf(p))
  PROVE  n \in Path(Leaf(p))
<1>1. PICK c \in Path(Leaf(p)) : c \in {2 * n, 2 * n + 1}
  OBVIOUS
<1>2. n \in Nat \ {0} /\ n \in Nodes
  BY NodesAre
<1>3. c \in Nodes /\ c # 1 /\ c \div 2 = n
  BY <1>1, <1>2, PathInNodes
<1>4. n \in Path(c)
  BY <1>2, <1>3, PathStep, OnOwnPath
<1> QED
  BY <1>4, LeafIsNode, PathIsChain

-----------------------------------------------------------------------------
(* Words                                                                   *)

\* A word below the limit lies in a page, at an offset within it.
LEMMA WordInPage ==
  ASSUME NEW w \in Nat, w < WORD_LIMIT
  PROVE  PageOf(w) \in Pages /\ OffsetOf(w) \in Offsets
<1> DEFINE P == PAGE_SIZE_WORDS
           M == MEMORY_SIZE_PAGES
           q == w \div P
           r == w % P
<1>1. P \in Nat \ {0} /\ M \in Nat \ {0}
  BY Geometry
<1>2. q \in Nat /\ r \in 0 .. P - 1 /\ w = P * q + r
  BY <1>1, SMT
<1>3. w < M * P
  BY DEF WORD_LIMIT
<1> HIDE DEF P, M, q, r
<1>4. q < M
  <2>1. ASSUME q >= M PROVE P * q >= M * P
    BY <1>1, <1>2, <2>1, SMT
  <2> QED
    BY <1>1, <1>2, <1>3, <2>1, SMT
<1> QED
  BY <1>1, <1>2, <1>4 DEF PageOf, OffsetOf, Pages, Offsets, P, M, q, r

-----------------------------------------------------------------------------
(* The state table                                                         *)

StateTables == [Nodes -> {UNLOADED, LOADED, DIRTY}]

\* fixupCosts raises exactly the nodes of the climb that are below the goal.
LEMMA FixupStateRaises ==
  ASSUME NEW st \in StateTables, NEW idx, NEW goal \in {LOADED, DIRTY}
  PROVE  /\ FixupState(st, idx, goal) \in StateTables
         /\ \A n \in Nodes :
              FixupState(st, idx, goal)[n] =
                IF n \in Path(idx) /\ st[n] < goal THEN goal ELSE st[n]
BY PathInNodes DEF FixupState, Raised, StateTables, UNLOADED, LOADED, DIRTY

\* A climb from one page leaves every other page's own state alone.
LEMMA FixupOnLeaves ==
  ASSUME NEW st \in StateTables, NEW p \in Pages, NEW goal \in {LOADED, DIRTY}
  PROVE  \A q \in Pages :
           FixupState(st, Leaf(p), goal)[Leaf(q)] =
             IF q = p /\ st[Leaf(p)] < goal THEN goal ELSE st[Leaf(q)]
<1> SUFFICES ASSUME NEW q \in Pages
             PROVE  FixupState(st, Leaf(p), goal)[Leaf(q)] =
                      IF q = p /\ st[Leaf(p)] < goal THEN goal ELSE st[Leaf(q)]
  OBVIOUS
<1>1. Leaf(q) \in Nodes
  BY LeafIsNode
<1>2. FixupState(st, Leaf(p), goal)[Leaf(q)] =
        IF Leaf(q) \in Path(Leaf(p)) /\ st[Leaf(q)] < goal
        THEN goal ELSE st[Leaf(q)]
  BY <1>1, FixupStateRaises
<1>3. Leaf(q) \in Path(Leaf(p)) <=> q = p
  BY OneLeafPerPath, LeafOnOwnPath
<1> QED
  BY <1>2, <1>3

\* The state of every inner node is the highest state of the pages below it,
\* for one table.
Maximal(st) ==
  \A n \in Inner, s \in {LOADED, DIRTY} :
    st[n] >= s <=> \E p \in Pages : n \in Path(Leaf(p)) /\ st[Leaf(p)] >= s

LEMMA FixupKeepsMaximal ==
  ASSUME NEW st \in StateTables, NEW p \in Pages, NEW goal \in {LOADED, DIRTY},
         Maximal(st)
  PROVE  Maximal(FixupState(st, Leaf(p), goal))
<1> DEFINE new == FixupState(st, Leaf(p), goal)
<1>0. \A n \in Nodes : st[n] \in {0, 1, 2}
  BY DEF StateTables, UNLOADED, LOADED, DIRTY
<1>1. \A n \in Nodes : new[n] = IF n \in Path(Leaf(p)) /\ st[n] < goal
                                THEN goal ELSE st[n]
  BY FixupStateRaises
<1>2. \A q \in Pages : new[Leaf(q)] = IF q = p /\ st[Leaf(p)] < goal
                                      THEN goal ELSE st[Leaf(q)]
  BY FixupOnLeaves
<1>3. \A q \in Pages : Leaf(q) \in Nodes
  BY LeafIsNode
<1> SUFFICES ASSUME NEW n \in Inner, NEW s \in {LOADED, DIRTY}
             PROVE  new[n] >= s <=> \E q \in Pages : /\ n \in Path(Leaf(q))
                                                    /\ new[Leaf(q)] >= s
  BY DEF Maximal
<1>4. n \in Nodes
  BY Geometry DEF Inner, Nodes
<1>5. goal \in {1, 2} /\ s \in {1, 2}
  BY DEF LOADED, DIRTY
<1>6. st[n] >= s <=> \E q \in Pages : n \in Path(Leaf(q)) /\ st[Leaf(q)] >= s
  BY DEF Maximal
<1> HIDE DEF new
<1>7. ASSUME new[n] >= s
      PROVE  \E q \in Pages : n \in Path(Leaf(q)) /\ new[Leaf(q)] >= s
  <2>1. CASE st[n] >= s
    <3>1. PICK q \in Pages : n \in Path(Leaf(q)) /\ st[Leaf(q)] >= s
      BY <1>6, <2>1
    <3>2. new[Leaf(q)] >= s
      BY <1>0, <1>2, <1>3, <1>5, <3>1
    <3> QED
      BY <3>1, <3>2
  <2>2. CASE ~ (st[n] >= s)
    <3>1. n \in Path(Leaf(p)) /\ goal >= s
      BY <1>1, <1>4, <1>7, <2>2
    <3>2. new[Leaf(p)] >= s
      BY <1>0, <1>2, <1>3, <1>5, <3>1
    <3> QED
      BY <3>1, <3>2
  <2> QED
    BY <2>1, <2>2
<1>8. ASSUME NEW q \in Pages, n \in Path(Leaf(q)), new[Leaf(q)] >= s
      PROVE  new[n] >= s
  <2>1. CASE st[Leaf(q)] >= s
    <3>1. st[n] >= s
      BY <1>6, <1>8, <2>1
    <3> QED
      BY <1>0, <1>1, <1>4, <1>5, <3>1
  <2>2. CASE ~ (st[Leaf(q)] >= s)
    <3>1. q = p /\ goal >= s
      BY <1>2, <1>8, <2>2
    <3> QED
      BY <1>0, <1>1, <1>4, <1>5, <1>8, <3>1
  <2> QED
    BY <2>1, <2>2
<1> QED
  BY <1>7, <1>8

-----------------------------------------------------------------------------
(* The charge for Merkle nodes                                             *)

AtLeast(st, s) == {n \in Inner : st[n] >= s}

LEMMA InnerFinite ==
  /\ IsFiniteSet(Nodes) /\ IsFiniteSet(Inner) /\ IsFiniteSet(Pages)
  /\ \A S : S \subseteq Nodes \/ S \subseteq Inner \/ S \subseteq Pages
              => IsFiniteSet(S) /\ Cardinality(S) \in Nat
<1>1. IsFiniteSet(Nodes) /\ IsFiniteSet(Inner) /\ IsFiniteSet(Pages)
  BY Geometry, FS_Interval DEF Nodes, Inner, Pages
<1> QED
  BY <1>1, FS_Subset, FS_CardinalityType

\* The union of disjoint finite sets has as many elements as both together.
LEMMA CardinalityOfDisjointUnion ==
  ASSUME NEW S, NEW T, IsFiniteSet(S), IsFiniteSet(T), S \cap T = {}
  PROVE  Cardinality(S \cup T) = Cardinality(S) + Cardinality(T)
<1>1. Cardinality(S \cup T) = Cardinality(S) + Cardinality(T) - Cardinality(S \cap T)
  BY FS_Union
<1>2. Cardinality(S \cap T) = 0
  BY FS_EmptySet
<1>3. Cardinality(S) \in Nat /\ Cardinality(T) \in Nat
  BY FS_CardinalityType
<1> QED
  BY <1>1, <1>2, <1>3

\* What fixupCosts adds to pagingCycles is what the node sets grow by: a node
\* is paid for when it becomes LOADED and again when it becomes DIRTY, however
\* many pages below it are touched.
LEMMA ChargeIsGrowth ==
  ASSUME NEW st \in StateTables, NEW idx, NEW goal \in {LOADED, DIRTY}
  PROVE  LET new == FixupState(st, idx, goal)
         IN  /\ FixupCharge(st, idx, goal) \in Nat
             /\ CYCLE_COST_MERKLE * ( Cardinality(AtLeast(new, LOADED))
                                      + Cardinality(AtLeast(new, DIRTY)) )
                = CYCLE_COST_MERKLE * ( Cardinality(AtLeast(st, LOADED))
                                        + Cardinality(AtLeast(st, DIRTY)) )
                  + FixupCharge(st, idx, goal)
<1> DEFINE new   == FixupState(st, idx, goal)
           up    == Raised(st, idx, goal) \cap Inner
           fresh == {n \in up : st[n] = UNLOADED}
           dirt  == IF goal = DIRTY THEN up ELSE {}
           a     == Cardinality(AtLeast(st, LOADED))
           b     == Cardinality(AtLeast(st, DIRTY))
           c     == Cardinality(fresh)
           d     == Cardinality(dirt)
<1>0. \A n \in Nodes : st[n] \in {0, 1, 2}
  BY DEF StateTables, UNLOADED, LOADED, DIRTY
<1>1. \A n \in Nodes : new[n] = IF n \in Path(idx) /\ st[n] < goal THEN goal ELSE st[n]
  BY FixupStateRaises
<1>2. Inner \subseteq Nodes
  BY Geometry DEF Inner, Nodes
<1>3. up = {n \in Inner : n \in Path(idx) /\ st[n] < goal}
  BY DEF Raised
<1> HIDE DEF new, up
<1>4. AtLeast(new, LOADED) = AtLeast(st, LOADED) \cup fresh
  BY <1>0, <1>1, <1>2, <1>3 DEF AtLeast, UNLOADED, LOADED, DIRTY
<1>5. AtLeast(new, DIRTY) = AtLeast(st, DIRTY) \cup dirt
  BY <1>0, <1>1, <1>2, <1>3 DEF AtLeast, LOADED, DIRTY
<1>6. AtLeast(st, LOADED) \cap fresh = {} /\ AtLeast(st, DIRTY) \cap dirt = {}
  BY <1>0, <1>2, <1>3 DEF AtLeast, UNLOADED, LOADED, DIRTY
<1>7. /\ AtLeast(st, LOADED) \subseteq Inner
      /\ AtLeast(st, DIRTY) \subseteq Inner
      /\ fresh \subseteq Inner
      /\ dirt \subseteq Inner
  BY <1>3 DEF AtLeast
<1>8. /\ IsFiniteSet(AtLeast(st, LOADED)) /\ IsFiniteSet(AtLeast(st, DIRTY))
      /\ IsFiniteSet(fresh) /\ IsFiniteSet(dirt)
      /\ a \in Nat /\ b \in Nat /\ c \in Nat /\ d \in Nat
  BY <1>7, InnerFinite
<1>9. Cardinality(AtLeast(new, LOADED)) = a + c
  BY <1>4, <1>6, <1>8, CardinalityOfDisjointUnion
<1>10. Cardinality(AtLeast(new, DIRTY)) = b + d
  BY <1>5, <1>6, <1>8, CardinalityOfDisjointUnion
<1>11. FixupCharge(st, idx, goal) = CYCLE_COST_MERKLE * (c + d)
  <2>1. d = IF goal = DIRTY THEN Cardinality(up) ELSE 0
    BY FS_EmptySet
  <2> QED
    BY <2>1 DEF FixupCharge, up
<1> HIDE DEF a, b, c, d
<1>12. CYCLE_COST_MERKLE * ((a + c) + (b + d))
         = CYCLE_COST_MERKLE * (a + b) + CYCLE_COST_MERKLE * (c + d)
  BY <1>8, CostAssumption, SMT
<1>13. CYCLE_COST_MERKLE * (c + d) \in Nat
  BY <1>8, CostAssumption, SMT
<1> QED
  BY <1>9, <1>10, <1>11, <1>12, <1>13 DEF new, a, b

-----------------------------------------------------------------------------
(* One pager over one image                                                *)

\* The pages an image can supply, and the words in them.
IsImage(img) == DOMAIN img \subseteq Pages /\ img \in [DOMAIN img -> PageData]
WordsOf(img) == {w \in 0 .. WORD_LIMIT - 1 : PageOf(w) \in DOMAIN img}

PagerTyped(img, pg) ==
  /\ pg.stateTable \in StateTables
  /\ pg.pagingCycles \in Nat
  /\ pg.pageCache \in [{p \in DOMAIN img : IsCached(pg, p)} -> PageData]
  /\ \A p \in Pages \ DOMAIN img : ~ IsCached(pg, p)

Coherent(img, pg) ==
  \A p \in DOMAIN pg.pageCache :
    pg.stateTable[Leaf(p)] = LOADED => pg.pageCache[p] = img[p]

\* CostIsExact, with the node lists replaced by what the state table says of
\* the nodes; the two agree by Maximal.
CostTracksTable(pg) ==
  pg.pagingCycles =
    CYCLE_COST_EXTRA
    + CYCLE_COST_PAGE * ( Cardinality(DOMAIN pg.pageCache)
                          + Cardinality(DirtyPages(pg)) )
    + CYCLE_COST_MERKLE * ( Cardinality(AtLeast(pg.stateTable, LOADED))
                            + Cardinality(AtLeast(pg.stateTable, DIRTY)) )

PagerInv(img, pg) ==
  /\ PagerTyped(img, pg)
  /\ Coherent(img, pg)
  /\ Maximal(pg.stateTable)
  /\ CostTracksTable(pg)

\* A cleared pager: nothing cached, nothing charged but the fixed cost.
LEMMA NewPagerInv ==
  ASSUME NEW img, IsImage(img)
  PROVE  PagerInv(img, NewPager)
<1> DEFINE pg == NewPager
<1>1. \A n \in Nodes : pg.stateTable[n] = UNLOADED
  BY DEF NewPager
<1>2. pg.pageCache = [p \in {} |-> 0] /\ DOMAIN pg.pageCache = {}
  BY DEF NewPager
<1>3. \A p \in Pages : ~ IsCached(pg, p)
  BY <1>1, LeafIsNode DEF IsCached
<1>4. PagerTyped(img, pg)
  <2>1. pg.stateTable \in StateTables
    BY DEF NewPager, StateTables
  <2>2. pg.pagingCycles \in Nat
    BY CostAssumption DEF NewPager
  <2>3. {p \in DOMAIN img : IsCached(pg, p)} = {}
    BY <1>3 DEF IsImage
  <2>4. pg.pageCache \in [{} -> PageData]
    BY <1>2
  <2> QED
    BY <1>3, <2>1, <2>2, <2>3, <2>4 DEF PagerTyped
<1>5. Maximal(pg.stateTable)
  <2>1. Inner \subseteq Nodes
    BY Geometry DEF Inner, Nodes
  <2> QED
    BY <1>1, <2>1, LeafIsNode DEF Maximal, UNLOADED, LOADED, DIRTY
<1>6. CostTracksTable(pg)
  <2>1. DirtyPages(pg) = {}
    BY <1>2 DEF DirtyPages
  <2>2. AtLeast(pg.stateTable, LOADED) = {} /\ AtLeast(pg.stateTable, DIRTY) = {}
    BY <1>1, Geometry DEF AtLeast, Inner, Nodes, UNLOADED, LOADED, DIRTY
  <2>3. pg.pagingCycles = CYCLE_COST_EXTRA
    BY DEF NewPager
  <2>4. Cardinality({}) = 0
    BY FS_EmptySet
  <2>5. CYCLE_COST_EXTRA + CYCLE_COST_PAGE * (0 + 0) + CYCLE_COST_MERKLE * (0 + 0)
          = CYCLE_COST_EXTRA
    BY CostAssumption, SMT
  <2> QED
    BY <1>2, <2>1, <2>2, <2>3, <2>4, <2>5 DEF CostTracksTable
<1> QED
  BY <1>2, <1>4, <1>5, <1>6 DEF PagerInv, Coherent

\* Loading a page that is not cached keeps the invariant, and disturbs no
\* other page.
LEMMA LoadPageInv ==
  ASSUME NEW img, IsImage(img), NEW pg, PagerInv(img, pg),
         NEW p \in DOMAIN img, ~ IsCached(pg, p)
  PROVE  LET new == LoadPage(img, pg, p)
         IN  /\ PagerInv(img, new)
             /\ new.pageCache = CacheWith(pg.pageCache, p, img[p])
             /\ \A q \in Pages : new.stateTable[Leaf(q)] =
                  IF q = p THEN LOADED ELSE pg.stateTable[Leaf(q)]
<1> DEFINE new == LoadPage(img, pg, p)
           st  == pg.stateTable
           cached == {q \in DOMAIN img : IsCached(pg, q)}
<1>0. p \in Pages /\ LOADED \in {LOADED, DIRTY} /\ st \in StateTables
  BY DEF IsImage, PagerInv, PagerTyped
<1>1. /\ new.pageCache = CacheWith(pg.pageCache, p, img[p])
      /\ new.stateTable = FixupState(st, Leaf(p), LOADED)
      /\ new.pagingCycles = (pg.pagingCycles + CYCLE_COST_PAGE)
                              + FixupCharge(st, Leaf(p), LOADED)
  BY DEF LoadPage, FixupCosts, ChargePage
<1> HIDE DEF new
<1>2. st[Leaf(p)] = UNLOADED
  BY DEF IsCached
<1>3. \A q \in Pages : new.stateTable[Leaf(q)] =
                         IF q = p THEN LOADED ELSE st[Leaf(q)]
  BY <1>0, <1>1, <1>2, FixupOnLeaves DEF UNLOADED, LOADED
<1>4. new.stateTable \in StateTables
  BY <1>0, <1>1, FixupStateRaises
<1>5. DOMAIN pg.pageCache = cached /\ pg.pageCache \in [cached -> PageData]
  BY DEF PagerInv, PagerTyped
<1>6. {q \in DOMAIN img : IsCached(new, q)} = cached \cup {p}
  BY <1>0, <1>3 DEF IsImage, IsCached, UNLOADED, LOADED
<1>7. /\ DOMAIN new.pageCache = cached \cup {p}
      /\ \A q \in cached : q # p => new.pageCache[q] = pg.pageCache[q]
      /\ new.pageCache[p] = img[p]
      /\ new.pageCache \in [cached \cup {p} -> PageData]
  <2>1. img[p] \in PageData
    BY DEF IsImage
  <2> QED
    BY <1>1, <1>5, <2>1 DEF CacheWith
<1>8. p \notin cached /\ cached \subseteq Pages
  BY DEF IsImage
<1>9. PagerTyped(img, new)
  <2>1. new.pagingCycles \in Nat
    BY <1>0, <1>1, ChargeIsGrowth, CostAssumption DEF PagerInv, PagerTyped
  <2>2. \A q \in Pages \ DOMAIN img : ~ IsCached(new, q)
    BY <1>3, <1>0 DEF IsCached, PagerInv, PagerTyped
  <2> QED
    BY <1>4, <1>6, <1>7, <2>1, <2>2 DEF PagerTyped
<1>10. Coherent(img, new)
  BY <1>3, <1>5, <1>7, <1>8 DEF Coherent, PagerInv
<1>11. Maximal(new.stateTable)
  BY <1>0, <1>1, FixupKeepsMaximal DEF PagerInv
<1>12. CostTracksTable(new)
  <2> DEFINE m  == Cardinality(cached)
             w  == Cardinality(DirtyPages(pg))
             k  == FixupCharge(st, Leaf(p), LOADED)
             k0 == CYCLE_COST_MERKLE * ( Cardinality(AtLeast(st, LOADED))
                                         + Cardinality(AtLeast(st, DIRTY)) )
  <2>1. DirtyPages(new) = DirtyPages(pg)
    <3>1. \A q \in cached : new.stateTable[Leaf(q)] = pg.stateTable[Leaf(q)]
      BY <1>3, <1>8
    <3>2. new.stateTable[Leaf(p)] # DIRTY
      BY <1>0, <1>3 DEF LOADED, DIRTY
    <3>3. DOMAIN new.pageCache = cached \cup {p} /\ DOMAIN pg.pageCache = cached
      BY <1>5, <1>7
    <3> HIDE DEF cached
    <3> QED
      BY <3>1, <3>2, <3>3 DEF DirtyPages
  <2>2. IsFiniteSet(cached) /\ m \in Nat
    BY <1>8, InnerFinite
  <2>3. Cardinality(DOMAIN new.pageCache) = m + 1
    BY <1>7, <1>8, <2>2, FS_AddElement
  <2>4. w \in Nat
    BY <1>5, <1>8, InnerFinite DEF DirtyPages
  <2>5. k \in Nat /\ CYCLE_COST_MERKLE * ( Cardinality(AtLeast(new.stateTable, LOADED))
                               + Cardinality(AtLeast(new.stateTable, DIRTY)) ) = k0 + k
    BY <1>0, <1>1, ChargeIsGrowth
  <2>6. pg.pagingCycles = CYCLE_COST_EXTRA + CYCLE_COST_PAGE * (m + w) + k0
    BY <1>5 DEF PagerInv, CostTracksTable
  <2>7. k0 \in Nat
    <3>1. Cardinality(AtLeast(st, LOADED)) \in Nat /\ Cardinality(AtLeast(st, DIRTY)) \in Nat
      BY InnerFinite DEF AtLeast
    <3> QED
      BY <3>1, CostAssumption, SMT
  <2> HIDE DEF m, w, k, k0
  <2>8. CYCLE_COST_PAGE * ((m + 1) + w) = CYCLE_COST_PAGE * (m + w) + CYCLE_COST_PAGE
    BY <2>2, <2>4, CostAssumption, SMT
  <2>9. CYCLE_COST_PAGE * (m + w) \in Nat
    BY <2>2, <2>4, CostAssumption, SMT
  <2>10. new.pagingCycles = ((CYCLE_COST_EXTRA + CYCLE_COST_PAGE * (m + w) + k0)
                              + CYCLE_COST_PAGE) + k
    BY <1>1, <2>6 DEF k
  <2>11. new.pagingCycles = CYCLE_COST_EXTRA + CYCLE_COST_PAGE * ((m + 1) + w) + (k0 + k)
    BY <2>5, <2>7, <2>8, <2>9, <2>10, CostAssumption DEF k
  <2> QED
    BY <2>1, <2>3, <2>5, <2>11 DEF CostTracksTable, w, k
<1> QED
  BY <1>1, <1>3, <1>9, <1>10, <1>11, <1>12 DEF PagerInv, new

LEMMA EnsureLoadedInv ==
  ASSUME NEW img, IsImage(img), NEW pg, PagerInv(img, pg),
         NEW p \in DOMAIN img
  PROVE  LET new == EnsureLoaded(img, pg, p)
         IN  /\ PagerInv(img, new)
             /\ IsCached(new, p)
             /\ \A q \in Pages : q # p => new.stateTable[Leaf(q)] = pg.stateTable[Leaf(q)]
             /\ \A q \in DOMAIN img : q # p /\ IsCached(pg, q)
                  => new.pageCache[q] = pg.pageCache[q]
             /\ new.pageCache[p] = IF IsCached(pg, p) THEN pg.pageCache[p] ELSE img[p]
<1> p \in Pages
  BY DEF IsImage
<1>1. CASE IsCached(pg, p)
  BY <1>1 DEF EnsureLoaded
<1>2. CASE ~ IsCached(pg, p)
  <2> DEFINE new == LoadPage(img, pg, p)
  <2>1. EnsureLoaded(img, pg, p) = new
    BY <1>2 DEF EnsureLoaded
  <2>2. /\ PagerInv(img, new)
        /\ new.pageCache = CacheWith(pg.pageCache, p, img[p])
        /\ \A q \in Pages : new.stateTable[Leaf(q)] =
             IF q = p THEN LOADED ELSE pg.stateTable[Leaf(q)]
    BY <1>2, LoadPageInv
  <2> HIDE DEF new
  <2>3. DOMAIN pg.pageCache = {q \in DOMAIN img : IsCached(pg, q)}
    BY DEF PagerInv, PagerTyped
  <2>4. IsCached(new, p)
    BY <2>2 DEF IsCached, UNLOADED, LOADED
  <2> QED
    BY <1>2, <2>1, <2>2, <2>3, <2>4 DEF CacheWith
<1> QED
  BY <1>1, <1>2

\* The first store to a page keeps the invariant and leaves the cache as it is.
LEMMA EnsureDirtyInv ==
  ASSUME NEW img, IsImage(img), NEW pg, PagerInv(img, pg),
         NEW p \in DOMAIN img, IsCached(pg, p)
  PROVE  LET new == EnsureDirty(pg, p)
         IN  /\ PagerInv(img, new)
             /\ new.pageCache = pg.pageCache
             /\ \A q \in Pages : new.stateTable[Leaf(q)] =
                  IF q = p THEN DIRTY ELSE pg.stateTable[Leaf(q)]
<1> DEFINE new == EnsureDirty(pg, p)
           st  == pg.stateTable
           cached == {q \in DOMAIN img : IsCached(pg, q)}
<1>0. p \in Pages /\ Leaf(p) \in Nodes /\ DIRTY \in {LOADED, DIRTY} /\ st \in StateTables
  BY LeafIsNode DEF IsImage, PagerInv, PagerTyped
<1>1. st[Leaf(p)] \in {LOADED, DIRTY}
  BY <1>0 DEF IsCached, StateTables
<1>2. CASE st[Leaf(p)] = DIRTY
  BY <1>2 DEF EnsureDirty, LOADED, DIRTY
<1>3. CASE st[Leaf(p)] = LOADED
  <2>1. /\ new.pageCache = pg.pageCache
        /\ new.stateTable = FixupState(st, Leaf(p), DIRTY)
        /\ new.pagingCycles = (pg.pagingCycles + CYCLE_COST_PAGE)
                                + FixupCharge(st, Leaf(p), DIRTY)
    BY <1>3 DEF EnsureDirty, FixupCosts, ChargePage
  <2> HIDE DEF new
  <2>2. \A q \in Pages : new.stateTable[Leaf(q)] =
                           IF q = p THEN DIRTY ELSE st[Leaf(q)]
    BY <1>0, <1>3, <2>1, FixupOnLeaves DEF LOADED, DIRTY
  <2>3. \A q \in Pages : IsCached(new, q) <=> IsCached(pg, q)
    BY <1>3, <2>2 DEF IsCached, UNLOADED, LOADED, DIRTY
  <2>4. cached = {q \in DOMAIN img : IsCached(new, q)}
    BY <2>3 DEF IsImage
  <2>5. DOMAIN pg.pageCache = cached /\ pg.pageCache \in [cached -> PageData]
    BY DEF PagerInv, PagerTyped
  <2>6. p \in cached /\ cached \subseteq Pages
    BY DEF IsImage
  <2>7. PagerTyped(img, new)
    <3>1. new.stateTable \in StateTables
      BY <1>0, <2>1, FixupStateRaises
    <3>2. new.pagingCycles \in Nat
      BY <1>0, <2>1, ChargeIsGrowth, CostAssumption DEF PagerInv, PagerTyped
    <3>3. \A q \in Pages \ DOMAIN img : ~ IsCached(new, q)
      BY <2>3 DEF PagerInv, PagerTyped
    <3> QED
      BY <2>1, <2>4, <2>5, <3>1, <3>2, <3>3 DEF PagerTyped
  <2>8. Coherent(img, new)
    BY <2>1, <2>2, <2>5, <2>6 DEF Coherent, PagerInv, LOADED, DIRTY
  <2>9. Maximal(new.stateTable)
    BY <1>0, <2>1, FixupKeepsMaximal DEF PagerInv
  <2>10. CostTracksTable(new)
    <3> DEFINE m  == Cardinality(cached)
               w  == Cardinality(DirtyPages(pg))
               k  == FixupCharge(st, Leaf(p), DIRTY)
               k0 == CYCLE_COST_MERKLE * ( Cardinality(AtLeast(st, LOADED))
                                           + Cardinality(AtLeast(st, DIRTY)) )
    <3>1. DirtyPages(new) = DirtyPages(pg) \cup {p} /\ p \notin DirtyPages(pg)
      <4>1. DOMAIN new.pageCache = cached
        BY <2>1, <2>5
      <4> HIDE DEF cached
      <4>2. p \notin DirtyPages(pg)
        BY <1>3 DEF DirtyPages, LOADED, DIRTY
      <4>3. DirtyPages(new) \subseteq DirtyPages(pg) \cup {p}
        BY <2>2, <2>5, <2>6, <4>1 DEF DirtyPages
      <4>4. DirtyPages(pg) \subseteq DirtyPages(new)
        BY <2>2, <2>5, <2>6, <4>1, <4>2 DEF DirtyPages
      <4>5. p \in DirtyPages(new)
        BY <1>0, <2>2, <2>6, <4>1 DEF DirtyPages
      <4> QED
        BY <4>2, <4>3, <4>4, <4>5
    <3>2. IsFiniteSet(DirtyPages(pg)) /\ w \in Nat
      BY <2>5, <2>6, InnerFinite DEF DirtyPages
    <3>3. Cardinality(DirtyPages(new)) = w + 1
      BY <3>1, <3>2, FS_AddElement
    <3>4. m \in Nat
      BY <2>6, InnerFinite
    <3>5. k \in Nat /\ CYCLE_COST_MERKLE * ( Cardinality(AtLeast(new.stateTable, LOADED))
                                 + Cardinality(AtLeast(new.stateTable, DIRTY)) ) = k0 + k
      BY <1>0, <2>1, ChargeIsGrowth
    <3>6. pg.pagingCycles = CYCLE_COST_EXTRA + CYCLE_COST_PAGE * (m + w) + k0
      BY <2>5 DEF PagerInv, CostTracksTable
    <3>7. k0 \in Nat
      <4>1. /\ Cardinality(AtLeast(st, LOADED)) \in Nat
            /\ Cardinality(AtLeast(st, DIRTY)) \in Nat
        BY InnerFinite DEF AtLeast
      <4> QED
        BY <4>1, CostAssumption, SMT
    <3>8. DOMAIN new.pageCache = cached
      BY <2>1, <2>5
    <3> HIDE DEF m, w, k, k0
    <3>9. CYCLE_COST_PAGE * (m + (w + 1)) = CYCLE_COST_PAGE * (m + w) + CYCLE_COST_PAGE
      BY <3>2, <3>4, CostAssumption, SMT
    <3>10. CYCLE_COST_PAGE * (m + w) \in Nat
      BY <3>2, <3>4, CostAssumption, SMT
    <3>11. new.pagingCycles = ((CYCLE_COST_EXTRA + CYCLE_COST_PAGE * (m + w) + k0)
                                + CYCLE_COST_PAGE) + k
      BY <2>1, <3>6 DEF k
    <3>12. new.pagingCycles = CYCLE_COST_EXTRA + CYCLE_COST_PAGE * (m + (w + 1)) + (k0 + k)
      BY <3>5, <3>7, <3>9, <3>10, <3>11, CostAssumption
    <3> QED
      BY <3>3, <3>5, <3>8, <3>12 DEF CostTracksTable, m, w, k
  <2> QED
    BY <2>1, <2>2, <2>7, <2>8, <2>9, <2>10 DEF PagerInv, new
<1> QED
  BY <1>1, <1>2, <1>3

-----------------------------------------------------------------------------
(* Accesses                                                                *)

\* A page and an offset name one word.
LEMMA PageAndOffsetIdentify ==
  ASSUME NEW u \in Nat, NEW w \in Nat,
         PageOf(u) = PageOf(w), OffsetOf(u) = OffsetOf(w)
  PROVE  u = w
<1> DEFINE P == PAGE_SIZE_WORDS
<1>1. P \in Nat \ {0}
  BY Geometry
<1>2. u = P * (u \div P) + (u % P) /\ w = P * (w \div P) + (w % P)
  BY <1>1, SMT
<1> QED
  BY <1>2 DEF PageOf, OffsetOf

\* An access that does not throw is to a page the image supplies.
LEMMA AccessibleWord ==
  ASSUME NEW img, IsImage(img), NEW pg, PagerTyped(img, pg),
         NEW w \in Nat, CanAccess(img, pg, w)
  PROVE  /\ w \in WordsOf(img)
         /\ PageOf(w) \in DOMAIN img
         /\ OffsetOf(w) \in Offsets
<1>1. WORD_LIMIT \in Nat
  BY Geometry, SMT DEF WORD_LIMIT
<1>2. w \in Nat /\ w < WORD_LIMIT
  BY <1>1 DEF CanAccess
<1>3. PageOf(w) \in Pages /\ OffsetOf(w) \in Offsets
  BY <1>2, WordInPage
<1>4. PageOf(w) \in DOMAIN img
  BY <1>3 DEF CanAccess, PagerTyped
<1> QED
  BY <1>1, <1>2, <1>3, <1>4 DEF WordsOf

LEMMA WordsTyped ==
  ASSUME NEW img, IsImage(img), NEW w \in WordsOf(img)
  PROVE  w \in Nat /\ PageOf(w) \in DOMAIN img /\ OffsetOf(w) \in Offsets
<1>1. WORD_LIMIT \in Nat
  BY Geometry, SMT DEF WORD_LIMIT
<1>2. w \in Nat /\ w < WORD_LIMIT /\ PageOf(w) \in DOMAIN img
  BY <1>1 DEF WordsOf
<1> QED
  BY <1>2, WordInPage

\* The word a user of the pager sees.
Seen(img, pg, w) ==
  IF IsCached(pg, PageOf(w)) THEN CachedWord(pg, w)
  ELSE img[PageOf(w)][OffsetOf(w)]

LEMMA SeenTyped ==
  ASSUME NEW img, IsImage(img), NEW pg, PagerTyped(img, pg),
         NEW w \in WordsOf(img)
  PROVE  Seen(img, pg, w) \in Val
<1>1. PageOf(w) \in DOMAIN img /\ OffsetOf(w) \in Offsets
  BY WordsTyped
<1>2. img[PageOf(w)] \in PageData
  BY <1>1 DEF IsImage
<1>3. IsCached(pg, PageOf(w)) => pg.pageCache[PageOf(w)] \in PageData
  BY <1>1 DEF PagerTyped
<1> QED
  BY <1>1, <1>2, <1>3 DEF Seen, CachedWord, PageData

\* A load keeps the invariant, changes nothing a user sees, and returns it.
LEMMA PagerLoadInv ==
  ASSUME NEW img, IsImage(img), NEW pg, PagerInv(img, pg),
         NEW w \in WordsOf(img)
  PROVE  LET new == PagerLoad(img, pg, w)
         IN  /\ PagerInv(img, new)
             /\ CachedWord(new, w) = Seen(img, pg, w)
             /\ \A u \in WordsOf(img) : Seen(img, new, u) = Seen(img, pg, u)
<1> DEFINE p   == PageOf(w)
           new == EnsureLoaded(img, pg, p)
<1>1. p \in DOMAIN img
  BY WordsTyped
<1>2. /\ PagerInv(img, new)
      /\ IsCached(new, p)
      /\ \A q \in Pages : q # p => new.stateTable[Leaf(q)] = pg.stateTable[Leaf(q)]
      /\ \A q \in DOMAIN img : q # p /\ IsCached(pg, q)
           => new.pageCache[q] = pg.pageCache[q]
      /\ new.pageCache[p] = IF IsCached(pg, p) THEN pg.pageCache[p] ELSE img[p]
  BY <1>1, EnsureLoadedInv
<1> HIDE DEF new
<1>3. ASSUME NEW u \in WordsOf(img) PROVE Seen(img, new, u) = Seen(img, pg, u)
  <2>1. PageOf(u) \in DOMAIN img /\ PageOf(u) \in Pages
    BY WordsTyped DEF IsImage
  <2> QED
    BY <1>2, <2>1 DEF Seen, CachedWord, IsCached
<1>4. CachedWord(new, w) = Seen(img, pg, w)
  BY <1>2 DEF Seen, CachedWord
<1> QED
  BY <1>2, <1>3, <1>4 DEF PagerLoad, new

\* A store keeps the invariant and changes the one word a user stores to.
LEMMA PagerStoreInv ==
  ASSUME NEW img, IsImage(img), NEW pg, PagerInv(img, pg),
         NEW w \in WordsOf(img), NEW v \in Val
  PROVE  LET new == PagerStore(img, pg, w, v)
         IN  /\ PagerInv(img, new)
             /\ \A u \in WordsOf(img) : Seen(img, new, u) = IF u = w THEN v
                                                     ELSE Seen(img, pg, u)
<1> DEFINE p      == PageOf(w)
           loaded == EnsureLoaded(img, pg, p)
           dirty  == EnsureDirty(loaded, p)
           data   == [dirty.pageCache[p] EXCEPT ![OffsetOf(w)] = v]
           new    == PagerStore(img, pg, w, v)
           cached == {q \in DOMAIN img : IsCached(dirty, q)}
<1>1. p \in DOMAIN img /\ p \in Pages /\ OffsetOf(w) \in Offsets
  BY WordsTyped DEF IsImage
<1>2. /\ PagerInv(img, loaded)
      /\ IsCached(loaded, p)
      /\ \A q \in Pages : q # p => loaded.stateTable[Leaf(q)] = pg.stateTable[Leaf(q)]
      /\ \A q \in DOMAIN img : q # p /\ IsCached(pg, q)
           => loaded.pageCache[q] = pg.pageCache[q]
      /\ loaded.pageCache[p] = IF IsCached(pg, p) THEN pg.pageCache[p] ELSE img[p]
  BY <1>1, EnsureLoadedInv
<1>3. /\ PagerInv(img, dirty)
      /\ dirty.pageCache = loaded.pageCache
      /\ \A q \in Pages : dirty.stateTable[Leaf(q)] =
           IF q = p THEN DIRTY ELSE loaded.stateTable[Leaf(q)]
  BY <1>1, <1>2, EnsureDirtyInv
<1>4. /\ new.pageCache = CacheWith(dirty.pageCache, p, data)
      /\ new.stateTable = dirty.stateTable
      /\ new.pagingCycles = dirty.pagingCycles
  BY DEF PagerStore
<1> HIDE DEF new, dirty, loaded
<1>5. IsCached(dirty, p) /\ dirty.stateTable[Leaf(p)] = DIRTY
  BY <1>1, <1>3 DEF IsCached, UNLOADED, DIRTY
<1>6. DOMAIN dirty.pageCache = cached /\ dirty.pageCache \in [cached -> PageData]
  BY <1>3 DEF PagerInv, PagerTyped
<1>7. p \in cached
  BY <1>1, <1>5
<1>8. data \in PageData
  BY <1>6, <1>7, <1>1 DEF PageData
<1>9. cached = {q \in DOMAIN img : IsCached(new, q)}
  BY <1>4 DEF IsCached
<1>10. /\ DOMAIN new.pageCache = cached
       /\ new.pageCache[p] = data
       /\ \A q \in cached : q # p => new.pageCache[q] = dirty.pageCache[q]
       /\ new.pageCache \in [cached -> PageData]
  <2> HIDE DEF cached, data
  <2> QED
    BY <1>4, <1>6, <1>7, <1>8 DEF CacheWith
<1>11. PagerInv(img, new)
  <2>1. PagerTyped(img, new)
    BY <1>3, <1>4, <1>9, <1>10 DEF PagerInv, PagerTyped, IsCached
  <2>2. Coherent(img, new)
    <3>1. DIRTY # LOADED
      BY DEF LOADED, DIRTY
    <3> HIDE DEF cached, data
    <3> QED
      BY <1>3, <1>4, <1>5, <1>6, <1>10, <3>1 DEF PagerInv, Coherent
  <2>3. DirtyPages(new) = DirtyPages(dirty)
    BY <1>4, <1>6, <1>10 DEF DirtyPages
  <2>4. CostTracksTable(new)
    BY <1>3, <1>4, <1>6, <1>10, <2>3 DEF PagerInv, CostTracksTable
  <2> QED
    BY <1>3, <1>4, <2>1, <2>2, <2>4 DEF PagerInv
<1>12. ASSUME NEW u \in WordsOf(img)
       PROVE  Seen(img, new, u) = IF u = w THEN v ELSE Seen(img, pg, u)
  <2>1. /\ u \in Nat /\ w \in Nat /\ PageOf(u) \in DOMAIN img /\ PageOf(u) \in Pages
        /\ OffsetOf(u) \in Offsets
    BY WordsTyped DEF IsImage
  <2>2. CASE PageOf(u) = p
    <3>1. Seen(img, new, u) = data[OffsetOf(u)]
      BY <1>4, <1>5, <1>10, <2>2 DEF Seen, CachedWord, IsCached
    <3>2. dirty.pageCache[p][OffsetOf(u)] = Seen(img, pg, u)
      BY <1>2, <1>3, <2>2 DEF Seen, CachedWord
    <3>3. OffsetOf(u) = OffsetOf(w) <=> u = w
      BY <2>1, <2>2, PageAndOffsetIdentify
    <3>4. dirty.pageCache[p] \in [Offsets -> Val]
      BY <1>6, <1>7 DEF PageData
    <3>5. data[OffsetOf(u)] = IF OffsetOf(u) = OffsetOf(w) THEN v
                              ELSE dirty.pageCache[p][OffsetOf(u)]
      BY <1>1, <2>1, <3>4
    <3> QED
      BY <3>1, <3>2, <3>3, <3>5
  <2>3. CASE PageOf(u) # p
    <3>1. IsCached(new, PageOf(u)) <=> IsCached(pg, PageOf(u))
      BY <1>2, <1>3, <1>4, <2>1, <2>3 DEF IsCached
    <3>2. IsCached(pg, PageOf(u)) => new.pageCache[PageOf(u)] = pg.pageCache[PageOf(u)]
      <4>1. IsCached(pg, PageOf(u)) => PageOf(u) \in cached
        BY <1>4, <2>1, <3>1 DEF IsCached
      <4> QED
        BY <1>2, <1>3, <1>10, <2>1, <2>3, <4>1
    <3>3. u # w
      BY <2>3
    <3> QED
      BY <3>1, <3>2, <3>3 DEF Seen, CachedWord
  <2> QED
    BY <2>2, <2>3
<1> QED
  BY <1>11, <1>12 DEF new

\* What an access adds to the cache and to the dirty pages: its own page.
LEMMA LoadFootprint ==
  ASSUME NEW img, IsImage(img), NEW pg, PagerInv(img, pg),
         NEW w \in WordsOf(img)
  PROVE  LET new == PagerLoad(img, pg, w)
         IN  /\ DOMAIN new.pageCache = DOMAIN pg.pageCache \cup {PageOf(w)}
             /\ DirtyPages(new) = DirtyPages(pg)
<1> DEFINE p   == PageOf(w)
           new == EnsureLoaded(img, pg, p)
<1>1. p \in DOMAIN img /\ p \in Pages
  BY WordsTyped DEF IsImage
<1>2. /\ PagerInv(img, new)
      /\ IsCached(new, p)
      /\ \A q \in Pages : q # p => new.stateTable[Leaf(q)] = pg.stateTable[Leaf(q)]
  BY <1>1, EnsureLoadedInv
<1>3. /\ DOMAIN pg.pageCache = {q \in DOMAIN img : IsCached(pg, q)}
      /\ DOMAIN new.pageCache = {q \in DOMAIN img : IsCached(new, q)}
  BY <1>2 DEF PagerInv, PagerTyped
<1>4. ~ IsCached(pg, p) => new.stateTable[Leaf(p)] = LOADED
  BY <1>1, LoadPageInv DEF EnsureLoaded
<1>5. IsCached(pg, p) => new = pg
  BY DEF EnsureLoaded
<1> HIDE DEF new
<1>6. DOMAIN new.pageCache = DOMAIN pg.pageCache \cup {p}
  BY <1>1, <1>2, <1>3 DEF IsImage, IsCached
<1>7. DirtyPages(new) = DirtyPages(pg)
  <2>1. CASE IsCached(pg, p)
    BY <1>5, <2>1
  <2>2. CASE ~ IsCached(pg, p)
    BY <1>2, <1>3, <1>4, <1>6, <2>2 DEF IsImage, DirtyPages, LOADED, DIRTY
  <2> QED
    BY <2>1, <2>2
<1> QED
  BY <1>6, <1>7 DEF PagerLoad, new

LEMMA StoreFootprint ==
  ASSUME NEW img, IsImage(img), NEW pg, PagerInv(img, pg),
         NEW w \in WordsOf(img), NEW v \in Val
  PROVE  LET new == PagerStore(img, pg, w, v)
         IN  /\ DOMAIN new.pageCache = DOMAIN pg.pageCache \cup {PageOf(w)}
             /\ DirtyPages(new) = DirtyPages(pg) \cup {PageOf(w)}
<1> DEFINE p      == PageOf(w)
           loaded == PagerLoad(img, pg, w)
           dirty  == EnsureDirty(loaded, p)
           new    == PagerStore(img, pg, w, v)
<1>1. p \in DOMAIN img /\ p \in Pages
  BY WordsTyped DEF IsImage
<1>2. /\ DOMAIN loaded.pageCache = DOMAIN pg.pageCache \cup {p}
      /\ DirtyPages(loaded) = DirtyPages(pg)
      /\ PagerInv(img, loaded)
  BY LoadFootprint, PagerLoadInv
<1> HIDE DEF loaded
<1>3. /\ DOMAIN loaded.pageCache = {q \in DOMAIN img : IsCached(loaded, q)}
      /\ DOMAIN loaded.pageCache \subseteq Pages
  BY <1>2 DEF PagerInv, PagerTyped, IsImage
<1>4. /\ dirty.pageCache = loaded.pageCache
      /\ \A q \in Pages : dirty.stateTable[Leaf(q)] =
           IF q = p THEN DIRTY ELSE loaded.stateTable[Leaf(q)]
  BY <1>1, <1>2, <1>3, EnsureDirtyInv
<1>5. /\ DOMAIN new.pageCache = DOMAIN dirty.pageCache \cup {p}
      /\ new.stateTable = dirty.stateTable
  BY DEF PagerStore, PagerLoad, CacheWith, loaded
<1> HIDE DEF dirty, new
<1>6. DOMAIN new.pageCache = DOMAIN loaded.pageCache
  BY <1>2, <1>4, <1>5
<1>7. DirtyPages(new) = DirtyPages(loaded) \cup {p}
  BY <1>2, <1>3, <1>4, <1>5, <1>6 DEF DirtyPages
<1> QED
  BY <1>2, <1>6, <1>7 DEF new

\* The list computePaging builds over the pages in a given state is the set of
\* inner nodes the state table holds in that state.
LEMMA PagingNodesAreTabled ==
  ASSUME NEW img, IsImage(img), NEW pg, PagerTyped(img, pg), Maximal(pg.stateTable)
  PROVE  /\ PagingNodes(DOMAIN pg.pageCache) = AtLeast(pg.stateTable, LOADED)
         /\ PagingNodes(DirtyPages(pg)) = AtLeast(pg.stateTable, DIRTY)
<1> DEFINE st == pg.stateTable
<1>1. \A p \in Pages : st[Leaf(p)] \in {0, 1, 2}
  BY LeafIsNode DEF PagerTyped, StateTables, UNLOADED, LOADED, DIRTY
<1>2. \A p \in Pages : p \in DOMAIN pg.pageCache <=> st[Leaf(p)] >= LOADED
  BY <1>1 DEF IsImage, PagerTyped, IsCached, UNLOADED, LOADED
<1>3. DOMAIN pg.pageCache \subseteq Pages
  BY DEF IsImage, PagerTyped
<1>4. \A p \in Pages : p \in DirtyPages(pg) <=> st[Leaf(p)] >= DIRTY
  BY <1>1, <1>2 DEF DirtyPages, LOADED, DIRTY
<1>5. DirtyPages(pg) \subseteq Pages
  BY <1>3 DEF DirtyPages
<1>6. \A n \in Inner : st[n] >= LOADED <=>
        \E p \in Pages : n \in Path(Leaf(p)) /\ st[Leaf(p)] >= LOADED
  BY DEF Maximal
<1>7. \A n \in Inner : st[n] >= DIRTY <=>
        \E p \in Pages : n \in Path(Leaf(p)) /\ st[Leaf(p)] >= DIRTY
  BY DEF Maximal
<1> HIDE DEF st
<1>8. PagingNodes(DOMAIN pg.pageCache) = AtLeast(st, LOADED)
  BY <1>2, <1>3, <1>6 DEF PagingNodes, AtLeast
<1>9. PagingNodes(DirtyPages(pg)) = AtLeast(st, DIRTY)
  BY <1>4, <1>5, <1>7 DEF PagingNodes, AtLeast
<1> QED
  BY <1>8, <1>9 DEF st

-----------------------------------------------------------------------------
(* What commit takes from the tree                                         *)

\* The nodes the pager touched are those above a cached page.
LEMMA TouchedNodes ==
  ASSUME NEW img, IsImage(img), NEW pg, PagerTyped(img, pg), Maximal(pg.stateTable)
  PROVE  /\ \A n \in Nodes : pg.stateTable[n] # UNLOADED <=>
              \E p \in DOMAIN pg.pageCache : n \in Path(Leaf(p))
         /\ DOMAIN pg.pageCache \subseteq Pages
         /\ \A p \in Pages : p \in DOMAIN pg.pageCache <=> IsCached(pg, p)
<1> DEFINE st == pg.stateTable
<1>1. \A n \in Nodes : st[n] \in {0, 1, 2}
  BY DEF PagerTyped, StateTables, UNLOADED, LOADED, DIRTY
<1>2. DOMAIN pg.pageCache \subseteq Pages
  BY DEF IsImage, PagerTyped
<1>3. \A p \in Pages : p \in DOMAIN pg.pageCache <=> IsCached(pg, p)
  BY DEF IsImage, PagerTyped
<1>4. \A p \in Pages : IsCached(pg, p) <=> st[Leaf(p)] >= LOADED
  BY <1>1, LeafIsNode DEF IsCached, UNLOADED, LOADED
<1>5. \A n \in Inner : st[n] >= LOADED <=>
        \E p \in Pages : n \in Path(Leaf(p)) /\ st[Leaf(p)] >= LOADED
  BY DEF Maximal
<1> SUFFICES ASSUME NEW n \in Nodes
             PROVE  st[n] # UNLOADED <=>
                      \E p \in DOMAIN pg.pageCache : n \in Path(Leaf(p))
  BY <1>2, <1>3
<1>6. st[n] # UNLOADED <=> st[n] >= LOADED
  BY <1>1 DEF UNLOADED, LOADED
<1> HIDE DEF st
<1>7. CASE n \in Inner
  BY <1>2, <1>3, <1>4, <1>5, <1>6, <1>7
<1>8. CASE n \notin Inner
  <2>1. PICK q \in Pages : n = Leaf(q)
    BY <1>8, NodesAre
  <2>2. \A p \in Pages : n \in Path(Leaf(p)) <=> p = q
    BY <2>1, OneLeafPerPath, LeafOnOwnPath
  <2> QED
    BY <1>2, <1>3, <1>4, <1>6, <2>1, <2>2
<1> QED
  BY <1>7, <1>8

\* Above a touched node every node is touched.
LEMMA TouchedUpwards ==
  ASSUME NEW img, IsImage(img), NEW pg, PagerTyped(img, pg), Maximal(pg.stateTable),
         NEW n \in Nodes, pg.stateTable[n] # UNLOADED, NEW a \in Path(n)
  PROVE  pg.stateTable[a] # UNLOADED
<1>1. PICK p \in DOMAIN pg.pageCache : n \in Path(Leaf(p))
  BY TouchedNodes
<1>2. p \in Pages /\ Leaf(p) \in Nodes
  BY TouchedNodes, LeafIsNode
<1>3. a \in Path(Leaf(p)) /\ a \in Nodes
  BY <1>1, <1>2, PathIsChain, PathInNodes
<1> QED
  BY <1>1, <1>3, TouchedNodes

\* The nodes a committed segment gets digests for: its own pages' leaves and
\* the uncles.
Frontier(pg) == {Leaf(p) : p \in DOMAIN pg.pageCache} \cup Uncles(pg)

\* One such node lies on the way from every page to the root.
LEMMA FrontierCovers ==
  ASSUME NEW img, IsImage(img), NEW pg, PagerTyped(img, pg), Maximal(pg.stateTable),
         DOMAIN pg.pageCache # {}, NEW p \in Pages
  PROVE  \E f \in Frontier(pg) \cap Path(Leaf(p)) : TRUE
<1> DEFINE st == pg.stateTable
           open == {n \in Path(Leaf(p)) : st[n] = UNLOADED}
<1>1. CASE p \in DOMAIN pg.pageCache
  BY <1>1, LeafOnOwnPath DEF Frontier
<1>2. CASE p \notin DOMAIN pg.pageCache
  <2>1. Leaf(p) \in open
    BY <1>2, TouchedNodes, LeafOnOwnPath DEF IsCached
  <2>2. open \subseteq Nat /\ open \subseteq Nodes
    BY PathInNodes, NodesAre
  <2>3. PICK f \in open : \A n \in open : f <= n
    BY <2>1, <2>2, LeastElement
  <2>4. st[1] # UNLOADED
    <3>1. PICK q \in DOMAIN pg.pageCache : TRUE
      OBVIOUS
    <3>2. q \in Pages /\ 1 \in Path(Leaf(q))
      BY TouchedNodes, LeafIsNode, OnOwnPath
    <3> QED
      BY <3>2, TouchedNodes, NodesAre
  <2>5. f # 1 /\ f \in Nodes /\ f \in Path(Leaf(p)) /\ st[f] = UNLOADED
    BY <2>2, <2>4
  <2>6. f \div 2 \in Path(Leaf(p)) /\ f \div 2 < f
    <3>1. f \div 2 \in Nodes /\ f \in {2 * (f \div 2), 2 * (f \div 2) + 1}
      BY <2>5, NodesAre
    <3>2. f \div 2 \in Nat \ {0}
      BY <3>1, NodesAre
    <3>3. f \div 2 < f
      BY <3>1, <3>2
    <3>4. f \div 2 \in Path(f)
      BY <2>5, <3>1, PathStep, OnOwnPath
    <3>5. Leaf(p) \in Nodes
      BY LeafIsNode
    <3> QED
      BY <2>5, <3>3, <3>4, <3>5, PathIsChain
  <2>7. f \div 2 \notin open
    <3>1. f \in Nat /\ f \div 2 \in Nat
      BY <2>2, <2>3, <2>6, PathInNodes, NodesAre
    <3> HIDE DEF open
    <3> QED
      BY <2>3, <2>6, <3>1
  <2>8. f \in Uncles(pg)
    BY <2>5, <2>6, <2>7 DEF Uncles
  <2> QED
    BY <2>5, <2>8 DEF Frontier
<1> QED
  BY <1>1, <1>2

\* And only one: below a node of the frontier there is no other.
LEMMA FrontierIsAntichain ==
  ASSUME NEW img, IsImage(img), NEW pg, PagerTyped(img, pg), Maximal(pg.stateTable),
         NEW f \in Frontier(pg), NEW g \in Frontier(pg), f \in Path(g)
  PROVE  f = g
<1> DEFINE st == pg.stateTable
<1> SUFFICES ASSUME f # g PROVE FALSE
  OBVIOUS
<1>1. \A h \in Frontier(pg) :
        /\ h \in Nodes
        /\ \/ h \in Uncles(pg)
           \/ \E p \in DOMAIN pg.pageCache : p \in Pages /\ h = Leaf(p)
  BY TouchedNodes, LeafIsNode DEF Frontier, Uncles
<1>2. g \in Nodes /\ f \in Nodes
  BY <1>1
<1>3. f \in Inner
  BY <1>2, PathGoesOn
<1>4. f \in Uncles(pg)
  BY <1>1, <1>3, LeafIsNode
<1>5. st[f] = UNLOADED
  BY <1>4 DEF Uncles
<1>6. CASE g \in Uncles(pg)
  <2>1. g # 1 /\ st[g \div 2] # UNLOADED
    BY <1>6 DEF Uncles
  <2>2. f \in Path(g \div 2) /\ g \div 2 \in Nodes
    BY <1>2, <2>1, PathStep, NodesAre
  <2> QED
    BY <1>5, <2>1, <2>2, TouchedUpwards
<1>7. CASE \E p \in DOMAIN pg.pageCache : p \in Pages /\ g = Leaf(p)
  <2>1. st[g] # UNLOADED
    BY <1>7, TouchedNodes DEF IsCached
  <2> QED
    BY <1>2, <1>5, <2>1, TouchedUpwards
<1> QED
  BY <1>1, <1>6, <1>7
=============================================================================
