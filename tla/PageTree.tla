------------------------------ MODULE PageTree ------------------------------
(***************************************************************************)
(* The geometry the memory image and the pager share (emu/image.h): words  *)
(* in pages, and pages as the leaves of a binary Merkle tree.  A node is   *)
(* named by its heap index: 1 is the root, the children of n are 2n and    *)
(* 2n + 1, page p is the leaf MEMORY_SIZE_PAGES + p.                       *)
(***************************************************************************)
EXTENDS Integers, FiniteSets

CONSTANTS
  MERKLE_TREE_DEPTH,   \* the memory has 2^MERKLE_TREE_DEPTH pages
  PAGE_SIZE_WORDS,     \* words per page
  Val                  \* the values a word can hold

MEMORY_SIZE_PAGES == 2 ^ MERKLE_TREE_DEPTH

\* What a climb of 0, 1, ... steps from a leaf towards the root divides by.
Strides == {2 ^ k : k \in 0 .. MERKLE_TREE_DEPTH}

\* The second part is arithmetic, which the provers do not know of powers.
ASSUME GeometryAssumption ==
  /\ MERKLE_TREE_DEPTH \in Nat /\ PAGE_SIZE_WORDS \in Nat \ {0}
  /\ \A k \in 0 .. MERKLE_TREE_DEPTH : 2 ^ (k + 1) = 2 * 2 ^ k

Pages   == 0 .. MEMORY_SIZE_PAGES - 1
Offsets == 0 .. PAGE_SIZE_WORDS - 1
Nodes   == 1 .. 2 * MEMORY_SIZE_PAGES - 1
Inner   == 1 .. MEMORY_SIZE_PAGES - 1

Leaf(page) == MEMORY_SIZE_PAGES + page
PageOf(word)   == word \div PAGE_SIZE_WORDS
OffsetOf(word) == word % PAGE_SIZE_WORDS

\* 0x40000000 in the source: the first word past the last page.
WORD_LIMIT == MEMORY_SIZE_PAGES * PAGE_SIZE_WORDS

PageData == [Offsets -> Val]

\* A node and its ancestors up to the root.
Path(idx) == {n \in Nodes : \E d \in Strides : n = idx \div d}

\* computePaging: the Merkle nodes above a set of pages.
PagingNodes(ps) ==
  {n \in Inner : \E p \in ps : n \in Path(Leaf(p))}
=============================================================================
