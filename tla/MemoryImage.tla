----------------------------- MODULE MemoryImage -----------------------------
(***************************************************************************)
(* class MemoryImage (emu/image.cpp) as a passive data structure: a sparse *)
(* Merkle tree that may know only some pages and some digests.  An image   *)
(* is a record                                                             *)
(*                                                                         *)
(*   digests   the digests it knows, a partial function on Nodes           *)
(*   pages     the pages it knows, a partial function on Pages             *)
(*                                                                         *)
(* A subtree whose digest is that of an all-zero subtree needs no entries  *)
(* below its root: they are made when they are asked for.                  *)
(***************************************************************************)
EXTENDS PageTree, FiniteSetsExt

CONSTANTS
  HashPage(_),     \* digest of a page's words
  HashPair(_, _),  \* digest of a node from its children's
  ZeroPage         \* the page of zero words

ASSUME ZeroPageAssumption == ZeroPage \in PageData

\* log2Floor: the depth of a node, 0 for the root.
DepthOf(idx) == CHOOSE k \in 0 .. MERKLE_TREE_DEPTH : 2 ^ k <= idx /\ idx < 2 ^ (k + 1)

\* initZeros
ZeroDigests ==
  LET zero[depth \in 0 .. MERKLE_TREE_DEPTH] ==
        IF depth = MERKLE_TREE_DEPTH THEN HashPage(ZeroPage)
        ELSE HashPair(zero[depth + 1], zero[depth + 1])
  IN  zero

Sibling(idx) == IF idx % 2 = 0 THEN idx + 1 ELSE idx - 1

\* The image that knows nothing, and the image of an all-zero memory.
UnknownImage == [digests |-> [n \in {} |-> 0], pages |-> [p \in {} |-> 0]]
ZeroImage    == [UnknownImage EXCEPT !.digests = [n \in {1} |-> ZeroDigests[0]]]

-----------------------------------------------------------------------------
(* Expanding zero subtrees                                                 *)

\* idx is known to be the root of an all-zero subtree, or to lie in one.
IsZero(digests, idx) ==
  LET known == Path(idx) \cap DOMAIN digests
  IN  /\ known # {}
      /\ digests[Max(known)] = ZeroDigests[DepthOf(Max(known))]

\* expandZero gives every unknown node of the climb, and its sibling, the
\* digest of an all-zero subtree.
ExpandZero(digests, idx) ==
  LET known == Path(idx) \cap DOMAIN digests
      new   == {n \in Path(idx) : n > Max(known)}
      fresh == new \cup {Sibling(n) : n \in new}
  IN  [n \in DOMAIN digests \cup fresh |->
         IF n \in fresh THEN ZeroDigests[DepthOf(n)] ELSE digests[n]]

ExpandIfZero(digests, idx) ==
  IF IsZero(digests, idx) THEN ExpandZero(digests, idx) ELSE digests

-----------------------------------------------------------------------------
(* Setting digests and pages                                               *)

\* Mutant: only the parent is recomputed.
RehashedParent(digests, idx) ==
  {a \in Path(idx) : a = idx \div 2 /\ Sibling(idx) \in DOMAIN digests}

\* fixupDigests recomputes the ancestors of idx one after the other and stops
\* at the first that has an unknown child.
Rehashed(digests, idx) ==
  {a \in Path(idx) \ {idx} :
     \A n \in Path(idx) : n > a => Sibling(n) \in DOMAIN digests}

FixupDigests(digests, idx) ==
  LET up == Rehashed(digests, idx)
      new[n \in up \cup {idx}] ==
        IF n = idx THEN digests[idx]
        ELSE LET child(c) == IF c \in up \cup {idx} THEN new[c] ELSE digests[c]
             IN  HashPair(child(2 * n), child(2 * n + 1))
  IN  [n \in DOMAIN digests \cup up |-> IF n \in up THEN new[n] ELSE digests[n]]

\* f[x] = y
With(f, x, y) == [z \in DOMAIN f \cup {x} |-> IF z = x THEN y ELSE f[z]]

\* setDigest
SetDigest(img, idx, digest) ==
  [img EXCEPT !.digests =
     FixupDigests(With(ExpandIfZero(@, idx), idx, digest), idx)]

\* setPage
SetPage(img, page, data) ==
  [SetDigest(img, Leaf(page), HashPage(data)) EXCEPT
     !.pages = With(@, page, data)]

-----------------------------------------------------------------------------
(* Reading                                                                 *)

\* getDigest returns, and the image after it; it throws otherwise.
HasDigest(img, idx) == idx \in DOMAIN ExpandIfZero(img.digests, idx)
AskDigest(img, idx) == [img EXCEPT !.digests = ExpandIfZero(@, idx)]
DigestAt(img, idx)  == AskDigest(img, idx).digests[idx]

\* getPage returns, and the image after it; it throws otherwise.
HasPage(img, page) ==
  page \in DOMAIN img.pages \/ IsZero(img.digests, Leaf(page))

AskPage(img, page) ==
  IF page \in DOMAIN img.pages \/ ~ IsZero(img.digests, Leaf(page)) THEN img
  ELSE [digests |-> ExpandZero(img.digests, Leaf(page)),
        pages   |-> With(img.pages, page, ZeroPage)]

PageAt(img, page) == AskPage(img, page).pages[page]

\* What the image supplies to a pager.
Supplied(img) == [p \in {q \in Pages : HasPage(img, q)} |-> PageAt(img, p)]

-----------------------------------------------------------------------------
(* Building an image                                                       *)

\* fromWords: the pages that hold a word of the map, in ascending order, each
\* filled with zeros where the map has none.
FromWords(words) ==
  LET touched == {PageOf(w) : w \in DOMAIN words}
      data(p) == [o \in Offsets |->
                    IF p * PAGE_SIZE_WORDS + o \in DOMAIN words
                    THEN words[p * PAGE_SIZE_WORDS + o] ELSE ZeroPage[o]]
      step[n \in 0 .. MEMORY_SIZE_PAGES] ==
        IF n = 0 THEN ZeroImage
        ELSE IF n - 1 \in touched THEN SetPage(step[n - 1], n - 1, data(n - 1))
        ELSE step[n - 1]
  IN  step[MEMORY_SIZE_PAGES]

-----------------------------------------------------------------------------
(* What an image means                                                     *)

\* The digest a node must have over a memory given page by page.
TrueDigests(memory) ==
  LET true[n \in Nodes] ==
        IF n \in Inner THEN HashPair(true[2 * n], true[2 * n + 1])
        ELSE HashPage(memory[n - MEMORY_SIZE_PAGES])
  IN  true

\* The code takes a subtree with the digest of an all-zero one to be all zero,
\* as it may when the hash has no collisions.
ASSUME ZeroDigestAssumption ==
  \A memory \in [Pages -> PageData] : \A n \in Nodes :
    TrueDigests(memory)[n] = ZeroDigests[DepthOf(n)]
      => \A p \in Pages : n \in Path(Leaf(p)) => memory[p] = ZeroPage

\* Every page and every digest the image holds is that of the memory.
DescribesMemory(img, memory) ==
  /\ \A p \in DOMAIN img.pages : img.pages[p] = memory[p]
  /\ \A n \in DOMAIN img.digests : img.digests[n] = TrueDigests(memory)[n]
=============================================================================
