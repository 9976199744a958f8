-------------------------- MODULE PagedMemoryProofs --------------------------
(***************************************************************************)
(* Proofs about PagedMemory, for every depth, page size, value set, cost   *)
(* and set of available pages.                                             *)
(***************************************************************************)
EXTENDS PagedMemory, PagingProofs

-----------------------------------------------------------------------------
(* The inductive invariant                                                 *)

\* The pager's own invariant against the image it caches, and, once commit
\* has written the dirty pages back, that nothing cached differs from it:
\* without the second part Clear could not be shown to lose nothing.
Inv ==
  /\ image \in [Available -> PageData]
  /\ phase \in {"running", "committed", "threw"}
  /\ out \in Val
  /\ PagerInv(image, pager)
  /\ phase = "committed" =>
       /\ \A p \in DOMAIN pager.pageCache : pager.pageCache[p] = image[p]
       /\ DOMAIN segment.pages = DOMAIN pager.pageCache
       /\ segment.uncles = Uncles(pager)

\* The image this module drives is an image in the sense of PagingProofs.
LEMMA ImageOfWords ==
  ASSUME image \in [Available -> PageData]
  PROVE  IsImage(image) /\ DOMAIN image = Available /\ WordsOf(image) = Words
BY AvailableAssumption DEF IsImage, WordsOf, Words

LEMMA AddressedIsNat == Addressed \subseteq Nat
<1>1. WORD_LIMIT \in Nat
  BY Geometry, SMT DEF WORD_LIMIT
<1> QED
  BY <1>1 DEF Addressed

LEMMA InitInv == Init => Inv
BY NewPagerInv, ImageOfWords DEF Init, Inv

\* Commit, the one step that changes the image: the pager stays coherent with
\* the new image and every word keeps the value a user sees.
LEMMA CommitInv ==
  ASSUME Inv, Commit
  PROVE  /\ Inv'
         /\ \A w \in Words : Seen(image, pager, w)' = Seen(image, pager, w)
<1> DEFINE cached == {p \in Available : IsCached(pager, p)}
<1>1. /\ image' = Committed(image, pager)
      /\ pager' = pager /\ out' = out /\ phase' = "committed"
      /\ DOMAIN segment'.pages = DOMAIN pager'.pageCache
      /\ segment'.uncles = Uncles(pager')
  BY DEF Commit, OriginalPages
<1>0. IsImage(image) /\ DOMAIN image = Available /\ WordsOf(image) = Words
  BY ImageOfWords DEF Inv
<1>2. /\ image \in [Available -> PageData]
      /\ PagerTyped(image, pager) /\ Coherent(image, pager)
      /\ DOMAIN pager.pageCache = cached
      /\ pager.pageCache \in [cached -> PageData]
      /\ pager.stateTable \in StateTables
  BY <1>0 DEF Inv, PagerInv, PagerTyped
<1>3. \A p \in Available : image'[p] = IF p \in DirtyPages(pager)
                                      THEN pager.pageCache[p] ELSE image[p]
  BY <1>1, <1>2 DEF Committed
<1>4. \A p \in cached : pager.pageCache[p] = image'[p]
  <2> SUFFICES ASSUME NEW p \in cached PROVE pager.pageCache[p] = image'[p]
    OBVIOUS
  <2>1. pager.stateTable[Leaf(p)] \in {LOADED, DIRTY}
    BY <1>2, AvailableAssumption, LeafIsNode DEF IsCached, StateTables
  <2>2. CASE pager.stateTable[Leaf(p)] = DIRTY
    BY <1>2, <1>3, <2>2 DEF DirtyPages
  <2>3. CASE pager.stateTable[Leaf(p)] = LOADED
    <3>1. p \notin DirtyPages(pager)
      BY <2>3 DEF DirtyPages, LOADED, DIRTY
    <3> QED
      BY <1>2, <1>3, <2>3, <3>1 DEF Coherent
  <2> QED
    BY <2>1, <2>2, <2>3
<1>5. image' \in [Available -> PageData]
  <2>1. \A p \in DirtyPages(pager) : pager.pageCache[p] \in PageData
    BY <1>2 DEF DirtyPages
  <2>2. image' = [p \in Available |-> IF p \in DirtyPages(pager)
                                      THEN pager.pageCache[p] ELSE image[p]]
    BY <1>1, <1>2 DEF Committed
  <2> QED
    BY <1>2, <2>1, <2>2
<1>6. Inv'
  <2>1. Coherent(image', pager)
    BY <1>2, <1>4 DEF Coherent
  <2>2. PagerInv(image', pager)
    <3>1. DOMAIN image' = DOMAIN image
      BY <1>0, <1>5
    <3>2. PagerTyped(image', pager)
      BY <1>2, <3>1 DEF PagerTyped
    <3> QED
      BY <2>1, <3>2 DEF Inv, PagerInv
  <2> QED
    BY <1>1, <1>2, <1>4, <1>5, <2>2 DEF Inv
<1>7. ASSUME NEW w \in Words
      PROVE  Seen(image, pager, w)' = Seen(image, pager, w)
  <2>1. PageOf(w) \in Available
    BY <1>0, WordsTyped
  <2>2. CASE IsCached(pager, PageOf(w))
    BY <1>1, <2>2 DEF Seen
  <2>3. CASE ~ IsCached(pager, PageOf(w))
    <3>1. PageOf(w) \notin DirtyPages(pager)
      BY <1>2, <2>3 DEF DirtyPages
    <3> QED
      BY <1>1, <1>3, <2>1, <2>3, <3>1 DEF Seen
  <2> QED
    BY <2>2, <2>3
<1> QED
  BY <1>6, <1>7

\* Clear drops the cache: after a commit the image says the same.
LEMMA ClearInv ==
  ASSUME Inv, Clear
  PROVE  /\ Inv'
         /\ \A w \in Words : Seen(image, pager, w)' = Seen(image, pager, w)
<1>1. /\ phase = "committed" /\ pager' = NewPager /\ image' = image
      /\ out' = out /\ phase' = "running"
  BY DEF Clear
<1>0. IsImage(image) /\ DOMAIN image = Available /\ WordsOf(image) = Words
  BY ImageOfWords DEF Inv
<1>2. Inv'
  BY <1>0, <1>1, NewPagerInv DEF Inv
<1>3. ASSUME NEW w \in Words
      PROVE  Seen(image, pager, w)' = Seen(image, pager, w)
  <2>1. PageOf(w) \in Available /\ PageOf(w) \in Pages /\ Leaf(PageOf(w)) \in Nodes
    BY <1>0, WordsTyped, AvailableAssumption, LeafIsNode
  <2>2. ~ IsCached(NewPager, PageOf(w))
    BY <2>1 DEF IsCached, NewPager
  <2>3. Seen(image, pager, w)' = image[PageOf(w)][OffsetOf(w)]
    BY <1>1, <2>2 DEF Seen
  <2>4. IsCached(pager, PageOf(w)) => PageOf(w) \in DOMAIN pager.pageCache
    BY <1>0, <2>1 DEF Inv, PagerInv, PagerTyped
  <2>5. IsCached(pager, PageOf(w)) =>
          pager.pageCache[PageOf(w)] = image[PageOf(w)]
    BY <1>1, <2>4 DEF Inv
  <2> QED
    BY <2>3, <2>5 DEF Seen, CachedWord
<1> QED
  BY <1>2, <1>3

LEMMA NextInv == Inv /\ [Next]_vars => Inv'
<1> SUFFICES ASSUME Inv, [Next]_vars
             PROVE  Inv'
  OBVIOUS
<1> USE DEF Inv
<1>0. /\ IsImage(image) /\ DOMAIN image = Available /\ WordsOf(image) = Words
      /\ \A w \in Addressed : w \in Nat
  BY ImageOfWords, AddressedIsNat
<1>1. ASSUME NEW w \in Addressed, Load(w) PROVE Inv'
  <2>1. w \in Words
    BY <1>0, <1>1, AccessibleWord DEF Load, PagerInv
  <2>2. /\ PagerInv(image, pager')
        /\ CachedWord(pager', w) = Seen(image, pager, w)
    BY <1>0, <1>1, <2>1, PagerLoadInv DEF Load
  <2>3. out' \in Val
    BY <1>0, <1>1, <2>1, <2>2, SeenTyped DEF Load, PagerInv
  <2> QED
    BY <1>1, <2>2, <2>3 DEF Load
<1>2. ASSUME NEW w \in Addressed, Peek(w) PROVE Inv'
  <2>1. w \in Words
    BY <1>0, <1>2, AccessibleWord DEF Peek, PagerInv
  <2>2. out' = Seen(image, pager, w)
    BY <1>2 DEF Peek, PagerPeek, Seen
  <2>3. out' \in Val
    BY <1>0, <2>1, <2>2, SeenTyped DEF PagerInv
  <2> QED
    BY <1>2, <2>3 DEF Peek
<1>3. ASSUME NEW w \in Addressed, NEW v \in Val, Store(w, v) PROVE Inv'
  <2>1. w \in Words
    BY <1>0, <1>3, AccessibleWord DEF Store, PagerInv
  <2>2. PagerInv(image, pager')
    BY <1>0, <1>3, <2>1, PagerStoreInv DEF Store
  <2> QED
    BY <1>3, <2>2 DEF Store
<1>4. ASSUME NEW w \in Addressed, Throw(w) PROVE Inv'
  BY <1>4 DEF Throw
<1>5. CASE Commit
  BY <1>5, CommitInv
<1>6. CASE Clear
  BY <1>6, ClearInv
<1>7. CASE UNCHANGED vars
  BY <1>7 DEF vars
<1> QED
  BY <1>1, <1>2, <1>3, <1>4, <1>5, <1>6, <1>7 DEF Next

LEMMA InvHolds == Spec => []Inv
BY InitInv, NextInv, PTL DEF Spec

-----------------------------------------------------------------------------
(* The theorems                                                            *)

\* Every reachable state is well typed and the cache holds exactly the pages
\* that are not UNLOADED (pageCache and stateTable of paging.h).
THEOREM TypeCorrect == Spec => []TypeOK
<1>1. Inv => TypeOK
  BY ImageOfWords DEF Inv, TypeOK, PagerInv, PagerTyped, StateTables
<1> QED
  BY <1>1, InvHolds, PTL

\* No state loses or invents data: clean cached pages equal the image, and
\* after commit all of them do (paging.cpp store and commit).
THEOREM CacheIsCoherent == Spec => []CacheCoherent
<1>1. Inv => CacheCoherent
  BY DEF Inv, CacheCoherent, PagerInv, Coherent
<1> QED
  BY <1>1, InvHolds, PTL

\* The Merkle node states are the maxima of the page states below them
\* (paging.cpp fixupCosts).
THEOREM NodeStates == Spec => []NodeStateIsMaximum
<1>1. Inv => NodeStateIsMaximum
  BY DEF Inv, NodeStateIsMaximum, PagerInv, Maximal
<1> QED
  BY <1>1, InvHolds, PTL

\* The cycles charged access by access are the cycles the segment's paging
\* lists take, for every costs, depth and access sequence (paging.cpp
\* loadPage, store, fixupCosts against readPaging, writePaging).
THEOREM CostsAreExact == Spec => []CostIsExact
<1>1. Inv => CostIsExact
  BY PagingNodesAreTabled, ImageOfWords DEF Inv, CostIsExact, PagerInv, CostTracksTable
<1> QED
  BY <1>1, InvHolds, PTL

\* The pages and uncles of a committed segment cut every way from a page to
\* the root exactly once (paging.cpp commit, "minimal needed 'uncles'").
THEOREM SegmentsCoverMemory == Spec => []SegmentCoversMemory
<1>1. Inv => SegmentCoversMemory
  <2> SUFFICES ASSUME Inv, phase = "committed", DOMAIN segment.pages # {},
                      NEW p \in Pages
               PROVE  Cardinality({n \in Path(Leaf(p)) :
                                     \/ n \in segment.uncles
                                     \/ n = Leaf(p) /\ p \in DOMAIN segment.pages}) = 1
    BY DEF SegmentCoversMemory
  <2> DEFINE cut == {n \in Path(Leaf(p)) :
                       \/ n \in segment.uncles
                       \/ n = Leaf(p) /\ p \in DOMAIN segment.pages}
  <2>1. /\ IsImage(image) /\ PagerTyped(image, pager) /\ Maximal(pager.stateTable)
        /\ DOMAIN pager.pageCache = DOMAIN segment.pages
        /\ segment.uncles = Uncles(pager)
    BY ImageOfWords DEF Inv, PagerInv
  <2>2. cut = Frontier(pager) \cap Path(Leaf(p))
    <3>1. \A q \in DOMAIN pager.pageCache : Leaf(q) \in Path(Leaf(p)) => q = p
      BY <2>1, TouchedNodes, OneLeafPerPath
    <3> QED
      BY <2>1, <3>1 DEF Frontier
  <2>3. PICK f \in Frontier(pager) \cap Path(Leaf(p)) : TRUE
    BY <2>1, FrontierCovers
  <2>4. \A g \in Frontier(pager) \cap Path(Leaf(p)) : g = f
    <3> SUFFICES ASSUME NEW g \in Frontier(pager) \cap Path(Leaf(p))
                 PROVE  g = f
      OBVIOUS
    <3>1. Leaf(p) \in Nodes /\ f \in Nat /\ g \in Nat
      BY LeafIsNode, PathInNodes, NodesAre
    <3>2. f \in Path(g) \/ g \in Path(f)
      <4>1. f <= g => f \in Path(g)
        BY <3>1, PathIsChain
      <4>2. g <= f => g \in Path(f)
        BY <3>1, PathIsChain
      <4> QED
        BY <3>1, <4>1, <4>2
    <3> QED
      BY <2>1, <3>2, FrontierIsAntichain
  <2>5. cut = {f}
    BY <2>2, <2>3, <2>4
  <2> QED
    BY <2>5, FS_Singleton
<1> QED
  BY <1>1, InvHolds, PTL

\* The pager implements a flat memory of words.
THEOREM ImplementsFlatMemory == Spec => FlatMemory
<1> DEFINE mem == Contents
<1>1. Init => Flat!Init
  <2> SUFFICES ASSUME Init PROVE Flat!Init
    OBVIOUS
  <2>1. Inv
    BY InitInv
  <2>2. \A w \in Words : Seen(image, pager, w) \in Val
    BY <2>1, SeenTyped, ImageOfWords DEF Inv, PagerInv
  <2>3. Contents = [w \in Words |-> Seen(image, pager, w)]
    BY DEF Contents, Seen
  <2> QED
    BY <2>2, <2>3 DEF Flat!Init, Init
<1>2. Inv /\ [Next]_vars => [Flat!Next]_<<Contents, out>>
  <2> SUFFICES ASSUME Inv, [Next]_vars
               PROVE  [Flat!Next]_<<Contents, out>>
    OBVIOUS
  <2>0. /\ Contents = [w \in Words |-> Seen(image, pager, w)]
        /\ Contents' = [w \in Words |-> Seen(image, pager, w)']
        /\ image \in [Available -> PageData]
        /\ PagerInv(image, pager) /\ PagerTyped(image, pager)
        /\ IsImage(image) /\ DOMAIN image = Available /\ WordsOf(image) = Words
        /\ \A w \in Addressed : w \in Nat
    BY ImageOfWords, AddressedIsNat DEF Contents, Seen, Inv, PagerInv
  <2>1. ASSUME NEW w \in Addressed, Load(w) PROVE [Flat!Next]_<<Contents, out>>
    <3>1. w \in Words
      BY <2>0, <2>1, AccessibleWord DEF Load
    <3>2. /\ CachedWord(pager', w) = Seen(image, pager, w)
          /\ \A u \in Words : Seen(image, pager', u) = Seen(image, pager, u)
      BY <2>0, <2>1, <3>1, PagerLoadInv DEF Load
    <3>3. Contents' = Contents /\ out' = Contents[w]
      BY <2>0, <2>1, <3>1, <3>2 DEF Load
    <3> QED
      BY <3>1, <3>3 DEF Flat!Next, Flat!Read
  <2>2. ASSUME NEW w \in Addressed, Peek(w) PROVE [Flat!Next]_<<Contents, out>>
    <3>1. w \in Words
      BY <2>0, <2>2, AccessibleWord DEF Peek
    <3>2. out' = Seen(image, pager, w)
      BY <2>2 DEF Peek, PagerPeek, Seen
    <3>3. Contents' = Contents /\ out' = Contents[w]
      BY <2>0, <2>2, <3>1, <3>2 DEF Peek
    <3> QED
      BY <3>1, <3>3 DEF Flat!Next, Flat!Read
  <2>3. ASSUME NEW w \in Addressed, NEW v \in Val, Store(w, v)
        PROVE  [Flat!Next]_<<Contents, out>>
    <3>1. w \in Words
      BY <2>0, <2>3, AccessibleWord DEF Store
    <3>2. \A u \in Words : Seen(image, pager', u) =
            IF u = w THEN v ELSE Seen(image, pager, u)
      BY <2>0, <2>3, <3>1, PagerStoreInv DEF Store
    <3>3. Contents' = [Contents EXCEPT ![w] = v] /\ out' = out
      BY <2>0, <2>3, <3>1, <3>2 DEF Store
    <3> QED
      BY <3>1, <3>3 DEF Flat!Next, Flat!Write
  <2>4. ASSUME NEW w \in Addressed, Throw(w) PROVE [Flat!Next]_<<Contents, out>>
    <3>1. Contents' = Contents /\ out' = out
      BY <2>4 DEF Throw, Contents
    <3> QED
      BY <3>1
  <2>5. CASE Commit
    <3>1. Contents' = Contents /\ out' = out
      BY <2>0, <2>5, CommitInv DEF Commit
    <3> QED
      BY <3>1
  <2>6. CASE Clear
    <3>1. Contents' = Contents /\ out' = out
      BY <2>0, <2>6, ClearInv DEF Clear
    <3> QED
      BY <3>1
  <2>7. CASE UNCHANGED vars
    <3>1. Contents' = Contents /\ out' = out
      BY <2>7 DEF vars, Contents
    <3> QED
      BY <3>1
  <2> QED
    BY <2>1, <2>2, <2>3, <2>4, <2>5, <2>6, <2>7 DEF Next
<1>3. QED
  BY <1>1, <1>2, InvHolds, PTL DEF Spec, FlatMemory, Flat!Spec
=============================================================================
