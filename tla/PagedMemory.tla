----------------------------- MODULE PagedMemory -----------------------------
(***************************************************************************)
(* One PagedMemory over one MemoryImage, driven the way execute drives it: *)
(* any loads, peeks and stores, then commit, then clear, and again.  The   *)
(* image is the one passed by reference, which commit updates in place.    *)
(***************************************************************************)
EXTENDS Paging

CONSTANT Available   \* the pages the image can supply: all for the executor,
                     \* a segment's own pages for the preflight

ASSUME AvailableAssumption == Available \subseteq Pages

VARIABLES
  image,     \* the pages of the MemoryImage
  pager,     \* pageCache, stateTable and pagingCycles
  phase,     \* "running", "committed" (commit returned, clear has not been
             \* called) or "threw" (an exception left the pager)
  segment,   \* what the last commit returned, while it is "committed"
  out        \* the value the last load or peek returned

vars == <<image, pager, phase, segment, out>>

Words == {w \in 0 .. WORD_LIMIT - 1 : PageOf(w) \in Available}

\* Words a guest can name, one past the last valid one included.
Addressed == 0 .. WORD_LIMIT

NoSegment == [pages |-> [p \in {} |-> 0], uncles |-> {}]

Init ==
  /\ image \in [Available -> PageData]
  /\ pager = NewPager
  /\ phase = "running"
  /\ segment = NoSegment
  /\ out \in Val

-----------------------------------------------------------------------------
(* Operations                                                              *)

Load(word) ==
  /\ phase = "running"
  /\ CanAccess(image, pager, word)
  /\ pager' = PagerLoad(image, pager, word)
  /\ out' = CachedWord(pager', word)
  /\ UNCHANGED <<image, phase, segment>>

Peek(word) ==
  /\ phase = "running"
  /\ CanAccess(image, pager, word)
  /\ out' = PagerPeek(image, pager, word)
  /\ UNCHANGED <<image, pager, phase, segment>>

Store(word, val) ==
  /\ phase = "running"
  /\ CanAccess(image, pager, word)
  /\ pager' = PagerStore(image, pager, word, val)
  /\ UNCHANGED <<image, phase, segment, out>>

\* Load, peek or store of a word past the memory or of an unavailable page.
\* The exception ends the pager, so what the failing call left in it (an
\* UNLOADED entry for the page) is left out.
Throw(word) ==
  /\ phase = "running"
  /\ ~ CanAccess(image, pager, word)
  /\ phase' = "threw"
  /\ UNCHANGED <<image, pager, segment, out>>

\* The segment is taken from the image first and the dirty pages are written
\* to it second.
Commit ==
  /\ phase = "running"
  /\ segment' = [pages  |-> OriginalPages(image, pager),
                 uncles |-> Uncles(pager)]
  /\ image' = Committed(image, pager)
  /\ phase' = "committed"
  /\ UNCHANGED <<pager, out>>

Clear ==
  /\ phase = "committed"
  /\ pager' = NewPager
  /\ phase' = "running"
  /\ segment' = NoSegment
  /\ UNCHANGED <<image, out>>

Next ==
  \/ \E word \in Addressed : \/ Load(word)
                             \/ Peek(word)
                             \/ \E val \in Val : Store(word, val)
                             \/ Throw(word)
  \/ Commit
  \/ Clear

Spec == Init /\ [][Next]_vars

-----------------------------------------------------------------------------
(* Properties                                                              *)

\* Every field keeps its type, and exactly the pages with a state other than
\* UNLOADED are in the cache: paging.cpp indexes pageCache with operator[],
\* which would invent a zero page where the two tables disagree.
TypeOK ==
  /\ image \in [Available -> PageData]
  /\ pager.stateTable \in [Nodes -> {UNLOADED, LOADED, DIRTY}]
  /\ pager.pagingCycles \in Nat
  /\ pager.pageCache \in [{p \in Available : IsCached(pager, p)} -> PageData]
  /\ \A p \in Pages \ Available : ~ IsCached(pager, p)
  /\ phase \in {"running", "committed", "threw"}
  /\ out \in Val

\* A cached page that is not DIRTY still equals the image, and after commit
\* every cached page does: dropping the cache then loses nothing, and a page
\* commit skips needs no write.
CacheCoherent ==
  \A p \in DOMAIN pager.pageCache :
    (phase = "committed" \/ pager.stateTable[Leaf(p)] = LOADED)
      => pager.pageCache[p] = image[p]

\* The state of a Merkle node is the highest state of the pages below it:
\* fixupCosts may neither skip an ancestor nor raise a node no touched page
\* lies under.
NodeStateIsMaximum ==
  \A n \in Inner, s \in {LOADED, DIRTY} :
    pager.stateTable[n] >= s
      <=> \E p \in Pages : /\ n \in Path(Leaf(p))
                           /\ pager.stateTable[Leaf(p)] >= s

\* The cycles charged while the guest runs are exactly those the preflight
\* spends on the lists of readPaging and writePaging: execute splits on
\* pagingCycles, long before those lists exist.
CostIsExact ==
  LET read  == DOMAIN pager.pageCache
      write == DirtyPages(pager)
  IN  pager.pagingCycles =
        CYCLE_COST_EXTRA
        + CYCLE_COST_PAGE * (Cardinality(read) + Cardinality(write))
        + CYCLE_COST_MERKLE * ( Cardinality(PagingNodes(read))
                                + Cardinality(PagingNodes(write)) )

\* The segment commit returns covers the memory exactly: every page is either
\* one of its pages or below exactly one uncle, never both, so the root can be
\* recomputed and no digest is redundant ("minimal needed 'uncles'").
SegmentCoversMemory ==
  phase = "committed" /\ DOMAIN segment.pages # {} =>
    \A p \in Pages :
      Cardinality({n \in Path(Leaf(p)) :
                     \/ n \in segment.uncles
                     \/ n = Leaf(p) /\ p \in DOMAIN segment.pages}) = 1

\* The memory a user of the pager sees.
Contents ==
  [w \in Words |->
     IF IsCached(pager, PageOf(w)) THEN CachedWord(pager, w)
     ELSE image[PageOf(w)][OffsetOf(w)]]

\* The pager implements a flat word memory: page-ins, commits and clears are
\* invisible (paging.cpp load, peek, store, commit, clear).
Flat == INSTANCE WordMemory WITH
          Word <- Words, Value <- Val, mem <- Contents, out <- out

FlatMemory == Flat!Spec
=============================================================================
