------------------------------- MODULE Paging -------------------------------
(***************************************************************************)
(* The paging cache of the rv32im-v2 executor (emu/paging.cpp), as a       *)
(* passive data structure: a pager is a record                             *)
(*                                                                         *)
(*   pageCache     the pages copied out of the image since the last clear  *)
(*   stateTable    UNLOADED / LOADED / DIRTY for each page and each Merkle *)
(*                 node above a page                                       *)
(*   pagingCycles  the cycles the circuit will spend paging in and out     *)
(*                                                                         *)
(* and every method of class PagedMemory is an operator on it.  An image   *)
(* is the function from the pages it can supply to their words; a page     *)
(* outside its domain is one MemoryImage::getPage throws for.              *)
(*                                                                         *)
(* The module declares nothing RECURSIVE, so that proofs can use it: the   *)
(* loops that climb to the root are written over Path.                     *)
(***************************************************************************)
EXTENDS PageTree

CONSTANTS
  CYCLE_COST_PAGE,     \* cycles to page a page in, or out
  CYCLE_COST_MERKLE,   \* cycles to verify a Merkle node, or to update it
  CYCLE_COST_EXTRA     \* cycles every segment pays besides

ASSUME CostAssumption ==
  /\ CYCLE_COST_PAGE \in Nat
  /\ CYCLE_COST_MERKLE \in Nat
  /\ CYCLE_COST_EXTRA \in Nat

UNLOADED == 0
LOADED   == 1
DIRTY    == 2

-----------------------------------------------------------------------------
(* Costs and states                                                        *)

NewPager ==
  [pageCache    |-> [p \in {} |-> 0],
   stateTable   |-> [n \in Nodes |-> UNLOADED],
   pagingCycles |-> CYCLE_COST_EXTRA]

\* Mutant: the climb stops below the root.
RaisedBelowRoot(stateTable, idx, goalState) ==
  {n \in Path(idx) \ {1} : stateTable[n] < goalState}

\* fixupCosts climbs Path(idx); these are the nodes whose state is below
\* goalState.
Raised(stateTable, idx, goalState) ==
  {n \in Path(idx) : stateTable[n] < goalState}

\* Each inner node is paid for once when it is first needed, and once more
\* when it first becomes dirty.
FixupCharge(stateTable, idx, goalState) ==
  LET up == Raised(stateTable, idx, goalState) \cap Inner
  IN  CYCLE_COST_MERKLE *
        ( Cardinality({n \in up : stateTable[n] = UNLOADED})
          + (IF goalState = DIRTY THEN Cardinality(up) ELSE 0) )

\* Mutant: the goal is added to the state.
FixupStateAdds(stateTable, idx, goalState) ==
  [n \in Nodes |-> IF n \in Raised(stateTable, idx, goalState)
                   THEN stateTable[n] + goalState ELSE stateTable[n]]

FixupState(stateTable, idx, goalState) ==
  [n \in Nodes |-> IF n \in Raised(stateTable, idx, goalState)
                   THEN goalState ELSE stateTable[n]]

FixupCosts(pager, idx, goalState) ==
  [pageCache    |-> pager.pageCache,
   stateTable   |-> FixupState(pager.stateTable, idx, goalState),
   pagingCycles |-> pager.pagingCycles
                      + FixupCharge(pager.stateTable, idx, goalState)]

\* The two places that pay for a page: its page-in and its page-out.
ChargePage(pager, pageCache) ==
  [pageCache    |-> pageCache,
   stateTable   |-> pager.stateTable,
   pagingCycles |-> pager.pagingCycles + CYCLE_COST_PAGE]

-----------------------------------------------------------------------------
(* Accesses                                                                *)

IsCached(pager, page) == pager.stateTable[Leaf(page)] # UNLOADED

\* pageCache[page] = data
CacheWith(pageCache, page, data) ==
  [q \in DOMAIN pageCache \cup {page} |-> IF q = page THEN data
                                         ELSE pageCache[q]]

LoadPage(image, pager, page) ==
  FixupCosts(ChargePage(pager, CacheWith(pager.pageCache, page, image[page])),
             Leaf(page), LOADED)

\* Mutant: the page is copied again although it is cached.
EnsureLoadedAgain(image, pager, page) == LoadPage(image, pager, page)

\* The common first half of load and store.
EnsureLoaded(image, pager, page) ==
  IF IsCached(pager, page) THEN pager ELSE LoadPage(image, pager, page)

\* Mutants: a page loaded before is never marked; every store pays again.
EnsureDirtyIfUnloaded(pager, page) ==
  IF pager.stateTable[Leaf(page)] = UNLOADED
  THEN FixupCosts(ChargePage(pager, pager.pageCache), Leaf(page), DIRTY)
  ELSE pager

EnsureDirtyAlways(pager, page) ==
  FixupCosts(ChargePage(pager, pager.pageCache), Leaf(page), DIRTY)

\* The common first half of store: the page-out is paid for at the first
\* store to a page.
EnsureDirty(pager, page) ==
  IF pager.stateTable[Leaf(page)] = LOADED
  THEN FixupCosts(ChargePage(pager, pager.pageCache), Leaf(page), DIRTY)
  ELSE pager

CachedWord(pager, word) == pager.pageCache[PageOf(word)][OffsetOf(word)]

PagerLoad(image, pager, word) == EnsureLoaded(image, pager, PageOf(word))

PagerStore(image, pager, word, val) ==
  LET page  == PageOf(word)
      dirty == EnsureDirty(EnsureLoaded(image, pager, page), page)
  IN  [pageCache    |-> CacheWith(dirty.pageCache, page,
                          [dirty.pageCache[page] EXCEPT ![OffsetOf(word)] = val]),
       stateTable   |-> dirty.stateTable,
       pagingCycles |-> dirty.pagingCycles]

PagerPeek(image, pager, word) ==
  IF IsCached(pager, PageOf(word))
  THEN CachedWord(pager, word)
  ELSE image[PageOf(word)][OffsetOf(word)]

\* When load, peek and store return; otherwise they throw.
CanAccess(image, pager, word) ==
  /\ word < WORD_LIMIT
  /\ IsCached(pager, PageOf(word)) \/ PageOf(word) \in DOMAIN image

-----------------------------------------------------------------------------
(* Commit                                                                  *)

\* The 'initial' pages commit returns, taken from the image before it is
\* updated.
OriginalPages(image, pager) == [p \in DOMAIN pager.pageCache |-> image[p]]

UnclesInner(pager) ==
  {c \in Inner : /\ c # 1
                 /\ pager.stateTable[c] = UNLOADED
                 /\ pager.stateTable[c \div 2] # UNLOADED}

\* The nodes whose digest commit copies: each child that was never touched
\* of a node that was.
Uncles(pager) ==
  {c \in Nodes : /\ c # 1
                 /\ pager.stateTable[c] = UNLOADED
                 /\ pager.stateTable[c \div 2] # UNLOADED}

DirtyPages(pager) ==
  {p \in DOMAIN pager.pageCache : pager.stateTable[Leaf(p)] = DIRTY}

\* The image after commit.
Committed(image, pager) ==
  [p \in DOMAIN image |-> IF p \in DirtyPages(pager)
                          THEN pager.pageCache[p] ELSE image[p]]
=============================================================================
