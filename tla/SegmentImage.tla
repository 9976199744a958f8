---------------------------- MODULE SegmentImage ----------------------------
(***************************************************************************)
(* How a segment's memory image is cut out of the executor's image and     *)
(* used by the preflight: PagedMemory over MemoryImage, with the loops of  *)
(* PagedMemory::commit step by step, because pageCache is an unordered_map *)
(* and its iteration order is not fixed.                                   *)
(*                                                                         *)
(* One turn of the machine is one segment:                                 *)
(*   run      the guest loads and stores through the pager                 *)
(*   gather   commit copies the original pages into the segment            *)
(*   uncles   commit copies the digests of the untouched subtrees          *)
(*   write    commit writes the dirty pages back to the executor's image   *)
(*   pagein   the preflight asks the segment for the digests of readPaging *)
(*   replay   the preflight's own commit writes the same pages to its copy *)
(*   done     the executor clears the pager and goes on                    *)
(***************************************************************************)
EXTENDS Paging, MemoryImage

CONSTANT MaxTouched   \* bound: pages the guest touches in one segment

ASSUME MaxTouchedAssumption == MaxTouched \in Nat

VARIABLES
  full,    \* the executor's MemoryImage
  part,    \* the segment's MemoryImage, then the preflight's copy of it
  pager,   \* the executor's pager
  base,    \* the memory, page by page, when the segment began
  phase,
  todo     \* pages or nodes the loop of this phase has left

vars == <<full, part, pager, base, phase, todo>>

\* The memory as the guest sees it.
Current == [p \in Pages |-> IF IsCached(pager, p) THEN pager.pageCache[p]
                            ELSE base[p]]

\* A memory in the middle of a write-back of the dirty pages.
WrittenBack == [p \in Pages |-> IF p \in DirtyPages(pager) \ todo
                                THEN pager.pageCache[p] ELSE base[p]]

\* The memories the executor can start from: any words in any pages.
InitialWords == UNION {[S -> Val] : S \in SUBSET (0 .. WORD_LIMIT - 1)}

PagesOf(words) ==
  [p \in Pages |-> [o \in Offsets |->
     IF p * PAGE_SIZE_WORDS + o \in DOMAIN words
     THEN words[p * PAGE_SIZE_WORDS + o] ELSE ZeroPage[o]]]

Init ==
  /\ \E words \in InitialWords : /\ full = FromWords(words)
                                 /\ base = PagesOf(words)
  /\ part = UnknownImage
  /\ pager = NewPager
  /\ phase = "run"
  /\ todo = {}

-----------------------------------------------------------------------------
(* The guest                                                               *)

\* A word of a page that is cached, or that may still be touched.
Touchable(word) ==
  \/ IsCached(pager, PageOf(word))
  \/ Cardinality(DOMAIN pager.pageCache) < MaxTouched

Load(word) ==
  /\ phase = "run" /\ Touchable(word)
  /\ CanAccess(Supplied(full), pager, word)
  /\ pager' = PagerLoad(Supplied(full), pager, word)
  /\ full' = IF IsCached(pager, PageOf(word)) THEN full
             ELSE AskPage(full, PageOf(word))
  /\ UNCHANGED <<part, base, phase, todo>>

Store(word, val) ==
  /\ phase = "run" /\ Touchable(word)
  /\ CanAccess(Supplied(full), pager, word)
  /\ pager' = PagerStore(Supplied(full), pager, word, val)
  /\ full' = IF IsCached(pager, PageOf(word)) THEN full
             ELSE AskPage(full, PageOf(word))
  /\ UNCHANGED <<part, base, phase, todo>>

-----------------------------------------------------------------------------
(* commit                                                                  *)

\* execute never commits an untouched pager: resume loads the suspended pc.
StartCommit ==
  /\ phase = "run" /\ DOMAIN pager.pageCache # {}
  /\ phase' = "gather"
  /\ todo' = DOMAIN pager.pageCache
  /\ part' = UnknownImage
  /\ UNCHANGED <<full, pager, base>>

\* Mutant: the segment gets the page as the guest left it.
GatherPageCached(page) ==
  /\ phase = "gather" /\ page \in todo /\ HasPage(full, page)
  /\ part' = SetPage(part, page, pager.pageCache[page])
  /\ full' = AskPage(full, page)
  /\ todo' = todo \ {page}
  /\ UNCHANGED <<pager, base, phase>>

GatherPage(page) ==
  /\ phase = "gather" /\ page \in todo /\ HasPage(full, page)
  /\ part' = SetPage(part, page, PageAt(full, page))
  /\ full' = AskPage(full, page)
  /\ todo' = todo \ {page}
  /\ UNCHANGED <<pager, base, phase>>

\* The uncles go in by ascending index: orderedIdx is sorted.
GatherUncle ==
  /\ phase = "uncles" /\ todo # {}
  /\ LET idx == Min(todo)
     IN  /\ HasDigest(full, idx)
         /\ part' = SetDigest(part, idx, DigestAt(full, idx))
         /\ full' = AskDigest(full, idx)
         /\ todo' = todo \ {idx}
  /\ UNCHANGED <<pager, base, phase>>

WriteBack(page) ==
  /\ phase = "write" /\ page \in todo
  /\ full' = SetPage(full, page, pager.pageCache[page])
  /\ todo' = todo \ {page}
  /\ UNCHANGED <<part, pager, base, phase>>

-----------------------------------------------------------------------------
(* The preflight                                                           *)

\* computePaging walks the nodes from the highest index down and asks for the
\* digests of both children.
AskNode ==
  /\ phase = "pagein" /\ todo # {}
  /\ LET idx   == Max(todo)
         first == AskDigest(part, 2 * idx)
     IN  /\ HasDigest(part, 2 * idx)
         /\ HasDigest(first, 2 * idx + 1)
         /\ part' = AskDigest(first, 2 * idx + 1)
         /\ todo' = todo \ {idx}
  /\ UNCHANGED <<full, pager, base, phase>>

ReplayWrite(page) ==
  /\ phase = "replay" /\ page \in todo /\ HasPage(part, page)
  /\ part' = SetPage(part, page, pager.pageCache[page])
  /\ todo' = todo \ {page}
  /\ UNCHANGED <<full, pager, base, phase>>

-----------------------------------------------------------------------------
(* From one loop to the next                                               *)

Advance(from, to, next) ==
  /\ phase = from /\ todo = {}
  /\ phase' = to
  /\ todo' = next
  /\ UNCHANGED <<full, part, pager, base>>

AdvancePhase ==
  \/ Advance("gather", "uncles", Uncles(pager))
  \/ Advance("uncles", "write", DirtyPages(pager))
  \/ Advance("write", "pagein", PagingNodes(DOMAIN part.pages))
  \/ Advance("pagein", "replay", DirtyPages(pager))
  \/ Advance("replay", "done", {})

Clear ==
  /\ phase = "done"
  /\ base' = Current
  /\ pager' = NewPager
  /\ part' = UnknownImage
  /\ phase' = "run"
  /\ UNCHANGED <<full, todo>>

Next ==
  \/ \E word \in 0 .. WORD_LIMIT - 1 : Load(word) \/ \E v \in Val : Store(word, v)
  \/ StartCommit
  \/ \E p \in Pages : GatherPage(p) \/ WriteBack(p) \/ ReplayWrite(p)
  \/ GatherUncle
  \/ AskNode
  \/ AdvancePhase
  \/ Clear

Spec == Init /\ [][Next]_vars

-----------------------------------------------------------------------------
(* Properties                                                              *)

\* What the memory of the executor's image must be in this phase.
FullMemory == CASE phase \in {"run", "gather", "uncles"} -> base
                [] phase = "write"                       -> WrittenBack
                [] OTHER                                 -> Current

\* The executor's image always commits to the memory: its root is the root of
\* the whole memory and no digest it keeps is out of date, whatever zero
\* subtrees were expanded and in whatever order pages were written; and it can
\* supply every page at any time.
FullImageIsTrue ==
  /\ 1 \in DOMAIN full.digests
  /\ DescribesMemory(full, FullMemory)
  /\ DOMAIN Supplied(full) = Pages

\* The segment's image agrees with the memory the segment began with, whatever
\* the order its pages came in, and during the replay it follows the
\* write-back.  Once gathered it holds the root it is proved from, and after
\* the preflight's write-back the root the executor's image has: the chain of
\* segments is continuous.
PartImageIsTrue ==
  /\ DescribesMemory(part, CASE phase = "replay" -> WrittenBack
                             [] phase = "done"   -> Current
                             [] OTHER            -> base)
  /\ phase \in {"write", "pagein", "replay", "done"} =>
       /\ 1 \in DOMAIN part.digests
       /\ DOMAIN part.pages = DOMAIN pager.pageCache
  /\ phase = "done" => part.digests[1] = full.digests[1]

\* Nothing commit, readPaging or the preflight's stores ask for is missing:
\* none of the "unavailable" exceptions of getPage and getDigest can happen.
NothingUnavailable ==
  /\ phase = "gather" => \A p \in todo : HasPage(full, p)
  /\ phase = "uncles" => \A n \in todo : HasDigest(full, n)
  /\ phase = "pagein" => \A n \in todo : HasDigest(part, 2 * n) /\ HasDigest(part, 2 * n + 1)
  /\ phase = "replay" => \A p \in todo : HasPage(part, p)
=============================================================================
