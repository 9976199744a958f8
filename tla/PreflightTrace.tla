--------------------------- MODULE PreflightTrace ---------------------------
(***************************************************************************)
(* The memory transactions preflightSegment (emu/preflight.cpp) records    *)
(* for one segment, and the pass that ties each to the one before it, so   *)
(* that the circuit's memory argument (dsl/mem.zir, run/run.cpp) cancels.  *)
(*                                                                         *)
(* A digest is one word.  A cycle is a row of the trace; rows without a    *)
(* transaction (rounds, tables) are left out.  A guest's instruction is    *)
(* what it does to memory: loads, then at most one store, then its row.    *)
(* Of the system page two words are kept: REG_WORD for the registers, and  *)
(* STATE_WORD for the suspended pc and mode, the host's input and output,  *)
(* MEPC and SAFE_WRITE_WORD; the dispatch tables, which have pages of      *)
(* their own, are read there as well.                                      *)
(***************************************************************************)
EXTENDS PageTree, Sequences

CONSTANTS
  HashPage(_), HashPair(_, _),
  REG_WORD, STATE_WORD,   \* two words of the system page
  GuestPages,             \* bound: the pages a guest may touch besides
  InitialVal,             \* bound: what the words of an image may hold
  MaxSteps                \* bound: the turns of the preflight's loop

ASSUME SystemPageAssumption ==
  /\ {REG_WORD, STATE_WORD} \subseteq 0 .. WORD_LIMIT - 1
  /\ REG_WORD # STATE_WORD
  /\ PageOf(REG_WORD) = PageOf(STATE_WORD)
  /\ GuestPages \subseteq Pages \ {PageOf(REG_WORD)}

VARIABLES
  pages,     \* the pages of the segment's image
  context,   \* PreflightContext, with the words it reads and writes
  phase,     \* "root", "in", "main", "again" (the ecall at pc is run once
             \* more), "out", "fixup", "done", "corrupt"
  nodesLeft, \* what the loops over readPaging's lists, or writePaging's,
  pagesLeft, \* have not come to
  offset,    \* how many words of the page at hand are hashed
  steps,
  diffCount, \* for each cycle difference, how often it is to be looked up
  trapped, bytewise   \* history: a trap; a host read left in the byte loop

vars == <<pages, context, phase, nodesLeft, pagesLeft, offset, steps, diffCount,
          trapped, bytewise>>

\* TxKind; WRITE marks a store.
READ     == 0
PAGE_IN  == 1
PAGE_OUT == 2
WRITE    == 3

\* prevCycle of the first transaction of a word
FIRST == -1

-----------------------------------------------------------------------------
(* Words                                                                   *)

\* nodeIdxToAddr: digests lie above the pages, by descending index.
DigestWord(idx) == WORD_LIMIT + 2 * MEMORY_SIZE_PAGES - idx

PageWord(page, o) == page * PAGE_SIZE_WORDS + o
WordsIn(ps)       == {w \in 0 .. WORD_LIMIT - 1 : PageOf(w) \in ps}

\* The digests of a memory that is zero outside the words of mem.
DataIn(mem, page) ==
  [o \in Offsets |-> LET w == PageWord(page, o) IN IF w \in DOMAIN mem THEN mem[w] ELSE 0]

DigestsOf(mem) ==
  LET digest[n \in Nodes] == IF n \in Inner
                             THEN HashPair(digest[2 * n], digest[2 * n + 1])
                             ELSE HashPage(DataIn(mem, n - MEMORY_SIZE_PAGES))
  IN  digest

\* The digests a segment's image holds: the root and the children of the
\* nodes above its pages.
KnownDigests(ps) ==
  {1} \cup {2 * n : n \in PagingNodes(ps)} \cup {2 * n + 1 : n \in PagingNodes(ps)}

\* The words a segment starts with: those of its pages, and the digests.
InitialWords(image) ==
  [w \in DOMAIN image \cup {DigestWord(n) : n \in KnownDigests(pages)} |->
     IF w < WORD_LIMIT THEN image[w] ELSE DigestsOf(image)[DigestWord(0) - w]]

-----------------------------------------------------------------------------
(* PreflightContext                                                        *)

Update(f, x, y) == [z \in DOMAIN f \cup {x} |-> IF z = x THEN y ELSE f[z]]

LastCycle(c, word) == IF word \in DOMAIN c.prevCycle THEN c.prevCycle[word] ELSE FIRST

Txn(kind, word, cycle, val, prevCycle, prevVal) ==
  [kind |-> kind, word |-> word, cycle |-> cycle, val |-> val,
   prevCycle |-> prevCycle, prevVal |-> prevVal]

Recorded(c, txn, mem, origValue, dirty) ==
  [txns |-> Append(c.txns, txn), prevCycle |-> Update(c.prevCycle, txn.word, txn.cycle),
   mem |-> mem, origValue |-> origValue, dirty |-> dirty,
   cycles |-> c.cycles, memCycle |-> c.memCycle]

\* kind is how the circuit reads the row, which the context does not record.
Load(c, kind, word) ==
  Recorded(c, Txn(kind, word, 2 * Len(c.cycles), c.mem[word], LastCycle(c, word), c.mem[word]),
           c.mem,
           IF word \in DOMAIN c.origValue THEN c.origValue
           ELSE Update(c.origValue, word, c.mem[word]),
           c.dirty)

\* A store reads the old value from the pager, and does not record it in
\* origValue.
Store(c, word, val) ==
  Recorded(c, Txn(WRITE, word, 2 * Len(c.cycles) + 1, val, LastCycle(c, word), c.mem[word]),
           Update(c.mem, word, val), c.origValue,
           IF word < WORD_LIMIT THEN c.dirty \cup {PageOf(word)} ELSE c.dirty)

\* cycleComplete: the row gets the transactions since the last one.
Complete(c) ==
  [cycles |-> Append(c.cycles, c.memCycle), memCycle |-> Len(c.txns),
   txns |-> c.txns, prevCycle |-> c.prevCycle, origValue |-> c.origValue,
   mem |-> c.mem, dirty |-> c.dirty]

\* trapRewind drops the transactions of the open row, and nothing else.
TrapRewind(c) ==
  [txns |-> SubSeq(c.txns, 1, c.memCycle),
   cycles |-> c.cycles, memCycle |-> c.memCycle, prevCycle |-> c.prevCycle,
   origValue |-> c.origValue, mem |-> c.mem, dirty |-> c.dirty]

-----------------------------------------------------------------------------
(* Paging.  p2DoNode and p2DoPage end in the same rows (p2Rest): blocks    *)
(* are loaded, each in a row of its own, and their digest is checked       *)
(* against the one stored, or replaces it.                                 *)

\* Mutant: a block is an ordinary read.
LoadInReads(c, isRead, word) == Complete(Load(c, IF isRead THEN READ ELSE PAGE_OUT, word))

LoadIn(c, isRead, word) == Complete(Load(c, IF isRead THEN PAGE_IN ELSE PAGE_OUT, word))

\* The check passes: the digests the image gives are true.
DoOut(c, isRead, idx, out) ==
  Complete(IF isRead THEN Load(c, READ, DigestWord(idx)) ELSE Store(c, DigestWord(idx), out))

P2DoNode(c, idx, isRead) ==
  LET right == LoadIn(c, isRead, DigestWord(2 * idx + 1))
      left  == LoadIn(right, isRead, DigestWord(2 * idx))
  IN  DoOut(left, isRead, idx,
            HashPair(c.mem[DigestWord(2 * idx)], c.mem[DigestWord(2 * idx + 1)]))

\* R0Context::resume and suspend with the context's own.
Resumed(c) ==
  LET loaded == Complete(Load(Load(c, READ, STATE_WORD), READ, STATE_WORD))
  IN  Complete(Store(loaded, STATE_WORD, 0))

Suspended(c) ==
  LET stored == Complete(Store(Store(c, STATE_WORD, 0), STATE_WORD, 1))
  IN  Complete(Load(stored, READ, STATE_WORD))

-----------------------------------------------------------------------------
(* preflightSegment.  Each turn of one of its loops is a step.             *)

Init ==
  /\ pages \in {ps \cup {PageOf(REG_WORD)} : ps \in SUBSET GuestPages}
  /\ \E image \in [WordsIn(pages) -> InitialVal] :
       context = [mem |-> InitialWords(image), txns |-> <<>>, cycles |-> <<>>,
                  memCycle |-> 0, prevCycle |-> <<>>, origValue |-> <<>>, dirty |-> {}]
  /\ phase = "root"
  /\ nodesLeft = {} /\ pagesLeft = {} /\ offset = 0
  /\ steps = 0
  /\ diffCount = <<>>
  /\ trapped = FALSE
  /\ bytewise = FALSE

\* std::map's first key, and its last.
Least(n, S)    == n \in S /\ \A m \in S : n <= m
Greatest(n, S) == n \in S /\ \A m \in S : m <= n

\* readRoot, and what there is to page in.
ReadRoot ==
  /\ phase = "root"
  /\ context' = LoadIn(context, TRUE, DigestWord(1))
  /\ phase' = "in"
  /\ nodesLeft' = PagingNodes(pages)
  /\ pagesLeft' = pages
  /\ UNCHANGED <<pages, offset, steps, diffCount, trapped, bytewise>>

DoNode(n, isRead) ==
  /\ context' = P2DoNode(context, n, isRead)
  /\ nodesLeft' = nodesLeft \ {n}
  /\ UNCHANGED <<pages, phase, pagesLeft, offset, steps, diffCount, trapped, bytewise>>

\* p2DoPage: the next block, or after the last the page's digest.
DoPage(page, isRead) ==
  /\ \/ /\ offset < PAGE_SIZE_WORDS
        /\ context' = LoadIn(context, isRead, PageWord(page, offset))
        /\ offset' = offset + 1
        /\ UNCHANGED pagesLeft
     \/ /\ offset = PAGE_SIZE_WORDS
        /\ context' = DoOut(context, isRead, Leaf(page), HashPage(DataIn(context.mem, page)))
        /\ offset' = 0
        /\ pagesLeft' = pagesLeft \ {page}
  /\ UNCHANGED <<pages, phase, nodesLeft, steps, diffCount, trapped, bytewise>>

ReadNode(n)    == phase = "in" /\ Least(n, nodesLeft) /\ DoNode(n, TRUE)
ReadPage(page) == phase = "in" /\ nodesLeft = {} /\ Least(page, pagesLeft) /\ DoPage(page, TRUE)

Resume ==
  /\ phase = "in" /\ nodesLeft = {} /\ pagesLeft = {}
  /\ context' = Resumed(context)
  /\ phase' = "main"
  /\ UNCHANGED <<pages, nodesLeft, pagesLeft, offset, steps, diffCount, trapped, bytewise>>

\* A turn of the loop that runs the guest.
Step ==
  /\ steps < MaxSteps
  /\ steps' = steps + 1
  /\ UNCHANGED <<pages, nodesLeft, pagesLeft, offset, diffCount>>

\* An instruction: it is fetched, loads, may store, and completes its row.
Instruction(code, word) ==
  /\ phase = "main" /\ Step
  /\ LET loaded == Load(Load(Load(context, READ, code), READ, REG_WORD), READ, word)
     IN  \/ context' = Complete(loaded)
         \/ \E w \in {word, REG_WORD}, v \in Val : context' = Complete(Store(loaded, w, v))
  /\ UNCHANGED <<phase, trapped, bytewise>>

\* doHostRead into word: bytes are written one by one, each after reading the
\* word they are in, without a row of their own; a block of words ends its
\* row.  Without one, pc stays at the ecall and the row stays open.
HostRead(code, word, bytes, block, val) ==
  LET setup   == Complete(Load(Load(context, READ, code), READ, REG_WORD))
      asked   == Complete(Store(Load(setup, READ, REG_WORD), REG_WORD, val))
      byte(c) == Store(Load(c, READ, word), word, val)
      written == CASE bytes = 0 -> asked
                   [] bytes = 1 -> byte(asked)
                   [] bytes = 2 -> byte(byte(asked))
  IN  /\ phase \in {"main", "again"} /\ Step
      /\ context' = IF block
                    THEN Complete(Store(Store(written, word, val), STATE_WORD, 0))
                    ELSE written
      /\ phase' = IF bytes > 0 /\ ~ block THEN "again" ELSE "main"
      /\ bytewise' = (bytewise \/ bytes > 1 \/ (bytes = 1 /\ ~ block))
      /\ UNCHANGED trapped

\* An instruction in user mode that traps, having loaded what it loads: the row
\* is rewound and stays open, the dispatch table is read and MEPC is written.
\* One trap in a segment is enough to see what it does.
Trap(code, word) ==
  /\ phase = "main" /\ ~ trapped /\ Step
  /\ LET loaded  == Load(Load(Load(context, READ, code), READ, REG_WORD), READ, word)
     IN  context' = Store(Load(TrapRewind(loaded), READ, STATE_WORD), STATE_WORD, 0)
  /\ trapped' = TRUE
  /\ UNCHANGED <<phase, bytewise>>

\* suspend, and what there is to page out.
Suspend ==
  /\ phase \in {"main", "again"}
  /\ LET c == Suspended(context)
     IN  /\ context' = c
         /\ nodesLeft' = PagingNodes(c.dirty)
         /\ pagesLeft' = c.dirty
  /\ phase' = "out"
  /\ UNCHANGED <<pages, offset, steps, diffCount, trapped, bytewise>>

WritePage(page) == phase = "out" /\ Greatest(page, pagesLeft) /\ DoPage(page, FALSE)

WriteNode(n) ==
  phase = "out" /\ pagesLeft = {} /\ Greatest(n, nodesLeft) /\ DoNode(n, FALSE)

WriteRoot ==
  /\ phase = "out" /\ nodesLeft = {} /\ pagesLeft = {}
  /\ context' = LoadIn(context, FALSE, DigestWord(1))
  /\ phase' = "fixup"
  /\ UNCHANGED <<pages, nodesLeft, pagesLeft, offset, steps, diffCount, trapped, bytewise>>

\* Mutant: the last value is left as it was written.
WrappedCycle(c, t) ==
  Txn(t.kind, t.word, t.cycle, t.val,
      IF t.prevCycle = FIRST THEN c.prevCycle[t.word] ELSE t.prevCycle, t.prevVal)

\* The transaction after the last pass: the first of a word follows its last,
\* and the last of a word leaves the value the first found.
Wrapped(c, t) ==
  Txn(t.kind, t.word, t.cycle,
      IF t.cycle # c.prevCycle[t.word] THEN t.val
      ELSE IF t.word \in DOMAIN c.origValue THEN c.origValue[t.word] ELSE 0,
      IF t.prevCycle = FIRST THEN c.prevCycle[t.word] ELSE t.prevCycle, t.prevVal)

WrappedUp(c) ==
  [txns |-> [i \in DOMAIN c.txns |-> Wrapped(c, c.txns[i])],
   cycles |-> c.cycles, memCycle |-> c.memCycle, prevCycle |-> c.prevCycle,
   origValue |-> c.origValue, mem |-> c.mem, dirty |-> c.dirty]

\* The differences the pass counts; all but the first transactions'.
Followers(c) == {i \in DOMAIN c.txns : c.txns[i].prevCycle # FIRST}
Diff(t) == t.cycle - t.prevCycle

\* A negative difference is a huge uint32_t, and indexes past the rows.
FixUp ==
  /\ phase = "fixup"
  /\ LET diffs == {Diff(context.txns[i]) : i \in Followers(context)}
     IN  IF \E d \in diffs : d < 0
         THEN phase' = "corrupt" /\ UNCHANGED <<context, diffCount>>
         ELSE /\ phase' = "done"
              /\ diffCount' = [d \in diffs |->
                   Cardinality({i \in Followers(context) : Diff(context.txns[i]) = d})]
              /\ context' = WrappedUp(context)
  /\ UNCHANGED <<pages, nodesLeft, pagesLeft, offset, steps, trapped, bytewise>>

\* The words of programs and of their data.  Programs are fetched from the
\* first word of a page, which may be the page of the data.
GuestWords == WordsIn(pages \cap GuestPages)
CodeWords  == {word \in GuestWords : OffsetOf(word) = 0}

Next ==
  \/ ReadRoot
  \/ \E n \in Nodes : ReadNode(n) \/ WriteNode(n)
  \/ \E page \in Pages : ReadPage(page) \/ WritePage(page)
  \/ Resume
  \/ \E code \in CodeWords, word \in GuestWords : Instruction(code, word) \/ Trap(code, word)
  \/ \E code \in CodeWords, word \in GuestWords, bytes \in 0 .. 2, block \in BOOLEAN, val \in Val :
       HostRead(code, word, bytes, block, val)
  \/ Suspend
  \/ WriteRoot
  \/ FixUp

Spec == Init /\ [][Next]_vars

-----------------------------------------------------------------------------
(* Properties                                                              *)

\* What the rows of the circuit add to the memory table and take from it
\* cancels, as LookupTables::check asks.
Cancels ==
  LET t == context.txns
      new(i) == <<t[i].word, t[i].cycle, t[i].val>>
      old(i) == <<t[i].word, t[i].prevCycle, t[i].prevVal>>
  IN  \A x \in {new(i) : i \in DOMAIN t} \cup {old(i) : i \in DOMAIN t} :
        Cardinality({i \in DOMAIN t : new(i) = x}) = Cardinality({i \in DOMAIN t : old(i) = x})

\* Without a trap the memory argument of every trace the last pass finishes
\* cancels: whatever was loaded and stored, page by page, row by row, the last
\* value of a word leads back to its first.  A read returns what the last
\* transaction left (mem.zir IsRead), also after the pass has overwritten the
\* value of some reads.
MemoryHolds ==
  phase = "done" =>
    /\ ~ trapped => Cancels
    /\ \A i \in DOMAIN context.txns :
         context.txns[i].kind \in {READ, PAGE_IN}
           => context.txns[i].val = context.txns[i].prevVal

\* A transaction lies in the row its cycle names: the circuit's replay takes a
\* row's transactions from cycles[].memCycle on.
InItsRow(c, i) ==
  LET row == c.txns[i].cycle \div 2 + 1
  IN  IF row <= Len(c.cycles)
      THEN /\ c.cycles[row] < i
           /\ i <= IF row < Len(c.cycles) THEN c.cycles[row + 1] ELSE c.memCycle
      ELSE i > c.memCycle

RowsHoldTheirs == \A i \in DOMAIN context.txns : InItsRow(context, i)

\* The circuit looks up a difference at each transaction but a page-in.
LookedUp == {i \in DOMAIN context.txns : context.txns[i].kind # PAGE_IN}

DiffsCounted ==
  /\ {Diff(context.txns[i]) : i \in LookedUp} = DOMAIN diffCount
  /\ \A d \in DOMAIN diffCount :
       Cardinality({i \in LookedUp : Diff(context.txns[i]) = d}) = diffCount[d]

\* Every difference the circuit looks up was counted by the pass as often; no
\* transaction is older than the one it follows, unless a host read wrote
\* bytes (r0vm.h:181), so that the pass counts outside the rows only then; and
\* a transaction lies in its row.
CyclesCancel ==
  /\ phase = "done" => DiffsCounted
  /\ phase = "corrupt" => bytewise
  /\ RowsHoldTheirs

\* The root the segment ends with is that of the memory it leaves.
RootOutIsTrue ==
  phase \in {"fixup", "done"} =>
    LET last == context.txns[Len(context.txns)]
    IN  last.word = DigestWord(1) /\ last.prevVal = DigestsOf(context.mem)[1]

=============================================================================
