------------------------------ MODULE Segments ------------------------------
(***************************************************************************)
(* execute (emu/exec.cpp) cutting the run of a guest into segments, and    *)
(* the replay of each segment by preflightSegment (emu/preflight.cpp).     *)
(*                                                                         *)
(* The guest is a program in machine mode (loadRaw starts one there) whose *)
(* instructions are those that matter to the two contexts: arithmetic,     *)
(* loads, stores, jumps and the ecalls that talk to the host.  One action  *)
(* is one turn of execute's loop, or one turn of the preflight's.          *)
(*                                                                         *)
(* A context is a record: the pages its image supplies, its pager, its pc, *)
(* whether the guest has terminated, and its two cycle counters.           *)
(***************************************************************************)
EXTENDS Paging, Sequences

CONSTANTS
  Programs,           \* the guests: sequences of instructions
  Thresholds,         \* the values of segmentThreshold tried
  MaxCycles,          \* maxCycles: user cycles after which execute stops
  HostData,           \* the values a host read may return
  CODE_WORD,          \* a word of the page the program is fetched from
  SUSPEND_PC_WORD, SUSPEND_MODE_WORD, INPUT_WORD,
  REG_WORD            \* the register file, on the page of the words above

VARIABLES
  program, threshold,
  exec,       \* the executor's context
  segments,   \* the segments finished
  open,       \* the segment being recorded
  phase,      \* "running", "split" after a split, "returned"
  rep         \* the replay of one segment

vars == <<program, threshold, exec, segments, open, phase, rep>>

Register == Val

ZeroPage == [o \in Offsets |-> 0]

\* fromWords with the two words loadRaw adds; the code itself is in program.
StartImage ==
  [p \in Pages |-> IF p = PageOf(SUSPEND_MODE_WORD)
                   THEN [ZeroPage EXCEPT ![OffsetOf(SUSPEND_MODE_WORD)] = 1]
                   ELSE ZeroPage]

-----------------------------------------------------------------------------
(* What an instruction does to a context                                   *)

Context(image) == [image |-> image, pager |-> NewPager, pc |-> 0, done |-> FALSE,
                   userCycles |-> 0, physCycles |-> 0]

Word(c, word) == PagerPeek(c.image, c.pager, word)

\* p itself; comparing it with itself makes TLC evaluate it once, so that a
\* sequence of accesses costs TLC their sum and not their product.
Evaluated(p) == CHOOSE v \in {p} : v = v

LoadWord(c, word) ==
  [c EXCEPT !.pager = Evaluated(PagerLoad(c.image, @, word))]

StoreWord(c, word, val) ==
  [c EXCEPT !.pager = Evaluated(PagerStore(c.image, @, word, val))]

\* R0Context::resume and suspend, without what the context adds.
Resume(c) ==
  LET l == LoadWord(LoadWord(c, SUSPEND_PC_WORD), SUSPEND_MODE_WORD)
  IN  [l EXCEPT !.pc = Word(l, SUSPEND_PC_WORD)]

Suspend(c) == StoreWord(StoreWord(c, SUSPEND_PC_WORD, c.pc), SUSPEND_MODE_WORD, 1)

\* Every step fetches its instruction and reads registers.
Fetched(c) == LoadWord(LoadWord(c, CODE_WORD), REG_WORD)

\* endNormal: an ordinary instruction counts in both counters.
Counted(c) == [c EXCEPT !.userCycles = @ + 1, !.physCycles = @ + 1]

\* An ecall counts in physCycles only, once for each ecallCycle.
EcallCycles(c, n) == [c EXCEPT !.physCycles = @ + n]

Advanced(c) == [c EXCEPT !.pc = @ + 1]

Instruction(c) == program[c.pc + 1]

\* The instructions that do not involve the host.  An instruction without a
\* destination writes the register x0 shadows, on the same page.
LocalStep(c) ==
  LET i   == Instruction(c)
      f   == Fetched(c)
      reg == Word(f, REG_WORD)
  IN  CASE i.op = "add" ->
             Counted(Advanced(StoreWord(f, REG_WORD, (reg + 1) % Cardinality(Register))))
        [] i.op = "load" ->
             LET l == LoadWord(f, i.arg)
             IN  Counted(Advanced(StoreWord(l, REG_WORD, Word(l, i.arg))))
        [] i.op = "store" ->
             Counted(Advanced(StoreWord(f, i.arg, reg)))
        [] i.op = "jump" ->
             Counted([StoreWord(f, REG_WORD, reg) EXCEPT !.pc = i.arg])
        [] i.op = "halt" ->
             [EcallCycles(f, 2) EXCEPT !.done = TRUE]

\* doHostRead of one word or of nothing: data is <<>> or <<value>>.
ReadStep(c, data) ==
  LET i == Instruction(c)
      r == StoreWord(Fetched(c), REG_WORD, Len(data))
  IN  IF data = <<>> THEN EcallCycles(Advanced(r), 2)
      ELSE EcallCycles(Advanced(StoreWord(r, i.arg, data[1])), 3)

\* doHostWrite: the buffer is peeked at, so its page is not paged in.
WriteStep(c, rlen) ==
  EcallCycles(Advanced(StoreWord(Fetched(c), REG_WORD, rlen)), 2)

Local == {"add", "load", "store", "jump", "halt"}

\* Words are numbers that can hold every pc; the system words share a page;
\* and a guest addresses the memory, leaves the input words alone, and does not
\* run off its end.
ASSUME SegmentsAssumption ==
  /\ IsFiniteSet(Val) /\ Val = 0 .. Cardinality(Val) - 1 /\ 1 \in Val
  /\ {CODE_WORD, SUSPEND_PC_WORD, SUSPEND_MODE_WORD, INPUT_WORD, REG_WORD}
       \subseteq 0 .. WORD_LIMIT - 1
  /\ {PageOf(w) : w \in {SUSPEND_PC_WORD, SUSPEND_MODE_WORD, INPUT_WORD}} = {PageOf(REG_WORD)}
  /\ SUSPEND_PC_WORD # SUSPEND_MODE_WORD
  /\ INPUT_WORD \notin {SUSPEND_PC_WORD, SUSPEND_MODE_WORD, REG_WORD}
  /\ Thresholds \subseteq Nat /\ HostData \subseteq Val
  /\ \A guest \in Programs :
       /\ guest \in Seq([op : Local \cup {"read", "write"}, arg : Nat])
       /\ Len(guest) \in 1 .. Cardinality(Val)
       /\ guest[Len(guest)].op \in {"jump", "halt"}
       /\ \A n \in DOMAIN guest :
            /\ guest[n].op \in {"load", "store", "read"} => guest[n].arg < WORD_LIMIT
            /\ guest[n].op \in {"store", "read"} => guest[n].arg # INPUT_WORD
            /\ guest[n].op = "jump" => guest[n].arg < Len(guest)

-----------------------------------------------------------------------------
(* execute                                                                 *)

\* A segment under construction: the host's answers, and, to state the
\* properties, the memory at its start and the cycles counted before it.
OpenSegment(memory, physCycles) ==
  [readRecord |-> <<>>, writeRecord |-> <<>>,
   startMemory |-> memory, startCycles |-> physCycles]

\* What execute stores in ret.back() when it closes a segment.  The counters
\* are read before suspend, the image after it.  endMemory, endPc, ranCycles
\* and guestDone are kept for the properties only.
Segment(c, s, isTerminate) ==
  LET e == Suspend(c)
  IN  [image        |-> Evaluated(OriginalPages(e.image, e.pager)),
       readRecord   |-> s.readRecord,
       writeRecord  |-> s.writeRecord,
       isTerminate  |-> isTerminate,
       suspendCycle |-> c.physCycles,
       pagingCycles |-> c.pager.pagingCycles,
       startMemory  |-> s.startMemory,
       endMemory    |-> Evaluated(Committed(e.image, e.pager)),
       endPc        |-> c.pc,
       ranCycles    |-> c.physCycles - s.startCycles,
       guestDone    |-> c.done]

\* suspend, commit, clear and resume.  Neither counter is reset.
Reopened(c) ==
  LET e == Suspend(c)
  IN  Resume([e EXCEPT !.image = Evaluated(Committed(e.image, e.pager)),
                       !.pager = NewPager])

\* Mutant: the cost of paging is forgotten.
FullIgnoresPaging == exec.physCycles >= threshold

Full == exec.physCycles + exec.pager.pagingCycles >= threshold

NoReplay == [status |-> "none", k |-> 0, c |-> Context(StartImage),
             curRead |-> 0, curWrite |-> 0, reads |-> 0]

Init ==
  /\ program \in Programs
  /\ threshold \in Thresholds
  /\ exec = Resume(Context(StartImage))
  /\ segments = <<>>
  /\ open = OpenSegment(StartImage, 0)
  /\ phase = "running"
  /\ rep = NoReplay

\* The condition of the loop.
Running == phase = "running" /\ ~ exec.done /\ exec.userCycles < MaxCycles

\* The first half of a turn, when the segment is full.
Split ==
  /\ Running /\ Full
  /\ segments' = Append(segments, Segment(exec, open, FALSE))
  /\ exec' = Reopened(exec)
  /\ open' = OpenSegment(Committed(Suspend(exec).image, Suspend(exec).pager),
                         exec.physCycles)
  /\ phase' = "split"
  /\ UNCHANGED <<program, threshold, rep>>

\* The second half: step, after a split or at once.
AtStep(ops) ==
  /\ phase = "split" \/ (Running /\ ~ Full)
  /\ Instruction(exec).op \in ops
  /\ phase' = "running"

ExecLocal ==
  /\ AtStep(Local)
  /\ exec' = LocalStep(exec)
  /\ UNCHANGED <<program, threshold, segments, open, rep>>

ExecRead ==
  /\ AtStep({"read"})
  /\ \E data \in {<<>>} \cup {<<v>> : v \in HostData} :
       /\ exec' = ReadStep(exec, data)
       /\ open' = [open EXCEPT !.readRecord = Append(@, data)]
  /\ UNCHANGED <<program, threshold, segments, rep>>

ExecWrite ==
  /\ AtStep({"write"})
  /\ \E rlen \in {0, 1} :
       /\ exec' = WriteStep(exec, rlen)
       /\ open' = [open EXCEPT !.writeRecord = Append(@, rlen)]
  /\ UNCHANGED <<program, threshold, segments, rep>>

\* Mutant: only a terminated guest is returned.
ExecReturnDone ==
  /\ phase = "running" /\ exec.done
  /\ segments' = Append(segments, Segment(exec, open, TRUE))
  /\ LET e == Suspend(exec)
     IN  exec' = [e EXCEPT !.image = Committed(e.image, e.pager)]
  /\ phase' = "returned"
  /\ UNCHANGED <<program, threshold, open, rep>>

\* The loop ends: the last segment is closed with isTerminate set.
ExecReturn ==
  /\ phase = "running" /\ ~ Running
  /\ segments' = Append(segments, Segment(exec, open, TRUE))
  /\ LET e == Suspend(exec)
     IN  exec' = [e EXCEPT !.image = Committed(e.image, e.pager)]
  /\ phase' = "returned"
  /\ UNCHANGED <<program, threshold, open, rep>>

-----------------------------------------------------------------------------
(* preflightSegment                                                        *)

\* Page-in, physCycles = 0, and resume, which also zeroes the input words.
\* The provers take the segments in order; which of them, is up to the caller.
ReplayStart(k) ==
  /\ phase = "returned" /\ rep.status # "running" /\ k > rep.k
  /\ rep' = [status |-> "running", k |-> k,
             c |-> StoreWord(Resume(Context(segments[k].image)), INPUT_WORD, 0),
             curRead |-> 0, curWrite |-> 0, reads |-> 0]
  /\ UNCHANGED <<program, threshold, exec, segments, open, phase>>

Replaying == rep.status = "running"

MoreCycles == rep.c.physCycles < segments[rep.k].suspendCycle

\* The segment has the pages the next instruction loads or stores.
Supported(data) ==
  \A w \in {CODE_WORD, REG_WORD} \cup data : CanAccess(rep.c.image, rep.c.pager, w)

LocalWords ==
  LET i == Instruction(rep.c) IN IF i.op \in {"load", "store"} THEN {i.arg} ELSE {}

\* An answer of no bytes leaves the guest's buffer alone.
ReadWords(answer) == IF answer = <<>> THEN {} ELSE {Instruction(rep.c).arg}

ReplayLocal ==
  /\ Replaying /\ MoreCycles /\ Instruction(rep.c).op \in Local
  /\ Supported(LocalWords)
  /\ rep' = [rep EXCEPT !.c = LocalStep(@)]
  /\ UNCHANGED <<program, threshold, exec, segments, open, phase>>

\* The context's read returns entry curRead and leaves curRead as it is.
HasAnswer == rep.curRead < Len(segments[rep.k].readRecord)
Answer    == segments[rep.k].readRecord[rep.curRead + 1]

ReplayRead ==
  /\ Replaying /\ MoreCycles /\ Instruction(rep.c).op = "read"
  /\ HasAnswer /\ Supported(ReadWords(Answer))
  /\ rep' = [rep EXCEPT !.c = ReadStep(@, Answer), !.reads = @ + 1]
  /\ UNCHANGED <<program, threshold, exec, segments, open, phase>>

\* Mutant: as ReplayRead, curWrite is left where it is.
ReplayWriteStays ==
  /\ Replaying /\ MoreCycles /\ Instruction(rep.c).op = "write"
  /\ rep.curWrite < Len(segments[rep.k].writeRecord) /\ Supported({})
  /\ rep' = [rep EXCEPT
               !.c = WriteStep(@, segments[rep.k].writeRecord[rep.curWrite + 1])]
  /\ UNCHANGED <<program, threshold, exec, segments, open, phase>>

HasLength == rep.curWrite < Len(segments[rep.k].writeRecord)

ReplayWrite ==
  /\ Replaying /\ MoreCycles /\ Instruction(rep.c).op = "write"
  /\ HasLength /\ Supported({})
  /\ rep' = [rep EXCEPT
               !.c = WriteStep(@, segments[rep.k].writeRecord[rep.curWrite + 1]),
               !.curWrite = @ + 1]
  /\ UNCHANGED <<program, threshold, exec, segments, open, phase>>

\* "Invalid segment", when a record is used up; or the image has no such page.
ReplayThrow ==
  /\ Replaying /\ MoreCycles
  /\ \/ Instruction(rep.c).op \in Local /\ ~ Supported(LocalWords)
     \/ /\ Instruction(rep.c).op = "read"
        /\ ~ (HasAnswer /\ Supported(ReadWords(Answer)))
     \/ /\ Instruction(rep.c).op = "write"
        /\ ~ (HasLength /\ Supported({}))
  /\ rep' = [rep EXCEPT !.status = "threw"]
  /\ UNCHANGED <<program, threshold, exec, segments, open, phase>>

ReplaySuspend ==
  /\ Replaying /\ ~ MoreCycles
  /\ rep' = [rep EXCEPT !.status = "suspended", !.c = Suspend(@)]
  /\ UNCHANGED <<program, threshold, exec, segments, open, phase>>

ExecStep == Split \/ ExecLocal \/ ExecRead \/ ExecWrite \/ ExecReturn

Next ==
  \/ ExecStep
  \/ \E k \in DOMAIN segments : ReplayStart(k)
  \/ ReplayLocal \/ ReplayRead \/ ReplayWrite \/ ReplayThrow \/ ReplaySuspend

\* execute is a loop on one thread: while it can take a step it takes one.
Spec == Init /\ [][Next]_vars /\ WF_vars(ExecStep)

-----------------------------------------------------------------------------
(* Properties                                                              *)

\* A segment starts where its image says: the image holds the memory at the
\* segment's start for every page the segment reads or writes, the pages of
\* its own suspend included, and the pages it leaves out did not change.
SegmentImageIsStart ==
  \A k \in DOMAIN segments :
    LET s == segments[k]
    IN  \A p \in Pages : IF p \in DOMAIN s.image
                         THEN s.image[p] = s.startMemory[p]
                         ELSE s.endMemory[p] = s.startMemory[p]

\* The pc and the memory a finished replay leaves are the executor's; every
\* record is used, and every page the segment supplies is touched, which the
\* circuit asks of a page it pages in.
ReplayMatches ==
  LET s == segments[rep.k]
  IN  /\ rep.c.pc = s.endPc
      /\ DOMAIN rep.c.pager.pageCache = DOMAIN s.image
      /\ \A p \in DOMAIN s.image :
           (IF IsCached(rep.c.pager, p) THEN rep.c.pager.pageCache[p]
            ELSE s.image[p]) = s.endMemory[p]
      /\ rep.curWrite = Len(s.writeRecord)
      /\ rep.reads = Len(s.readRecord)

\* Every segment starts where its image says, and a first segment with at most
\* one host read replays exactly: from its image and its records alone the
\* preflight reaches the pc and the memory the executor suspended with, nothing
\* throws, and nothing is left over, although host buffers are not paged in and
\* host writes see zeros.  (A second read is given the record of the first,
\* preflight.cpp:214, and a later segment runs on too long, exec.cpp:97.)
SegmentsReplay ==
  /\ SegmentImageIsStart
  /\ rep.k = 1 /\ Len(segments[1].readRecord) <= 1 =>
       /\ rep.status # "threw"
       /\ rep.status = "suspended" => ReplayMatches

\* The cycles the preflight's trace has when the tables are done: the fixed
\* cost, the guest's cycles and the lists of readPaging and writePaging.
TraceCycles ==
  LET read  == DOMAIN segments[rep.k].image
      write == DirtyPages(rep.c.pager)
  IN  rep.c.physCycles
      + CYCLE_COST_EXTRA
      + CYCLE_COST_PAGE * (Cardinality(read) + Cardinality(write))
      + CYCLE_COST_MERKLE * ( Cardinality(PagingNodes(read))
                              + Cardinality(PagingNodes(write)) )

\* The most one step can add: three cycles, and three pages newly dirty.
MaxStepCost ==
  3 + 6 * CYCLE_COST_PAGE + 2 * Cardinality(Inner) * CYCLE_COST_MERKLE

\* A segment that took more than one step had room left before its last one:
\* it overshoots the threshold by less than the cost of one step.  And "Stopping
\* segment too early" is never thrown for a segment with at most one host read:
\* what execute estimated when it split is a lower bound of what the preflight
\* emits, although suspend stores two words after the estimate is taken, host
\* buffers are not paged in and later segments run on too long.
CutsInTime ==
  /\ \A k \in DOMAIN segments :
       LET s == segments[k]
       IN  \/ s.suspendCycle + s.pagingCycles < threshold + MaxStepCost
           \/ s.ranCycles <= 3
  /\ (/\ rep.status = "suspended"
      /\ ~ segments[rep.k].isTerminate
      /\ Len(segments[rep.k].readRecord) <= 1)
     => TraceCycles >= threshold

\* The loop of execute ends: every guest here either terminates or spends user
\* cycles, even when the threshold is so low that every step is a segment.
ExecuteReturns == <>(phase = "returned")

=============================================================================
