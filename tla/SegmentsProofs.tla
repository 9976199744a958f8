--------------------------- MODULE SegmentsProofs ---------------------------
(***************************************************************************)
(* Proofs about Segments, for every memory, cost, guest and threshold.     *)
(*                                                                         *)
(* A segment remembers its records and nothing of how it ran.  The proofs  *)
(* supply that: a history, the set of contexts the executor went through   *)
(* while the segment was open, each with the number of host answers used   *)
(* before it.  The preflight's replay is then a simulation: it is at one   *)
(* of the contexts of the history, or past the last.                       *)
(***************************************************************************)
EXTENDS Segments, PagingProofs, SequenceTheorems

-----------------------------------------------------------------------------
(* Constants                                                               *)

LEMMA ValuesAre ==
  /\ Cardinality(Val) \in Nat \ {0, 1}
  /\ Val = 0 .. Cardinality(Val) - 1
  /\ 0 \in Val /\ 1 \in Val
<1>1. Cardinality(Val) \in Nat
  BY SegmentsAssumption, FS_CardinalityType
<1> QED
  BY <1>1, SegmentsAssumption

\* The words that share the system's page, and the memories.
SystemWords == {SUSPEND_PC_WORD, SUSPEND_MODE_WORD, INPUT_WORD, REG_WORD}
SystemPage == PageOf(REG_WORD)
Memories == [Pages -> PageData]

LEMMA MemoriesAre ==
  ASSUME NEW mem \in Memories
  PROVE  IsImage(mem) /\ DOMAIN mem = Pages /\ WordsOf(mem) = 0 .. WORD_LIMIT - 1
<1>1. WORD_LIMIT \in Nat
  BY Geometry, SMT DEF WORD_LIMIT
<1>2. \A w \in 0 .. WORD_LIMIT - 1 : PageOf(w) \in Pages
  BY <1>1, WordInPage
<1> QED
  BY <1>2 DEF Memories, IsImage, WordsOf

LEMMA SystemWordsAre ==
  /\ WORD_LIMIT \in Nat
  /\ \A w \in SystemWords : /\ w \in Nat /\ w < WORD_LIMIT
                            /\ PageOf(w) = SystemPage
  /\ SystemPage \in Pages
<1>1. WORD_LIMIT \in Nat
  BY Geometry, SMT DEF WORD_LIMIT
<1>2. \A w \in SystemWords : w \in Nat /\ w < WORD_LIMIT
  BY <1>1, SegmentsAssumption DEF SystemWords
<1>3. \A w \in SystemWords : PageOf(w) = SystemPage
  <2> DEFINE data == {SUSPEND_PC_WORD, SUSPEND_MODE_WORD, INPUT_WORD}
  <2>1. {PageOf(w) : w \in data} = {SystemPage}
    BY SegmentsAssumption DEF SystemPage
  <2>2. \A w \in data : PageOf(w) \in {PageOf(u) : u \in data}
    OBVIOUS
  <2> QED
    BY <2>1, <2>2 DEF SystemWords, SystemPage
<1>4. SystemPage \in Pages
  BY <1>2, WordInPage DEF SystemPage, SystemWords
<1> QED
  BY <1>1, <1>2, <1>3, <1>4

-----------------------------------------------------------------------------
(* Contexts                                                                *)

Cached(c) == DOMAIN c.pager.pageCache
Dirty(c) == DirtyPages(c.pager)
Pcs == 0 .. Len(program) - 1

\* A context over an image it may know only a part of.
IsContext(c) ==
  /\ c = [image |-> c.image, pager |-> c.pager, pc |-> c.pc, done |-> c.done,
          userCycles |-> c.userCycles, physCycles |-> c.physCycles]
  /\ IsImage(c.image) /\ PagerInv(c.image, c.pager)
  /\ c.pc \in Pcs
  /\ c.physCycles \in Nat

LEMMA EvaluatedIs == ASSUME NEW p PROVE Evaluated(p) = p
BY DEF Evaluated

LEMMA WordIsSeen ==
  ASSUME NEW c, NEW w
  PROVE  Word(c, w) = Seen(c.image, c.pager, w)
BY DEF Word, PagerPeek, Seen

LEMMA WordTyped ==
  ASSUME NEW c, IsContext(c), NEW w \in WordsOf(c.image)
  PROVE  Word(c, w) \in Val
BY WordIsSeen, SeenTyped DEF IsContext, PagerInv

\* What a load and a store do to a context.
LEMMA LoadWordIs ==
  ASSUME NEW c, IsContext(c), NEW w \in WordsOf(c.image)
  PROVE  LET d == LoadWord(c, w)
         IN  /\ IsContext(d)
             /\ d.image = c.image /\ d.pc = c.pc /\ d.physCycles = c.physCycles
             /\ d.pager = PagerLoad(c.image, c.pager, w)
             /\ Cached(d) = Cached(c) \cup {PageOf(w)}
             /\ Dirty(d) = Dirty(c)
             /\ \A u \in WordsOf(c.image) : Word(d, u) = Word(c, u)
<1> DEFINE new == PagerLoad(c.image, c.pager, w)
           d   == LoadWord(c, w)
<1>1. d = [c EXCEPT !.pager = new]
  BY EvaluatedIs DEF LoadWord
<1>2. /\ d.image = c.image /\ d.pc = c.pc /\ d.physCycles = c.physCycles
      /\ d.pager = new /\ d.done = c.done /\ d.userCycles = c.userCycles
      /\ d = [image |-> d.image, pager |-> d.pager, pc |-> d.pc, done |-> d.done,
              userCycles |-> d.userCycles, physCycles |-> d.physCycles]
  BY <1>1 DEF IsContext
<1>3. /\ PagerInv(c.image, new)
      /\ \A u \in WordsOf(c.image) : Seen(c.image, new, u) = Seen(c.image, c.pager, u)
  BY PagerLoadInv DEF IsContext
<1>4. /\ DOMAIN new.pageCache = DOMAIN c.pager.pageCache \cup {PageOf(w)}
      /\ DirtyPages(new) = DirtyPages(c.pager)
  BY LoadFootprint DEF IsContext
<1> HIDE DEF d, new
<1>5. \A u \in WordsOf(c.image) : Word(d, u) = Word(c, u)
  BY <1>2, <1>3, WordIsSeen
<1>6. IsContext(d)
  BY <1>2, <1>3 DEF IsContext
<1> QED
  BY <1>2, <1>4, <1>5, <1>6 DEF d, new, Cached, Dirty

LEMMA StoreWordIs ==
  ASSUME NEW c, IsContext(c), NEW w \in WordsOf(c.image), NEW v \in Val
  PROVE  LET d == StoreWord(c, w, v)
         IN  /\ IsContext(d)
             /\ d.image = c.image /\ d.pc = c.pc /\ d.physCycles = c.physCycles
             /\ Cached(d) = Cached(c) \cup {PageOf(w)}
             /\ Dirty(d) = Dirty(c) \cup {PageOf(w)}
             /\ \A u \in WordsOf(c.image) :
                  Word(d, u) = IF u = w THEN v ELSE Word(c, u)
<1> DEFINE new == PagerStore(c.image, c.pager, w, v)
           d   == StoreWord(c, w, v)
<1>1. d = [c EXCEPT !.pager = new]
  BY EvaluatedIs DEF StoreWord
<1>2. /\ d.image = c.image /\ d.pc = c.pc /\ d.physCycles = c.physCycles
      /\ d.pager = new /\ d.done = c.done /\ d.userCycles = c.userCycles
      /\ d = [image |-> d.image, pager |-> d.pager, pc |-> d.pc, done |-> d.done,
              userCycles |-> d.userCycles, physCycles |-> d.physCycles]
  BY <1>1 DEF IsContext
<1>3. /\ PagerInv(c.image, new)
      /\ \A u \in WordsOf(c.image) :
           Seen(c.image, new, u) = IF u = w THEN v ELSE Seen(c.image, c.pager, u)
  BY PagerStoreInv DEF IsContext
<1>4. /\ DOMAIN new.pageCache = DOMAIN c.pager.pageCache \cup {PageOf(w)}
      /\ DirtyPages(new) = DirtyPages(c.pager) \cup {PageOf(w)}
  BY StoreFootprint DEF IsContext
<1> HIDE DEF d, new
<1>5. \A u \in WordsOf(c.image) : Word(d, u) = IF u = w THEN v ELSE Word(c, u)
  BY <1>2, <1>3, WordIsSeen
<1>6. IsContext(d)
  BY <1>2, <1>3 DEF IsContext
<1> QED
  BY <1>2, <1>4, <1>5, <1>6 DEF d, new, Cached, Dirty

\* A context whose counters and pc are set, the rest as in c.
Set(c, d, pc, physCycles) ==
  /\ d = [image |-> d.image, pager |-> d.pager, pc |-> d.pc, done |-> d.done,
          userCycles |-> d.userCycles, physCycles |-> d.physCycles]
  /\ d.image = c.image /\ d.pager = c.pager /\ d.pc = pc /\ d.physCycles = physCycles

LEMMA SetIs ==
  ASSUME NEW c, IsContext(c), NEW d, NEW pc \in Pcs, NEW n \in Nat, Set(c, d, pc, n)
  PROVE  /\ IsContext(d)
         /\ d.image = c.image /\ d.pc = pc /\ d.physCycles = n
         /\ Cached(d) = Cached(c) /\ Dirty(d) = Dirty(c)
         /\ \A u : Word(d, u) = Word(c, u)
BY DEF IsContext, Set, Cached, Dirty, Word

-----------------------------------------------------------------------------
(* Instructions                                                            *)

Operations == Local \cup {"read", "write"}
Answers == {<<>>} \cup {<<v>> : v \in HostData}

LEMMA ProgramIs ==
  ASSUME program \in Programs
  PROVE  /\ Len(program) \in Nat \ {0} /\ DOMAIN program = 1 .. Len(program)
         /\ Pcs \subseteq Val /\ 0 \in Pcs
         /\ \A n \in Pcs : /\ program[n + 1].op \in Operations
                           /\ program[n + 1].arg \in Nat
                           /\ program[n + 1].op \notin {"jump", "halt"} => n + 1 \in Pcs
<1>1. /\ program \in Seq([op : Local \cup {"read", "write"}, arg : Nat])
      /\ Len(program) \in 1 .. Cardinality(Val)
      /\ program[Len(program)].op \in {"jump", "halt"}
  BY SegmentsAssumption
<1>2. Len(program) \in Nat \ {0} /\ DOMAIN program = 1 .. Len(program)
  BY <1>1, ValuesAre
<1>3. Pcs \subseteq Val /\ 0 \in Pcs
  BY <1>1, <1>2, ValuesAre DEF Pcs
<1>4. ASSUME NEW n \in Pcs
      PROVE  /\ program[n + 1].op \in Operations /\ program[n + 1].arg \in Nat
             /\ program[n + 1].op \notin {"jump", "halt"} => n + 1 \in Pcs
  <2>1. n + 1 \in 1 .. Len(program) /\ (n + 1 = Len(program) \/ n + 1 \in Pcs)
    <3> DEFINE L == Len(program)
    <3>1. L \in Nat \ {0} /\ n \in 0 .. L - 1
      BY <1>2 DEF Pcs
    <3> HIDE DEF L
    <3>2. n + 1 \in 1 .. L /\ (n + 1 = L \/ n + 1 \in 0 .. L - 1)
      BY <3>1
    <3> QED
      BY <3>2 DEF L, Pcs
  <2>2. program[n + 1] \in [op : Local \cup {"read", "write"}, arg : Nat]
    BY <1>1, <1>2, <2>1, ElementOfSeq
  <2> QED
    BY <1>1, <2>1, <2>2 DEF Operations
<1> QED
  BY <1>2, <1>3, <1>4

LEMMA InstructionIs ==
  ASSUME program \in Programs, NEW c, IsContext(c)
  PROVE  LET i == Instruction(c)
         IN  /\ i.op \in Operations /\ i.arg \in Nat
             /\ i.op \in {"load", "store", "read"} => i.arg \in 0 .. WORD_LIMIT - 1
             /\ i.op \in {"store", "read"} => i.arg # INPUT_WORD
             /\ i.op = "jump" => i.arg \in Pcs
             /\ i.op \notin {"jump", "halt"} => c.pc + 1 \in Pcs
<1>1. c.pc \in Pcs /\ c.pc + 1 \in DOMAIN program
  BY ProgramIs DEF IsContext, Pcs
<1>2. /\ Instruction(c).op \in Operations /\ Instruction(c).arg \in Nat
      /\ Instruction(c).op \notin {"jump", "halt"} => c.pc + 1 \in Pcs
  BY <1>1, ProgramIs DEF Instruction
<1>3. LET i == program[c.pc + 1]
      IN  /\ i.op \in {"load", "store", "read"} => i.arg < WORD_LIMIT
          /\ i.op \in {"store", "read"} => i.arg # INPUT_WORD
          /\ i.op = "jump" => i.arg < Len(program)
  BY <1>1, SegmentsAssumption
<1>4. WORD_LIMIT \in Nat /\ Len(program) \in Nat
  BY Geometry, ProgramIs, SMT DEF WORD_LIMIT
<1> QED
  BY <1>2, <1>3, <1>4 DEF Instruction, Pcs

\* The words an instruction accesses when the host answers it with data.
DataWords(c, data) ==
  IF \/ Instruction(c).op \in {"load", "store"}
     \/ Instruction(c).op = "read" /\ data # <<>>
  THEN {Instruction(c).arg} ELSE {}
StepWords(c, data) == {CODE_WORD, REG_WORD} \cup DataWords(c, data)
PagesOf(words) == {PageOf(w) : w \in words}

\* A step, with what the host answers where the instruction asks it.
AnswersTo(c) == CASE Instruction(c).op = "read"  -> Answers
                  [] Instruction(c).op = "write" -> {0, 1}
                  [] OTHER                       -> {0}

Stepped(c, data) == CASE Instruction(c).op = "read"  -> ReadStep(c, data)
                      [] Instruction(c).op = "write" -> WriteStep(c, data)
                      [] OTHER                       -> LocalStep(c)

\* A step is its accesses, then a pc, then its cycles.
Accessed(c, data) ==
  LET i == Instruction(c)
      f == Fetched(c)
      reg == Word(f, REG_WORD)
  IN  CASE i.op = "add"   -> StoreWord(f, REG_WORD, (reg + 1) % Cardinality(Register))
        [] i.op = "load"  -> LET l == LoadWord(f, i.arg)
                             IN  StoreWord(l, REG_WORD, Word(l, i.arg))
        [] i.op = "store" -> StoreWord(f, i.arg, reg)
        [] i.op = "jump"  -> StoreWord(f, REG_WORD, reg)
        [] i.op = "halt"  -> f
        [] i.op = "read"  -> LET r == StoreWord(f, REG_WORD, Len(data))
                             IN  IF data = <<>> THEN r ELSE StoreWord(r, i.arg, data[1])
        [] i.op = "write" -> StoreWord(f, REG_WORD, data)

NextPc(c) == CASE Instruction(c).op = "jump" -> Instruction(c).arg
               [] Instruction(c).op = "halt" -> c.pc
               [] OTHER                      -> c.pc + 1

Spent(c, data) == CASE Instruction(c).op \in {"halt", "write"} -> 2
                    [] Instruction(c).op = "read"              -> IF data = <<>> THEN 2 ELSE 3
                    [] OTHER                                   -> 1

\* From c, accesses to words lead to d.
Reaches(c, d, words) ==
  /\ IsContext(d)
  /\ d.image = c.image /\ d.pc = c.pc /\ d.physCycles = c.physCycles
  /\ Cached(d) = Cached(c) \cup PagesOf(words)
  /\ Dirty(c) \subseteq Dirty(d) /\ Dirty(d) \subseteq Dirty(c) \cup PagesOf(words)
  /\ INPUT_WORD \in WordsOf(c.image) => Word(d, INPUT_WORD) = Word(c, INPUT_WORD)

LEMMA ReachesItself ==
  ASSUME NEW c, IsContext(c)
  PROVE  Reaches(c, c, {})
BY DEF Reaches, PagesOf

LEMMA ReachesLoad ==
  ASSUME NEW c, NEW d, NEW T, Reaches(c, d, T), NEW w \in WordsOf(c.image)
  PROVE  Reaches(c, LoadWord(d, w), T \cup {w})
<1> DEFINE e == LoadWord(d, w)
<1>1. /\ IsContext(e)
      /\ e.image = d.image /\ e.pc = d.pc /\ e.physCycles = d.physCycles
      /\ Cached(e) = Cached(d) \cup {PageOf(w)}
      /\ Dirty(e) = Dirty(d)
      /\ \A u \in WordsOf(d.image) : Word(e, u) = Word(d, u)
  BY LoadWordIs DEF Reaches
<1>2. PagesOf(T \cup {w}) = PagesOf(T) \cup {PageOf(w)}
  BY DEF PagesOf
<1> HIDE DEF e
<1> QED
  BY <1>1, <1>2 DEF Reaches, e

LEMMA ReachesStore ==
  ASSUME NEW c, NEW d, NEW T, Reaches(c, d, T), NEW w \in WordsOf(c.image),
         NEW v \in Val, w # INPUT_WORD
  PROVE  Reaches(c, StoreWord(d, w, v), T \cup {w})
<1> DEFINE e == StoreWord(d, w, v)
<1>1. /\ IsContext(e)
      /\ e.image = d.image /\ e.pc = d.pc /\ e.physCycles = d.physCycles
      /\ Cached(e) = Cached(d) \cup {PageOf(w)}
      /\ Dirty(e) = Dirty(d) \cup {PageOf(w)}
      /\ \A u \in WordsOf(d.image) : Word(e, u) = IF u = w THEN v ELSE Word(d, u)
  BY StoreWordIs DEF Reaches
<1>2. PagesOf(T \cup {w}) = PagesOf(T) \cup {PageOf(w)}
  BY DEF PagesOf
<1> HIDE DEF e
<1> QED
  BY <1>1, <1>2 DEF Reaches, e

LEMMA FetchedReaches ==
  ASSUME NEW c, IsContext(c), CODE_WORD \in WordsOf(c.image), REG_WORD \in WordsOf(c.image)
  PROVE  Reaches(c, Fetched(c), {CODE_WORD, REG_WORD})
<1>1. Reaches(c, LoadWord(c, CODE_WORD), {} \cup {CODE_WORD})
  BY ReachesItself, ReachesLoad
<1>2. Reaches(c, LoadWord(LoadWord(c, CODE_WORD), REG_WORD), ({} \cup {CODE_WORD}) \cup {REG_WORD})
  BY <1>1, ReachesLoad
<1>3. ({} \cup {CODE_WORD}) \cup {REG_WORD} = {CODE_WORD, REG_WORD}
  OBVIOUS
<1> QED
  BY <1>2, <1>3 DEF Fetched

LEMMA AnswerLength ==
  ASSUME NEW data \in Answers
  PROVE  Len(data) \in Val
<1>1. CASE data = <<>>
  BY <1>1, ValuesAre
<1>2. CASE data # <<>>
  <2>1. PICK v \in HostData : data = <<v>>
    BY <1>2 DEF Answers
  <2>2. Len(data) = 1
    BY <2>1
  <2> QED
    BY <2>2, ValuesAre
<1> QED
  BY <1>1, <1>2

LEMMA AccessedReaches ==
  ASSUME program \in Programs, NEW c, IsContext(c), NEW data \in AnswersTo(c),
         StepWords(c, data) \subseteq WordsOf(c.image)
  PROVE  Reaches(c, Accessed(c, data), StepWords(c, data))
<1> DEFINE i == Instruction(c)
           f == Fetched(c)
           reg == Word(f, REG_WORD)
           T == {CODE_WORD, REG_WORD}
           D == Accessed(c, data)
<1>1. /\ i.op \in Operations
      /\ i.op \in {"store", "read"} => i.arg # INPUT_WORD
  BY InstructionIs
<1>2. /\ CODE_WORD \in WordsOf(c.image) /\ REG_WORD \in WordsOf(c.image)
      /\ DataWords(c, data) \subseteq WordsOf(c.image)
      /\ REG_WORD # INPUT_WORD
  BY SegmentsAssumption DEF StepWords
<1>3. Reaches(c, f, T) /\ T \cup {REG_WORD} = T
  BY <1>2, FetchedReaches
<1>4. IsContext(f) /\ f.image = c.image /\ reg \in Val
  BY <1>2, <1>3, WordTyped DEF Reaches
<1>5. StepWords(c, data) = T \cup DataWords(c, data)
  BY DEF StepWords
<1> HIDE DEF f, reg
<1>6. ASSUME NEW v \in Val PROVE Reaches(c, StoreWord(f, REG_WORD, v), T)
  BY <1>2, <1>3, <1>6, ReachesStore
<1>7. CASE i.op = "add"
  <2>1. D = StoreWord(f, REG_WORD, (reg + 1) % Cardinality(Register)) /\ DataWords(c, data) = {}
    BY <1>7 DEF Accessed, f, reg, DataWords
  <2>2. (reg + 1) % Cardinality(Register) \in Val
    <3> DEFINE n == Cardinality(Val)
    <3>1. n \in Nat \ {0} /\ reg \in 0 .. n - 1 /\ Val = 0 .. n - 1
      BY <1>4, ValuesAre
    <3> HIDE DEF n
    <3>2. (reg + 1) % n \in 0 .. n - 1
      BY <3>1, SMT
    <3> QED
      BY <3>1, <3>2 DEF Register, n
  <2> QED
    BY <1>5, <1>6, <2>1, <2>2
<1>8. CASE i.op = "load"
  <2> DEFINE l == LoadWord(f, i.arg)
  <2>1. D = StoreWord(l, REG_WORD, Word(l, i.arg)) /\ DataWords(c, data) = {i.arg}
    BY <1>8 DEF Accessed, f, DataWords
  <2>2. Reaches(c, l, T \cup {i.arg}) /\ i.arg \in WordsOf(c.image)
    BY <1>2, <1>3, <2>1, ReachesLoad
  <2>3. Word(l, i.arg) \in Val
    BY <2>2, WordTyped DEF Reaches
  <2> HIDE DEF l
  <2>4. Reaches(c, D, (T \cup {i.arg}) \cup {REG_WORD})
    BY <1>2, <2>1, <2>2, <2>3, ReachesStore
  <2>5. (T \cup {i.arg}) \cup {REG_WORD} = T \cup {i.arg}
    OBVIOUS
  <2> QED
    BY <1>5, <2>1, <2>4, <2>5
<1>9. CASE i.op = "store"
  <2>1. D = StoreWord(f, i.arg, reg) /\ DataWords(c, data) = {i.arg}
    BY <1>9 DEF Accessed, f, reg, DataWords
  <2>2. i.arg \in WordsOf(c.image) /\ i.arg # INPUT_WORD
    BY <1>1, <1>2, <1>9, <2>1
  <2> QED
    BY <1>3, <1>4, <1>5, <2>1, <2>2, ReachesStore
<1>10. CASE i.op = "jump"
  <2>1. D = StoreWord(f, REG_WORD, reg) /\ DataWords(c, data) = {}
    BY <1>10 DEF Accessed, f, reg, DataWords
  <2> QED
    BY <1>4, <1>5, <1>6, <2>1
<1>11. CASE i.op = "halt"
  <2>1. D = f /\ DataWords(c, data) = {}
    BY <1>11 DEF Accessed, f, DataWords
  <2> QED
    BY <1>3, <1>5, <2>1
<1>12. CASE i.op = "read"
  <2> DEFINE r == StoreWord(f, REG_WORD, Len(data))
  <2>1. data \in Answers
    BY <1>12 DEF AnswersTo
  <2>2. Len(data) \in Val
    BY <2>1, AnswerLength
  <2>3. Reaches(c, r, T)
    BY <1>6, <2>2
  <2> HIDE DEF r
  <2>4. CASE data = <<>>
    <3>1. D = r /\ DataWords(c, data) = {}
      BY <1>12, <2>4 DEF Accessed, f, r, DataWords
    <3> QED
      BY <1>5, <2>3, <3>1
  <2>5. CASE data # <<>>
    <3>1. D = StoreWord(r, i.arg, data[1]) /\ DataWords(c, data) = {i.arg}
      BY <1>12, <2>5 DEF Accessed, f, r, DataWords
    <3>2. i.arg \in WordsOf(c.image) /\ i.arg # INPUT_WORD
      BY <1>1, <1>2, <1>12, <3>1
    <3>3. data[1] \in Val
      BY <2>1, <2>5, SegmentsAssumption DEF Answers
    <3> QED
      BY <1>5, <2>3, <3>1, <3>2, <3>3, ReachesStore
  <2> QED
    BY <2>4, <2>5
<1>13. CASE i.op = "write"
  <2>1. D = StoreWord(f, REG_WORD, data) /\ DataWords(c, data) = {}
    BY <1>13 DEF Accessed, f, DataWords
  <2>2. data \in Val
    BY <1>13, ValuesAre DEF AnswersTo
  <2> QED
    BY <1>5, <1>6, <2>1, <2>2
<1> QED
  BY <1>1, <1>7, <1>8, <1>9, <1>10, <1>11, <1>12, <1>13 DEF Operations, Local

\* The last assignments of a step, on a context spelt out.
Spelt(im, pg, pc, done, user, phys) ==
  [image |-> im, pager |-> pg, pc |-> pc, done |-> done,
   userCycles |-> user, physCycles |-> phys]

LEMMA AdvancedIs ==
  \A im, pg, pc, done, user, phys :
    Advanced(Spelt(im, pg, pc, done, user, phys)) = Spelt(im, pg, pc + 1, done, user, phys)
BY DEF Advanced, Spelt

LEMMA JumpedIs ==
  \A im, pg, pc, done, user, phys, new :
    [Spelt(im, pg, pc, done, user, phys) EXCEPT !.pc = new]
      = Spelt(im, pg, new, done, user, phys)
BY DEF Spelt

LEMMA CountedIs ==
  \A im, pg, pc, done, user, phys :
    Counted(Spelt(im, pg, pc, done, user, phys))
      = Spelt(im, pg, pc, done, user + 1, phys + 1)
<1> SUFFICES ASSUME NEW im, NEW pg, NEW pc, NEW done, NEW user, NEW phys
             PROVE  Counted(Spelt(im, pg, pc, done, user, phys))
                      = Spelt(im, pg, pc, done, user + 1, phys + 1)
  OBVIOUS
<1> DEFINE D == Spelt(im, pg, pc, done, user, phys)
<1>1. [D EXCEPT !.userCycles = @ + 1] = Spelt(im, pg, pc, done, user + 1, phys)
  BY DEF Spelt
<1>2. Counted(D) = [[D EXCEPT !.userCycles = @ + 1] EXCEPT !.physCycles = @ + 1]
  BY DEF Counted, Spelt
<1>3. [Spelt(im, pg, pc, done, user + 1, phys) EXCEPT !.physCycles = @ + 1]
        = Spelt(im, pg, pc, done, user + 1, phys + 1)
  BY DEF Spelt
<1> QED
  BY <1>1, <1>2, <1>3

LEMMA EcallCyclesAre ==
  \A im, pg, pc, done, user, phys, n :
    EcallCycles(Spelt(im, pg, pc, done, user, phys), n)
      = Spelt(im, pg, pc, done, user, phys + n)
BY DEF EcallCycles, Spelt

LEMMA CountersAre ==
  ASSUME NEW im, NEW pg, NEW pc, NEW done, NEW user, NEW phys, NEW target, NEW n, NEW D,
         D = Spelt(im, pg, pc, done, user, phys)
  PROVE  /\ Set(D, Counted(Advanced(D)), pc + 1, phys + 1)
         /\ Set(D, Counted([D EXCEPT !.pc = target]), target, phys + 1)
         /\ Set(D, EcallCycles(Advanced(D), n), pc + 1, phys + n)
         /\ Set(D, [EcallCycles(D, n) EXCEPT !.done = TRUE], pc, phys + n)
<1>1. \A newPc, newDone, newUser, newPhys :
        Set(D, Spelt(im, pg, newPc, newDone, newUser, newPhys), newPc, newPhys)
  BY DEF Set, Spelt
<1>2. Advanced(D) = Spelt(im, pg, pc + 1, done, user, phys)
  BY AdvancedIs
<1>3. [D EXCEPT !.pc = target] = Spelt(im, pg, target, done, user, phys)
  BY JumpedIs
<1>4. Counted(Advanced(D)) = Spelt(im, pg, pc + 1, done, user + 1, phys + 1)
  BY <1>2, CountedIs
<1>5. Counted([D EXCEPT !.pc = target]) = Spelt(im, pg, target, done, user + 1, phys + 1)
  BY <1>3, CountedIs
<1>6. EcallCycles(Advanced(D), n) = Spelt(im, pg, pc + 1, done, user, phys + n)
  BY <1>2, EcallCyclesAre
<1>7. EcallCycles(D, n) = Spelt(im, pg, pc, done, user, phys + n)
  BY EcallCyclesAre
<1>8. \A b : Set(D, [EcallCycles(D, n) EXCEPT !.done = b], pc, phys + n)
  BY <1>1, <1>7 DEF Spelt
<1>9. Set(D, [EcallCycles(D, n) EXCEPT !.done = TRUE], pc, phys + n)
  BY <1>8, Zenon
<1> QED
  BY <1>1, <1>4, <1>5, <1>6, <1>9

\* A step sets a pc and counts its cycles after its accesses.
LEMMA SteppedIs ==
  ASSUME program \in Programs, NEW c, IsContext(c), NEW data \in AnswersTo(c),
         IsContext(Accessed(c, data)), Accessed(c, data).pc = c.pc,
         Accessed(c, data).physCycles = c.physCycles
  PROVE  Set(Accessed(c, data), Stepped(c, data), NextPc(c), c.physCycles + Spent(c, data))
<1> DEFINE i == Instruction(c)
           D == Accessed(c, data)
           d == Stepped(c, data)
           n == Spent(c, data)
<1>1. i.op \in Operations
  BY InstructionIs
<1>2. D = Spelt(D.image, D.pager, c.pc, D.done, D.userCycles, c.physCycles)
  BY DEF IsContext, Spelt
<1>3. CASE i.op \in {"add", "load", "store"}
  <2>1. d = Counted(Advanced(D))
    BY <1>3 DEF Stepped, LocalStep, Accessed
  <2>2. NextPc(c) = c.pc + 1 /\ n = 1
    BY <1>3 DEF NextPc, Spent
  <2> HIDE DEF D, d, n
  <2>3. Set(D, d, NextPc(c), c.physCycles + n)
    BY <1>2, <2>1, <2>2, CountersAre
  <2> QED
    BY <2>3 DEF D, d, n
<1>4. CASE i.op = "jump"
  <2>1. d = Counted([D EXCEPT !.pc = i.arg])
    BY <1>4 DEF Stepped, LocalStep, Accessed
  <2>2. NextPc(c) = i.arg /\ n = 1
    BY <1>4 DEF NextPc, Spent
  <2> HIDE DEF D, d, n
  <2>3. Set(D, d, NextPc(c), c.physCycles + n)
    BY <1>2, <2>1, <2>2, CountersAre
  <2> QED
    BY <2>3 DEF D, d, n
<1>5. CASE i.op = "halt"
  <2>1. d = [EcallCycles(D, n) EXCEPT !.done = TRUE]
    BY <1>5 DEF Stepped, LocalStep, Accessed, Spent
  <2>2. NextPc(c) = c.pc
    BY <1>5 DEF NextPc
  <2> HIDE DEF D, d, n
  <2>3. Set(D, d, NextPc(c), c.physCycles + n)
    BY <1>2, <2>1, <2>2, CountersAre
  <2> QED
    BY <2>3 DEF D, d, n
<1>6. CASE i.op \in {"read", "write"}
  <2>1. d = EcallCycles(Advanced(D), n)
    BY <1>6 DEF Stepped, ReadStep, WriteStep, Accessed, Spent
  <2>2. NextPc(c) = c.pc + 1
    BY <1>6 DEF NextPc
  <2> HIDE DEF D, d, n
  <2>3. Set(D, d, NextPc(c), c.physCycles + n)
    BY <1>2, <2>1, <2>2, CountersAre
  <2> QED
    BY <2>3 DEF D, d, n
<1> QED
  BY <1>1, <1>3, <1>4, <1>5, <1>6 DEF Operations, Local

LEMMA SpentIs ==
  ASSUME program \in Programs, NEW c, IsContext(c), NEW data
  PROVE  Spent(c, data) \in 1 .. 3 /\ NextPc(c) \in Pcs
<1>1. NextPc(c) \in Pcs
  BY InstructionIs DEF NextPc, IsContext
<1> QED
  BY <1>1 DEF Spent

\* What a step does to a context.
LEMMA StepIs ==
  ASSUME program \in Programs, NEW c, IsContext(c), NEW data \in AnswersTo(c),
         StepWords(c, data) \subseteq WordsOf(c.image)
  PROVE  LET d == Stepped(c, data)
         IN  /\ IsContext(d) /\ d.image = c.image /\ d.pc = NextPc(c)
             /\ d.physCycles = c.physCycles + Spent(c, data)
             /\ Cached(d) = Cached(c) \cup PagesOf(StepWords(c, data))
             /\ Dirty(c) \subseteq Dirty(d)
             /\ Dirty(d) \subseteq Dirty(c) \cup PagesOf(StepWords(c, data))
             /\ INPUT_WORD \in WordsOf(c.image) => Word(d, INPUT_WORD) = Word(c, INPUT_WORD)
<1> DEFINE D == Accessed(c, data)
           d == Stepped(c, data)
           n == c.physCycles + Spent(c, data)
<1>1. Reaches(c, D, StepWords(c, data))
  BY AccessedReaches
<1>2. Set(D, d, NextPc(c), n)
  BY <1>1, SteppedIs DEF Reaches
<1>3. n \in Nat /\ NextPc(c) \in Pcs
  BY SpentIs DEF IsContext
<1> HIDE DEF D, d, n
<1>4. /\ IsContext(d)
      /\ d.image = D.image /\ d.pc = NextPc(c) /\ d.physCycles = n
      /\ Cached(d) = Cached(D) /\ Dirty(d) = Dirty(D)
      /\ \A u : Word(d, u) = Word(D, u)
  BY <1>1, <1>2, <1>3, SetIs DEF Reaches
<1> QED
  BY <1>1, <1>4 DEF Reaches, d, n

-----------------------------------------------------------------------------
(* Simulation                                                              *)

\* The replay's context r is the executor's context e over a part of the
\* image: the same pages cached, the same words wherever r has a page, and at
\* least the pages of e dirty (zeroing the input words may dirty one more).
Sim(e, r) ==
  /\ IsContext(e) /\ IsContext(r)
  /\ r.pc = e.pc
  /\ DOMAIN r.image \subseteq DOMAIN e.image
  /\ Cached(r) = Cached(e)
  /\ Dirty(e) \subseteq Dirty(r)
  /\ \A w \in WordsOf(r.image) : Word(r, w) = Word(e, w)

LEMMA WordsGrow ==
  ASSUME NEW small, NEW large, DOMAIN small \subseteq DOMAIN large
  PROVE  WordsOf(small) \subseteq WordsOf(large)
BY DEF WordsOf

LEMMA SimLoad ==
  ASSUME NEW e, NEW r, Sim(e, r), NEW w \in WordsOf(r.image)
  PROVE  Sim(LoadWord(e, w), LoadWord(r, w))
<1> DEFINE E == LoadWord(e, w)
           R == LoadWord(r, w)
<1>1. WordsOf(r.image) \subseteq WordsOf(e.image)
  BY WordsGrow DEF Sim
<1>2. /\ IsContext(R) /\ R.image = r.image /\ R.pc = r.pc
      /\ Cached(R) = Cached(r) \cup {PageOf(w)} /\ Dirty(R) = Dirty(r)
      /\ \A u \in WordsOf(r.image) : Word(R, u) = Word(r, u)
  BY LoadWordIs DEF Sim
<1>3. /\ IsContext(E) /\ E.image = e.image /\ E.pc = e.pc
      /\ Cached(E) = Cached(e) \cup {PageOf(w)} /\ Dirty(E) = Dirty(e)
      /\ \A u \in WordsOf(e.image) : Word(E, u) = Word(e, u)
  BY <1>1, LoadWordIs DEF Sim
<1> HIDE DEF E, R
<1>4. Sim(E, R)
  BY <1>1, <1>2, <1>3 DEF Sim
<1> QED
  BY <1>4 DEF E, R

LEMMA SimStore ==
  ASSUME NEW e, NEW r, Sim(e, r), NEW w \in WordsOf(r.image), NEW v \in Val
  PROVE  Sim(StoreWord(e, w, v), StoreWord(r, w, v))
<1> DEFINE E == StoreWord(e, w, v)
           R == StoreWord(r, w, v)
<1>1. WordsOf(r.image) \subseteq WordsOf(e.image)
  BY WordsGrow DEF Sim
<1>2. /\ IsContext(R) /\ R.image = r.image /\ R.pc = r.pc
      /\ Cached(R) = Cached(r) \cup {PageOf(w)} /\ Dirty(R) = Dirty(r) \cup {PageOf(w)}
      /\ \A u \in WordsOf(r.image) : Word(R, u) = IF u = w THEN v ELSE Word(r, u)
  BY StoreWordIs DEF Sim
<1>3. /\ IsContext(E) /\ E.image = e.image /\ E.pc = e.pc
      /\ Cached(E) = Cached(e) \cup {PageOf(w)} /\ Dirty(E) = Dirty(e) \cup {PageOf(w)}
      /\ \A u \in WordsOf(e.image) : Word(E, u) = IF u = w THEN v ELSE Word(e, u)
  BY <1>1, StoreWordIs DEF Sim
<1> HIDE DEF E, R
<1>4. Sim(E, R)
  BY <1>1, <1>2, <1>3 DEF Sim
<1> QED
  BY <1>4 DEF E, R

\* Storing in r alone what the word holds already, on a page both have cached.
LEMMA SimStoreSame ==
  ASSUME NEW e, NEW r, Sim(e, r), NEW w \in WordsOf(r.image),
         PageOf(w) \in Cached(r), NEW v \in Val, Word(r, w) = v
  PROVE  Sim(e, StoreWord(r, w, v))
<1> DEFINE R == StoreWord(r, w, v)
<1>1. /\ IsContext(R) /\ R.image = r.image /\ R.pc = r.pc
      /\ Cached(R) = Cached(r) \cup {PageOf(w)} /\ Dirty(R) = Dirty(r) \cup {PageOf(w)}
      /\ \A u \in WordsOf(r.image) : Word(R, u) = IF u = w THEN v ELSE Word(r, u)
  BY StoreWordIs DEF Sim
<1> HIDE DEF R
<1>2. Sim(e, R)
  BY <1>1 DEF Sim
<1> QED
  BY <1>2 DEF R

LEMMA SimWord ==
  ASSUME NEW e, NEW r, Sim(e, r), NEW w \in WordsOf(r.image)
  PROVE  Word(r, w) = Word(e, w) /\ Word(e, w) \in Val
BY WordTyped DEF Sim

\* The same accesses with the same answer keep the contexts together.
LEMMA SimAccessed ==
  ASSUME program \in Programs, NEW e, NEW r, Sim(e, r), NEW data \in AnswersTo(e),
         StepWords(e, data) \subseteq WordsOf(r.image)
  PROVE  Sim(Accessed(e, data), Accessed(r, data))
<1> DEFINE i  == Instruction(e)
           fe == Fetched(e)
           fr == Fetched(r)
           reg == Word(fe, REG_WORD)
           E  == Accessed(e, data)
           R  == Accessed(r, data)
<1>1. i.op \in Operations /\ Instruction(r) = i
  BY InstructionIs DEF Sim, Instruction
<1>2. /\ CODE_WORD \in WordsOf(r.image) /\ REG_WORD \in WordsOf(r.image)
      /\ DataWords(e, data) \subseteq WordsOf(r.image)
  BY DEF StepWords
<1>3. Reaches(r, fr, {CODE_WORD, REG_WORD})
  BY <1>2, FetchedReaches DEF Sim
<1>4. fr.image = r.image
  BY <1>3 DEF Reaches
<1>5. Sim(fe, fr)
  <2>1. Sim(LoadWord(e, CODE_WORD), LoadWord(r, CODE_WORD))
    BY <1>2, SimLoad
  <2>2. LoadWord(r, CODE_WORD).image = r.image
    BY <1>2, LoadWordIs DEF Sim
  <2> QED
    BY <1>2, <2>1, <2>2, SimLoad DEF Fetched
<1>6. Word(fr, REG_WORD) = reg /\ reg \in Val
  BY <1>2, <1>4, <1>5, SimWord
<1> HIDE DEF fe, fr, reg
<1>7. \A v \in Val : Sim(StoreWord(fe, REG_WORD, v), StoreWord(fr, REG_WORD, v))
  BY <1>2, <1>4, <1>5, SimStore
<1>8. CASE i.op = "add"
  <2>1. /\ E = StoreWord(fe, REG_WORD, (reg + 1) % Cardinality(Register))
        /\ R = StoreWord(fr, REG_WORD, (reg + 1) % Cardinality(Register))
    BY <1>1, <1>6, <1>8 DEF Accessed, fe, fr, reg
  <2>2. (reg + 1) % Cardinality(Register) \in Val
    <3> DEFINE n == Cardinality(Val)
    <3>1. n \in Nat \ {0} /\ reg \in 0 .. n - 1 /\ Val = 0 .. n - 1
      BY <1>6, ValuesAre
    <3> HIDE DEF n
    <3>2. (reg + 1) % n \in 0 .. n - 1
      BY <3>1, SMT
    <3> QED
      BY <3>1, <3>2 DEF Register, n
  <2> QED
    BY <1>7, <2>1, <2>2
<1>9. CASE i.op = "load"
  <2> DEFINE le == LoadWord(fe, i.arg)
             lr == LoadWord(fr, i.arg)
  <2>1. /\ E = StoreWord(le, REG_WORD, Word(le, i.arg))
        /\ R = StoreWord(lr, REG_WORD, Word(lr, i.arg))
        /\ DataWords(e, data) = {i.arg}
    BY <1>1, <1>9 DEF Accessed, fe, fr, DataWords
  <2>2. i.arg \in WordsOf(r.image)
    BY <1>2, <2>1
  <2>3. Sim(le, lr) /\ lr.image = r.image
    BY <1>4, <1>5, <2>2, SimLoad, LoadWordIs DEF Sim
  <2> HIDE DEF le, lr
  <2>4. Word(lr, i.arg) = Word(le, i.arg) /\ Word(le, i.arg) \in Val
    BY <2>2, <2>3, SimWord
  <2>5. Sim(StoreWord(le, REG_WORD, Word(le, i.arg)), StoreWord(lr, REG_WORD, Word(le, i.arg)))
    BY <1>2, <2>3, <2>4, SimStore
  <2> QED
    BY <2>1, <2>4, <2>5
<1>10. CASE i.op = "store"
  <2>1. /\ E = StoreWord(fe, i.arg, reg) /\ R = StoreWord(fr, i.arg, reg)
        /\ DataWords(e, data) = {i.arg}
    BY <1>1, <1>6, <1>10 DEF Accessed, fe, fr, reg, DataWords
  <2>2. i.arg \in WordsOf(fr.image)
    BY <1>2, <1>4, <2>1
  <2> QED
    BY <1>5, <1>6, <2>1, <2>2, SimStore
<1>11. CASE i.op = "jump"
  <2>1. /\ E = StoreWord(fe, REG_WORD, reg) /\ R = StoreWord(fr, REG_WORD, reg)
    BY <1>1, <1>6, <1>11 DEF Accessed, fe, fr, reg
  <2> QED
    BY <1>6, <1>7, <2>1
<1>12. CASE i.op = "halt"
  <2>1. E = fe /\ R = fr
    BY <1>1, <1>12 DEF Accessed, fe, fr
  <2> QED
    BY <1>5, <2>1
<1>13. CASE i.op = "read"
  <2> DEFINE re == StoreWord(fe, REG_WORD, Len(data))
             rr == StoreWord(fr, REG_WORD, Len(data))
  <2>1. data \in Answers
    BY <1>13 DEF AnswersTo
  <2>2. Len(data) \in Val
    BY <2>1, AnswerLength
  <2>3. Sim(re, rr)
    BY <1>7, <2>2
  <2>4. rr.image = r.image
    <3>1. IsContext(fr) /\ REG_WORD \in WordsOf(fr.image)
      BY <1>2, <1>4, <1>5 DEF Sim
    <3>2. rr.image = fr.image
      BY <2>2, <3>1, StoreWordIs
    <3> QED
      BY <1>4, <3>2
  <2> HIDE DEF re, rr
  <2>5. CASE data = <<>>
    <3>1. E = re /\ R = rr
      BY <1>1, <1>13, <2>5 DEF Accessed, fe, fr, re, rr
    <3> QED
      BY <2>3, <3>1
  <2>6. CASE data # <<>>
    <3>1. /\ E = StoreWord(re, i.arg, data[1]) /\ R = StoreWord(rr, i.arg, data[1])
          /\ DataWords(e, data) = {i.arg}
      BY <1>1, <1>13, <2>6 DEF Accessed, fe, fr, re, rr, DataWords
    <3>2. i.arg \in WordsOf(rr.image)
      BY <1>2, <2>4, <3>1
    <3>3. data[1] \in Val
      BY <2>1, <2>6, SegmentsAssumption DEF Answers
    <3> QED
      BY <2>3, <3>1, <3>2, <3>3, SimStore
  <2> QED
    BY <2>5, <2>6
<1>14. CASE i.op = "write"
  <2>1. /\ E = StoreWord(fe, REG_WORD, data) /\ R = StoreWord(fr, REG_WORD, data)
    BY <1>1, <1>14 DEF Accessed, fe, fr
  <2>2. data \in Val
    BY <1>14, ValuesAre DEF AnswersTo
  <2> QED
    BY <1>7, <2>1, <2>2
<1> QED
  BY <1>1, <1>8, <1>9, <1>10, <1>11, <1>12, <1>13, <1>14 DEF Operations, Local

\* A step with the same answer keeps the contexts together and takes as long.
LEMMA SimStep ==
  ASSUME program \in Programs, NEW e, NEW r, Sim(e, r), NEW data \in AnswersTo(e),
         StepWords(e, data) \subseteq WordsOf(r.image)
  PROVE  /\ Sim(Stepped(e, data), Stepped(r, data))
         /\ Stepped(r, data).image = r.image
         /\ Stepped(e, data).physCycles = e.physCycles + Spent(e, data)
         /\ Stepped(r, data).physCycles = r.physCycles + Spent(e, data)
<1> DEFINE E  == Accessed(e, data)
           R  == Accessed(r, data)
           se == Stepped(e, data)
           sr == Stepped(r, data)
<1>1. Instruction(r) = Instruction(e)
  BY DEF Sim, Instruction
<1>2. /\ data \in AnswersTo(r) /\ StepWords(r, data) = StepWords(e, data)
      /\ NextPc(r) = NextPc(e) /\ Spent(r, data) = Spent(e, data)
  BY <1>1 DEF AnswersTo, StepWords, DataWords, NextPc, Spent, Sim
<1>3. Sim(E, R)
  BY SimAccessed
<1>4. StepWords(e, data) \subseteq WordsOf(e.image)
  BY WordsGrow DEF Sim
<1>5. Reaches(e, E, StepWords(e, data))
  BY <1>4, AccessedReaches DEF Sim
<1>6. Reaches(r, R, StepWords(e, data))
  BY <1>2, AccessedReaches DEF Sim
<1>7. Set(E, se, NextPc(e), e.physCycles + Spent(e, data))
  BY <1>5, SteppedIs DEF Reaches, Sim
<1>8. Set(R, sr, NextPc(e), r.physCycles + Spent(e, data))
  BY <1>2, <1>6, SteppedIs DEF Reaches, Sim
<1>9. /\ NextPc(e) \in Pcs
      /\ e.physCycles + Spent(e, data) \in Nat /\ r.physCycles + Spent(e, data) \in Nat
  BY SpentIs DEF Sim, IsContext
<1> HIDE DEF E, R, se, sr
<1>10. /\ IsContext(se) /\ se.image = E.image /\ se.pc = NextPc(e)
       /\ se.physCycles = e.physCycles + Spent(e, data)
       /\ Cached(se) = Cached(E) /\ Dirty(se) = Dirty(E)
       /\ \A u : Word(se, u) = Word(E, u)
  BY <1>3, <1>7, <1>9, SetIs DEF Sim
<1>11. /\ IsContext(sr) /\ sr.image = R.image /\ sr.pc = NextPc(e)
       /\ sr.physCycles = r.physCycles + Spent(e, data)
       /\ Cached(sr) = Cached(R) /\ Dirty(sr) = Dirty(R)
       /\ \A u : Word(sr, u) = Word(R, u)
  BY <1>3, <1>8, <1>9, SetIs DEF Sim
<1>12. Sim(se, sr)
  BY <1>3, <1>10, <1>11 DEF Sim
<1> QED
  BY <1>6, <1>10, <1>11, <1>12 DEF Reaches, se, sr

-----------------------------------------------------------------------------
(* Resuming, suspending and committing                                     *)

ImageWord(img, w) == img[PageOf(w)][OffsetOf(w)]

\* Over an image, the pages of the system's data, and a pc to resume at.
Resumable(img) ==
  /\ IsImage(img)
  /\ SystemPage \in DOMAIN img
  /\ ImageWord(img, SUSPEND_PC_WORD) \in Pcs

LEMMA SystemWordsSeen ==
  ASSUME NEW img, SystemPage \in DOMAIN img
  PROVE  SystemWords \subseteq WordsOf(img)
BY SystemWordsAre DEF WordsOf

\* A context that has just cleared its pager sees its image.
LEMMA FreshIs ==
  ASSUME NEW c, IsImage(c.image), c.pager = NewPager
  PROVE  /\ PagerInv(c.image, c.pager)
         /\ Cached(c) = {} /\ Dirty(c) = {}
         /\ \A u \in WordsOf(c.image) : Word(c, u) = ImageWord(c.image, u)
<1>1. PagerInv(c.image, c.pager)
  BY NewPagerInv
<1>2. Cached(c) = {} /\ Dirty(c) = {}
  BY DEF Cached, Dirty, DirtyPages, NewPager
<1>3. ASSUME NEW u \in WordsOf(c.image)
      PROVE  Word(c, u) = ImageWord(c.image, u)
  <2>1. Leaf(PageOf(u)) \in Nodes
    BY LeafIsNode DEF IsImage, WordsOf
  <2>2. ~ IsCached(c.pager, PageOf(u))
    BY <2>1 DEF IsCached, NewPager
  <2> QED
    BY <2>2 DEF Word, PagerPeek, ImageWord
<1> QED
  BY <1>1, <1>2, <1>3

LEMMA ResumeIs ==
  ASSUME NEW c, IsContext(c), c.pager = NewPager, Resumable(c.image)
  PROVE  LET d == Resume(c)
         IN  /\ IsContext(d) /\ d.image = c.image /\ d.physCycles = c.physCycles
             /\ d.pc = ImageWord(c.image, SUSPEND_PC_WORD)
             /\ Cached(d) = {SystemPage} /\ Dirty(d) = {}
             /\ \A u \in WordsOf(c.image) : Word(d, u) = ImageWord(c.image, u)
<1> DEFINE a == LoadWord(c, SUSPEND_PC_WORD)
           b == LoadWord(a, SUSPEND_MODE_WORD)
           d == Resume(c)
           pc == Word(b, SUSPEND_PC_WORD)
<1>1. /\ SUSPEND_PC_WORD \in WordsOf(c.image) /\ SUSPEND_MODE_WORD \in WordsOf(c.image)
      /\ PageOf(SUSPEND_PC_WORD) = SystemPage /\ PageOf(SUSPEND_MODE_WORD) = SystemPage
  BY SystemWordsSeen, SystemWordsAre DEF Resumable, SystemWords
<1>2. /\ Cached(c) = {} /\ Dirty(c) = {}
      /\ \A u \in WordsOf(c.image) : Word(c, u) = ImageWord(c.image, u)
  BY FreshIs DEF Resumable
<1>3. /\ IsContext(a) /\ a.image = c.image /\ a.physCycles = c.physCycles
      /\ Cached(a) = {SystemPage} /\ Dirty(a) = {}
      /\ \A u \in WordsOf(c.image) : Word(a, u) = Word(c, u)
  BY <1>1, <1>2, LoadWordIs
<1> HIDE DEF a
<1>4. /\ IsContext(b) /\ b.image = c.image /\ b.physCycles = c.physCycles
      /\ Cached(b) = {SystemPage} /\ Dirty(b) = {}
      /\ \A u \in WordsOf(c.image) : Word(b, u) = Word(a, u)
  <2>1. SUSPEND_MODE_WORD \in WordsOf(a.image)
    BY <1>1, <1>3
  <2>2. /\ IsContext(b) /\ b.image = a.image /\ b.physCycles = a.physCycles
        /\ Cached(b) = Cached(a) \cup {PageOf(SUSPEND_MODE_WORD)} /\ Dirty(b) = Dirty(a)
        /\ \A u \in WordsOf(a.image) : Word(b, u) = Word(a, u)
    BY <1>3, <2>1, LoadWordIs
  <2> HIDE DEF b
  <2> QED
    BY <1>1, <1>3, <2>2
<1>5. pc = ImageWord(c.image, SUSPEND_PC_WORD) /\ pc \in Pcs
  BY <1>1, <1>2, <1>3, <1>4 DEF Resumable
<1>6. d = [b EXCEPT !.pc = pc]
  BY DEF Resume, a
<1> HIDE DEF b, d, pc
<1>7. Set(b, d, pc, b.physCycles)
  BY <1>4, <1>6 DEF Set, IsContext
<1>8. b.physCycles \in Nat
  BY <1>4 DEF IsContext
<1>9. /\ IsContext(d) /\ d.image = b.image /\ d.pc = pc /\ d.physCycles = b.physCycles
      /\ Cached(d) = Cached(b) /\ Dirty(d) = Dirty(b)
      /\ \A u : Word(d, u) = Word(b, u)
  BY <1>4, <1>5, <1>7, <1>8, SetIs
<1>10. \A u \in WordsOf(c.image) : Word(d, u) = ImageWord(c.image, u)
  BY <1>2, <1>3, <1>4, <1>9
<1> QED
  BY <1>4, <1>5, <1>9, <1>10 DEF d

LEMMA ContextIs ==
  ASSUME program \in Programs, NEW img, IsImage(img)
  PROVE  LET c == Context(img)
         IN  IsContext(c) /\ c.image = img /\ c.pager = NewPager /\ c.physCycles = 0
<1>1. 0 \in Pcs
  BY ProgramIs
<1>2. PagerInv(img, NewPager)
  BY NewPagerInv
<1> QED
  BY <1>1, <1>2 DEF Context, IsContext

LEMMA SuspendIs ==
  ASSUME program \in Programs, NEW c, IsContext(c), SystemPage \in DOMAIN c.image
  PROVE  LET e == Suspend(c)
         IN  /\ IsContext(e)
             /\ e.image = c.image /\ e.pc = c.pc /\ e.physCycles = c.physCycles
             /\ Cached(e) = Cached(c) \cup {SystemPage}
             /\ Dirty(e) = Dirty(c) \cup {SystemPage}
             /\ Word(e, SUSPEND_PC_WORD) = c.pc
             /\ Word(e, INPUT_WORD) = Word(c, INPUT_WORD)
<1> DEFINE a == StoreWord(c, SUSPEND_PC_WORD, c.pc)
           e == StoreWord(a, SUSPEND_MODE_WORD, 1)
<1>1. /\ SUSPEND_PC_WORD \in WordsOf(c.image) /\ SUSPEND_MODE_WORD \in WordsOf(c.image)
      /\ INPUT_WORD \in WordsOf(c.image)
      /\ PageOf(SUSPEND_PC_WORD) = SystemPage /\ PageOf(SUSPEND_MODE_WORD) = SystemPage
      /\ SUSPEND_PC_WORD # SUSPEND_MODE_WORD
      /\ INPUT_WORD # SUSPEND_MODE_WORD /\ INPUT_WORD # SUSPEND_PC_WORD
  BY SystemWordsSeen, SystemWordsAre, SegmentsAssumption DEF SystemWords
<1>2. c.pc \in Val /\ 1 \in Val
  BY ProgramIs, ValuesAre DEF IsContext
<1>3. /\ IsContext(a) /\ a.image = c.image /\ a.pc = c.pc /\ a.physCycles = c.physCycles
      /\ Cached(a) = Cached(c) \cup {SystemPage} /\ Dirty(a) = Dirty(c) \cup {SystemPage}
      /\ \A u \in WordsOf(c.image) :
           Word(a, u) = IF u = SUSPEND_PC_WORD THEN c.pc ELSE Word(c, u)
  BY <1>1, <1>2, StoreWordIs
<1> HIDE DEF a
<1>4. SUSPEND_MODE_WORD \in WordsOf(a.image)
  BY <1>1, <1>3
<1>5. /\ IsContext(e) /\ e.image = a.image /\ e.pc = a.pc /\ e.physCycles = a.physCycles
      /\ Cached(e) = Cached(a) \cup {PageOf(SUSPEND_MODE_WORD)}
      /\ Dirty(e) = Dirty(a) \cup {PageOf(SUSPEND_MODE_WORD)}
      /\ \A u \in WordsOf(a.image) :
           Word(e, u) = IF u = SUSPEND_MODE_WORD THEN 1 ELSE Word(a, u)
  BY <1>2, <1>3, <1>4, StoreWordIs
<1>6. Suspend(c) = e
  BY DEF Suspend, a
<1> HIDE DEF e
<1> QED
  BY <1>1, <1>3, <1>5, <1>6

LEMMA SimSuspend ==
  ASSUME program \in Programs, NEW e, NEW r, Sim(e, r), SystemPage \in DOMAIN r.image
  PROVE  Sim(Suspend(e), Suspend(r))
<1>1. /\ SUSPEND_PC_WORD \in WordsOf(r.image) /\ SUSPEND_MODE_WORD \in WordsOf(r.image)
  BY SystemWordsSeen DEF SystemWords
<1>2. r.pc = e.pc /\ e.pc \in Val /\ 1 \in Val
  BY ProgramIs, ValuesAre DEF IsContext, Sim
<1> DEFINE se == StoreWord(e, SUSPEND_PC_WORD, e.pc)
           sr == StoreWord(r, SUSPEND_PC_WORD, e.pc)
<1>3. Sim(se, sr)
  BY <1>1, <1>2, SimStore
<1>4. sr.image = r.image
  BY <1>1, <1>2, StoreWordIs DEF Sim
<1> HIDE DEF se, sr
<1>5. Sim(StoreWord(se, SUSPEND_MODE_WORD, 1), StoreWord(sr, SUSPEND_MODE_WORD, 1))
  BY <1>1, <1>2, <1>3, <1>4, SimStore
<1> QED
  BY <1>2, <1>5 DEF Suspend, se, sr

\* What commit writes back is what the context sees.
LEMMA CommittedIs ==
  ASSUME NEW c, IsContext(c), c.image \in Memories
  PROVE  LET m == Committed(c.image, c.pager)
         IN  /\ m \in Memories
             /\ \A p \in Cached(c) : p \in Pages /\ m[p] = c.pager.pageCache[p]
             /\ \A p \in Pages \ Cached(c) : m[p] = c.image[p]
             /\ \A w \in WordsOf(m) : ImageWord(m, w) = Word(c, w)
<1> DEFINE m == Committed(c.image, c.pager)
           st == c.pager.stateTable
<1>1. /\ c.image \in [Pages -> PageData] /\ DOMAIN c.image = Pages
      /\ PagerTyped(c.image, c.pager) /\ Coherent(c.image, c.pager)
  BY DEF Memories, IsContext, PagerInv
<1>2. /\ Cached(c) = {p \in Pages : IsCached(c.pager, p)}
      /\ \A p \in Cached(c) : c.pager.pageCache[p] \in PageData
  BY <1>1 DEF Cached, PagerTyped
<1>3. \A p \in Pages : m[p] = IF p \in DirtyPages(c.pager) THEN c.pager.pageCache[p]
                              ELSE c.image[p]
  BY <1>1 DEF Committed
<1>4. DirtyPages(c.pager) \subseteq Cached(c)
  BY DEF DirtyPages, Cached
<1>5. \A p \in Pages \ Cached(c) : m[p] = c.image[p]
  BY <1>3, <1>4
<1>6. ASSUME NEW p \in Cached(c)
      PROVE  m[p] = c.pager.pageCache[p]
  <2>1. st[Leaf(p)] \in {LOADED, DIRTY}
    BY <1>1, <1>2, LeafIsNode DEF IsCached, PagerTyped, StateTables
  <2>2. CASE st[Leaf(p)] = DIRTY
    BY <1>2, <1>3, <2>2 DEF DirtyPages, Cached
  <2>3. CASE st[Leaf(p)] = LOADED
    <3>1. p \notin DirtyPages(c.pager)
      BY <2>3 DEF DirtyPages, LOADED, DIRTY
    <3> QED
      BY <1>1, <1>2, <1>3, <2>3, <3>1 DEF Coherent, Cached
  <2> QED
    BY <2>1, <2>2, <2>3
<1>7. m \in Memories
  <2>1. \A p \in Pages : m[p] \in PageData
    BY <1>1, <1>2, <1>5, <1>6
  <2>2. m = [p \in Pages |-> m[p]]
    BY <1>1 DEF Committed
  <2> HIDE DEF m
  <2> QED
    BY <2>1, <2>2 DEF Memories
<1>8. ASSUME NEW w \in WordsOf(m)
      PROVE  ImageWord(m, w) = Word(c, w)
  <2>1. PageOf(w) \in Pages
    BY <1>7 DEF WordsOf, Memories
  <2>2. PageOf(w) \in Cached(c) <=> IsCached(c.pager, PageOf(w))
    BY <1>2, <2>1
  <2> HIDE DEF m
  <2> QED
    BY <1>5, <1>6, <2>1, <2>2 DEF ImageWord, Word, PagerPeek, CachedWord
<1> QED
  BY <1>2, <1>5, <1>6, <1>7, <1>8

\* A segment begins with its memory behind an empty cache, but for the page
\* resume reads.
Begins(c, memory) ==
  /\ IsContext(c)
  /\ memory \in Memories /\ c.image = memory
  /\ c.pc = ImageWord(memory, SUSPEND_PC_WORD)
  /\ ImageWord(memory, INPUT_WORD) = 0
  /\ Cached(c) = {SystemPage} /\ Dirty(c) = {}
  /\ \A w \in WordsOf(memory) : Word(c, w) = ImageWord(memory, w)

LEMMA BeginsAtStart ==
  ASSUME program \in Programs
  PROVE  /\ Begins(Resume(Context(StartImage)), StartImage)
         /\ Resume(Context(StartImage)).physCycles = 0
<1> DEFINE S == StartImage
<1>1. S \in Memories
  <2>1. ZeroPage \in PageData
    BY ValuesAre DEF ZeroPage, PageData
  <2>2. [ZeroPage EXCEPT ![OffsetOf(SUSPEND_MODE_WORD)] = 1] \in PageData
    BY <2>1, ValuesAre DEF PageData
  <2> QED
    BY <2>1, <2>2 DEF StartImage, Memories
<1>2. ASSUME NEW w \in {SUSPEND_PC_WORD, INPUT_WORD}
      PROVE  ImageWord(S, w) = 0
  <2>1. /\ w # SUSPEND_MODE_WORD /\ w \in Nat /\ SUSPEND_MODE_WORD \in Nat
        /\ PageOf(w) = PageOf(SUSPEND_MODE_WORD) /\ PageOf(w) \in Pages
        /\ w < WORD_LIMIT
    BY <1>2, SystemWordsAre, SegmentsAssumption DEF SystemWords
  <2>2. OffsetOf(w) # OffsetOf(SUSPEND_MODE_WORD)
    BY <2>1, PageAndOffsetIdentify
  <2>3. OffsetOf(w) \in Offsets
    BY <2>1, WordInPage
  <2>4. S[PageOf(w)] = [ZeroPage EXCEPT ![OffsetOf(SUSPEND_MODE_WORD)] = 1]
    BY <2>1 DEF StartImage
  <2> QED
    BY <2>2, <2>3, <2>4 DEF ImageWord, ZeroPage
<1> HIDE DEF S
<1>3. Resumable(S)
  BY <1>1, <1>2, MemoriesAre, SystemWordsAre, ProgramIs DEF Resumable
<1>4. /\ IsContext(Context(S)) /\ Context(S).image = S
      /\ Context(S).pager = NewPager /\ Context(S).physCycles = 0
  BY <1>3, ContextIs DEF Resumable
<1> DEFINE d == Resume(Context(S))
<1>5. /\ IsContext(d) /\ d.image = S /\ d.physCycles = 0
      /\ d.pc = ImageWord(S, SUSPEND_PC_WORD)
      /\ Cached(d) = {SystemPage} /\ Dirty(d) = {}
      /\ \A u \in WordsOf(S) : Word(d, u) = ImageWord(S, u)
  BY <1>3, <1>4, ResumeIs
<1> HIDE DEF d
<1>6. Begins(d, S)
  BY <1>1, <1>2, <1>5 DEF Begins
<1> QED
  BY <1>5, <1>6 DEF d, S

\* Suspend, commit, clear and resume begin a segment with the memory the
\* context saw.
LEMMA BeginsReopened ==
  ASSUME program \in Programs, NEW c, IsContext(c), c.image \in Memories,
         Word(c, INPUT_WORD) = 0
  PROVE  /\ Begins(Reopened(c), Committed(Suspend(c).image, Suspend(c).pager))
         /\ Reopened(c).physCycles = c.physCycles
<1> DEFINE e == Suspend(c)
           m == Committed(e.image, e.pager)
           n == [e EXCEPT !.image = m, !.pager = NewPager]
<1>1. SystemPage \in DOMAIN c.image
  BY MemoriesAre, SystemWordsAre
<1>2. /\ IsContext(e) /\ e.image = c.image /\ e.pc = c.pc /\ e.physCycles = c.physCycles
      /\ Word(e, SUSPEND_PC_WORD) = c.pc /\ Word(e, INPUT_WORD) = 0
  BY <1>1, SuspendIs
<1>3. /\ m \in Memories
      /\ \A w \in WordsOf(m) : ImageWord(m, w) = Word(e, w)
  BY <1>2, CommittedIs
<1>4. IsImage(m) /\ SystemPage \in DOMAIN m
  BY <1>3, MemoriesAre, SystemWordsAre
<1>5. ImageWord(m, SUSPEND_PC_WORD) = c.pc /\ ImageWord(m, INPUT_WORD) = 0
  BY <1>2, <1>3, <1>4, SystemWordsSeen DEF SystemWords
<1>6. Resumable(m)
  BY <1>4, <1>5 DEF Resumable, IsContext
<1>7. PagerInv(m, NewPager)
  BY <1>4, NewPagerInv
<1> HIDE DEF m
<1>8. /\ n.image = m /\ n.pager = NewPager /\ n.physCycles = c.physCycles /\ n.pc = c.pc
      /\ n = [image |-> n.image, pager |-> n.pager, pc |-> n.pc, done |-> n.done,
              userCycles |-> n.userCycles, physCycles |-> n.physCycles]
  <2> HIDE DEF e
  <2> DEFINE a == [e EXCEPT !.image = m]
  <2>1. /\ a.image = m /\ a.physCycles = c.physCycles /\ a.pc = c.pc
        /\ a = [image |-> a.image, pager |-> a.pager, pc |-> a.pc, done |-> a.done,
                userCycles |-> a.userCycles, physCycles |-> a.physCycles]
    BY <1>2 DEF IsContext
  <2>2. n = [a EXCEPT !.pager = NewPager]
    BY <1>2 DEF IsContext
  <2> HIDE DEF a, n
  <2> QED
    BY <2>1, <2>2
<1>9. Reopened(c) = Resume(n)
  BY EvaluatedIs DEF Reopened, m
<1> HIDE DEF n, e
<1>10. IsContext(n)
  BY <1>4, <1>7, <1>8 DEF IsContext
<1> DEFINE d == Resume(n)
<1>11. /\ IsContext(d) /\ d.image = m /\ d.physCycles = c.physCycles
       /\ d.pc = ImageWord(m, SUSPEND_PC_WORD)
       /\ Cached(d) = {SystemPage} /\ Dirty(d) = {}
       /\ \A u \in WordsOf(m) : Word(d, u) = ImageWord(m, u)
  BY <1>6, <1>8, <1>10, ResumeIs
<1> HIDE DEF d
<1>12. Begins(d, m)
  BY <1>3, <1>5, <1>11 DEF Begins
<1> QED
  BY <1>9, <1>11, <1>12 DEF d, m, e

-----------------------------------------------------------------------------
(* Histories                                                               *)

LEMMA AppendIs ==
  ASSUME NEW S, NEW seq \in Seq(S), NEW x \in S
  PROVE  /\ Append(seq, x) \in Seq(S)
         /\ Len(seq) \in Nat /\ Len(Append(seq, x)) = Len(seq) + 1
         /\ \A i \in 1 .. Len(seq) : Append(seq, x)[i] = seq[i]
         /\ Append(seq, x)[Len(seq) + 1] = x
OBVIOUS

\* A point of a run: a context, and the answers used to get there.
Point(c, reads, writes) == [c |-> c, reads |-> reads, writes |-> writes]

After(x, data) ==
  Point(Stepped(x.c, data),
        IF Instruction(x.c).op = "read"  THEN x.reads + 1  ELSE x.reads,
        IF Instruction(x.c).op = "write" THEN x.writes + 1 ELSE x.writes)

\* The records of segment s answer with data at point x.
Given(x, data, s) ==
  /\ data \in AnswersTo(x.c)
  /\ Instruction(x.c).op = "read" =>
       x.reads < Len(s.readRecord) /\ s.readRecord[x.reads + 1] = data
  /\ Instruction(x.c).op = "write" =>
       x.writes < Len(s.writeRecord) /\ s.writeRecord[x.writes + 1] = data

\* R holds the points of a run from first to last over the memory of segment
\* s, which has recorded the answers used: each point but the last is earlier
\* than the last and goes on with what is recorded.
History(R, first, last, s) ==
  /\ first \in R /\ last \in R
  /\ Begins(first.c, s.startMemory) /\ first.reads = 0 /\ first.writes = 0
  /\ last.reads = Len(s.readRecord) /\ last.writes = Len(s.writeRecord)
  /\ \A x \in R : /\ IsContext(x.c) /\ x.c.image = s.startMemory
                  /\ x.reads \in Nat /\ x.writes \in Nat
                  /\ Cached(x.c) \subseteq Cached(last.c)
                  /\ Dirty(x.c) \subseteq Dirty(last.c)
  /\ \A x \in R : x # last => /\ x.c.physCycles < last.c.physCycles
                              /\ \E data : Given(x, data, s) /\ After(x, data) \in R

Recorded(s) == s.readRecord \in Seq(Answers) /\ s.writeRecord \in Seq({0, 1})

\* The program does not change, and with it nothing that is said of contexts.
LEMMA Rigid ==
  ASSUME program' = program
  PROVE  /\ \A c : IsContext(c)' <=> IsContext(c)
         /\ \A x, data, s : Given(x, data, s)' <=> Given(x, data, s)
         /\ \A x, data : After(x, data)' = After(x, data)
<1>1. \A c : Instruction(c)' = Instruction(c)
  BY DEF Instruction
<1>2. Pcs' = Pcs
  BY DEF Pcs
<1>3. \A c : IsContext(c)' <=> IsContext(c)
  BY <1>2 DEF IsContext
<1>4. \A c : AnswersTo(c)' = AnswersTo(c)
  BY <1>1 DEF AnswersTo
<1>5. \A c : LocalStep(c)' = LocalStep(c)
  BY <1>1 DEF LocalStep
<1>6. \A c, data : ReadStep(c, data)' = ReadStep(c, data)
  BY <1>1 DEF ReadStep
<1>7. \A c, data : Stepped(c, data)' = Stepped(c, data)
  BY <1>1, <1>5, <1>6 DEF Stepped
<1> QED
  BY <1>1, <1>3, <1>4, <1>7 DEF Given, After

LEMMA HistoryRigid ==
  ASSUME program' = program
  PROVE  \A R, first, last, s : History(R, first, last, s)' <=> History(R, first, last, s)
<1>1. \A c, memory : Begins(c, memory)' <=> Begins(c, memory)
  <2>1. Pcs' = Pcs
    BY DEF Pcs
  <2> QED
    BY Rigid DEF Begins
<1> QED
  BY <1>1, Rigid DEF History

LEMMA HistoryBegins ==
  ASSUME NEW c, NEW s, Begins(c, s.startMemory), s.readRecord = <<>>, s.writeRecord = <<>>
  PROVE  History({Point(c, 0, 0)}, Point(c, 0, 0), Point(c, 0, 0), s)
<1> DEFINE x == Point(c, 0, 0)
<1>1. x.c = c /\ x.reads = 0 /\ x.writes = 0
  BY DEF Point
<1>2. Len(s.readRecord) = 0 /\ Len(s.writeRecord) = 0
  OBVIOUS
<1> HIDE DEF x
<1>3. History({x}, x, x, s)
  BY <1>1, <1>2 DEF History, Begins
<1> QED
  BY <1>3 DEF x

LEMMA StepWordsAre ==
  ASSUME program \in Programs, NEW c, IsContext(c), c.image \in Memories, NEW data
  PROVE  StepWords(c, data) \subseteq WordsOf(c.image)
<1>1. WordsOf(c.image) = 0 .. WORD_LIMIT - 1
  BY MemoriesAre
<1>2. WORD_LIMIT \in Nat /\ {CODE_WORD, REG_WORD} \subseteq 0 .. WORD_LIMIT - 1
  BY SystemWordsAre, SegmentsAssumption
<1>3. DataWords(c, data) \subseteq 0 .. WORD_LIMIT - 1
  BY InstructionIs DEF DataWords
<1> QED
  BY <1>1, <1>2, <1>3 DEF StepWords

\* A step of the executor makes the history longer, and the records with it.
LEMMA HistoryGrows ==
  ASSUME program \in Programs, NEW R, NEW first, NEW last, NEW s, NEW t,
         History(R, first, last, s), Recorded(s), NEW data \in AnswersTo(last.c),
         t.startMemory = s.startMemory,
         t.readRecord = IF Instruction(last.c).op = "read"
                        THEN Append(s.readRecord, data) ELSE s.readRecord,
         t.writeRecord = IF Instruction(last.c).op = "write"
                         THEN Append(s.writeRecord, data) ELSE s.writeRecord
  PROVE  /\ Recorded(t)
         /\ History(R \cup {After(last, data)}, first, After(last, data), t)
<1> DEFINE y == After(last, data)
           op == Instruction(last.c).op
<1>1. /\ IsContext(last.c) /\ last.c.image = s.startMemory /\ s.startMemory \in Memories
      /\ last.reads \in Nat /\ last.writes \in Nat
      /\ last.reads = Len(s.readRecord) /\ last.writes = Len(s.writeRecord)
  BY DEF History, Begins
<1>2. /\ y.c = Stepped(last.c, data)
      /\ y.reads = (IF op = "read" THEN last.reads + 1 ELSE last.reads)
      /\ y.writes = (IF op = "write" THEN last.writes + 1 ELSE last.writes)
  BY DEF After, Point
<1>3. StepWords(last.c, data) \subseteq WordsOf(last.c.image)
  BY <1>1, StepWordsAre
<1>4. /\ IsContext(y.c) /\ y.c.image = s.startMemory
      /\ y.c.physCycles = last.c.physCycles + Spent(last.c, data)
      /\ Cached(last.c) \subseteq Cached(y.c) /\ Dirty(last.c) \subseteq Dirty(y.c)
  BY <1>1, <1>2, <1>3, StepIs
<1>5. last.c.physCycles < y.c.physCycles
  <2>1. Spent(last.c, data) \in 1 .. 3 /\ last.c.physCycles \in Nat
    BY <1>1, SpentIs DEF IsContext
  <2> QED
    BY <1>4, <2>1
<1>6. /\ Len(s.readRecord) \in Nat /\ t.readRecord \in Seq(Answers)
      /\ Len(t.readRecord) = (IF op = "read" THEN Len(s.readRecord) + 1 ELSE Len(s.readRecord))
      /\ \A i \in 1 .. Len(s.readRecord) : t.readRecord[i] = s.readRecord[i]
      /\ op = "read" => t.readRecord[Len(s.readRecord) + 1] = data
  <2>1. CASE op = "read"
    <3>1. data \in Answers
      BY <2>1 DEF AnswersTo
    <3> QED
      BY <2>1, <3>1, AppendIs DEF Recorded
  <2>2. CASE op # "read"
    BY <2>2 DEF Recorded
  <2> QED
    BY <2>1, <2>2
<1>7. /\ Len(s.writeRecord) \in Nat /\ t.writeRecord \in Seq({0, 1})
      /\ Len(t.writeRecord) = (IF op = "write" THEN Len(s.writeRecord) + 1 ELSE Len(s.writeRecord))
      /\ \A i \in 1 .. Len(s.writeRecord) : t.writeRecord[i] = s.writeRecord[i]
      /\ op = "write" => t.writeRecord[Len(s.writeRecord) + 1] = data
  <2>1. CASE op = "write"
    <3>1. data \in {0, 1}
      BY <2>1 DEF AnswersTo
    <3> QED
      BY <2>1, <3>1, AppendIs DEF Recorded
  <2>2. CASE op # "write"
    BY <2>2 DEF Recorded
  <2> QED
    BY <2>1, <2>2
<1>8. Given(last, data, t)
  BY <1>1, <1>6, <1>7 DEF Given
<1>9. ASSUME NEW x \in R, NEW d, Given(x, d, s)
      PROVE  Given(x, d, t)
  <2>1. x.reads \in Nat /\ x.writes \in Nat
    BY DEF History
  <2>2. x.reads < Len(s.readRecord) =>
          /\ x.reads < Len(t.readRecord)
          /\ t.readRecord[x.reads + 1] = s.readRecord[x.reads + 1]
    BY <1>6, <2>1
  <2>3. x.writes < Len(s.writeRecord) =>
          /\ x.writes < Len(t.writeRecord)
          /\ t.writeRecord[x.writes + 1] = s.writeRecord[x.writes + 1]
    BY <1>7, <2>1
  <2> QED
    BY <1>9, <2>2, <2>3 DEF Given
<1> HIDE DEF y, op
<1>10. ASSUME NEW x \in R \cup {y}
       PROVE  /\ IsContext(x.c) /\ x.c.image = s.startMemory
              /\ x.reads \in Nat /\ x.writes \in Nat
              /\ Cached(x.c) \subseteq Cached(y.c)
              /\ Dirty(x.c) \subseteq Dirty(y.c)
  BY <1>1, <1>2, <1>4 DEF History
<1>11. ASSUME NEW x \in R, x # y
       PROVE  /\ x.c.physCycles < y.c.physCycles
              /\ \E d : Given(x, d, t) /\ After(x, d) \in R \cup {y}
  <2>1. CASE x = last
    BY <1>5, <1>8, <2>1 DEF y
  <2>2. CASE x # last
    <3>1. /\ x.c.physCycles < last.c.physCycles
          /\ \E d : Given(x, d, s) /\ After(x, d) \in R
      BY <2>2 DEF History
    <3>2. x.c.physCycles \in Nat /\ last.c.physCycles \in Nat /\ y.c.physCycles \in Nat
      BY <1>1, <1>4 DEF History, IsContext
    <3> QED
      BY <1>5, <1>9, <3>1, <3>2
  <2> QED
    BY <2>1, <2>2
<1>12. /\ first \in R \cup {y} /\ y \in R \cup {y}
       /\ Begins(first.c, t.startMemory) /\ first.reads = 0 /\ first.writes = 0
       /\ y.reads = Len(t.readRecord) /\ y.writes = Len(t.writeRecord)
  BY <1>1, <1>2, <1>6, <1>7 DEF History
<1>13. History(R \cup {y}, first, y, t)
  BY <1>10, <1>11, <1>12 DEF History
<1> QED
  BY <1>6, <1>7, <1>13 DEF Recorded, y

-----------------------------------------------------------------------------
(* A finished segment and its replay                                       *)

\* Segment s was closed in context c.
Closes(c, s) ==
  /\ s.image = OriginalPages(Suspend(c).image, Suspend(c).pager)
  /\ s.endMemory = Committed(Suspend(c).image, Suspend(c).pager)
  /\ s.suspendCycle = c.physCycles /\ s.pagingCycles = c.pager.pagingCycles
  /\ s.endPc = c.pc

\* The image of a segment has the pages its last context has cached, as they
\* were at its start; no other page has changed.
LEMMA ClosedImage ==
  ASSUME program \in Programs, NEW R, NEW first, NEW last, NEW s,
         History(R, first, last, s), Closes(last.c, s)
  PROVE  /\ IsImage(s.image)
         /\ DOMAIN s.image = Cached(last.c) /\ SystemPage \in DOMAIN s.image
         /\ \A p \in DOMAIN s.image : s.image[p] = s.startMemory[p]
         /\ \A p \in Pages \ DOMAIN s.image : s.endMemory[p] = s.startMemory[p]
         /\ \A p \in DOMAIN s.image :
              s.endMemory[p] = Suspend(last.c).pager.pageCache[p]
<1> DEFINE e == Suspend(last.c)
           m == s.startMemory
<1>1. /\ IsContext(last.c) /\ last.c.image = m /\ m \in Memories
      /\ SystemPage \in Cached(last.c)
  BY DEF History, Begins
<1>2. SystemPage \in DOMAIN last.c.image /\ DOMAIN m = Pages /\ IsImage(m)
  BY <1>1, MemoriesAre, SystemWordsAre
<1>3. IsContext(e) /\ e.image = m /\ Cached(e) = Cached(last.c)
  <2>1. /\ IsContext(e) /\ e.image = last.c.image
        /\ Cached(e) = Cached(last.c) \cup {SystemPage}
    BY <1>1, <1>2, SuspendIs
  <2> QED
    BY <1>1, <2>1
<1>4. s.image = OriginalPages(m, e.pager) /\ s.endMemory = Committed(m, e.pager)
  BY <1>3 DEF Closes
<1> HIDE DEF e
<1>5. /\ \A p \in Cached(e) : p \in Pages /\ s.endMemory[p] = e.pager.pageCache[p]
      /\ \A p \in Pages \ Cached(e) : s.endMemory[p] = m[p]
  BY <1>1, <1>3, <1>4, CommittedIs
<1>6. DOMAIN s.image = Cached(e) /\ \A p \in Cached(e) : s.image[p] = m[p]
  BY <1>4 DEF OriginalPages, Cached
<1>7. s.image = [p \in Cached(e) |-> m[p]]
  BY <1>4 DEF OriginalPages, Cached
<1>8. IsImage(s.image)
  BY <1>2, <1>5, <1>6, <1>7 DEF IsImage
<1> QED
  BY <1>1, <1>3, <1>5, <1>6, <1>8 DEF e

\* Resuming over the segment's image is where the segment began.
LEMMA ReplayBegins ==
  ASSUME program \in Programs, NEW R, NEW first, NEW last, NEW s,
         History(R, first, last, s), Closes(last.c, s)
  PROVE  LET r == StoreWord(Resume(Context(s.image)), INPUT_WORD, 0)
         IN  Sim(first.c, r) /\ r.image = s.image /\ r.physCycles = 0
<1> DEFINE m == s.startMemory
           a == Resume(Context(s.image))
<1>1. /\ IsImage(s.image) /\ SystemPage \in DOMAIN s.image
      /\ \A p \in DOMAIN s.image : s.image[p] = m[p]
  BY ClosedImage
<1>2. Begins(first.c, m) /\ m \in Memories
  BY DEF History, Begins
<1>3. DOMAIN m = Pages /\ DOMAIN s.image \subseteq Pages
  BY <1>1, <1>2, MemoriesAre DEF IsImage
<1>4. \A w \in WordsOf(s.image) : ImageWord(s.image, w) = ImageWord(m, w) /\ w \in WordsOf(m)
  BY <1>1, <1>3 DEF WordsOf, ImageWord
<1>5. SystemWords \subseteq WordsOf(s.image)
  BY <1>1, SystemWordsSeen
<1>6. Resumable(s.image) /\ ImageWord(s.image, SUSPEND_PC_WORD) = first.c.pc
  BY <1>1, <1>2, <1>4, <1>5 DEF Resumable, Begins, IsContext, SystemWords
<1>7. /\ IsContext(Context(s.image)) /\ Context(s.image).image = s.image
      /\ Context(s.image).pager = NewPager /\ Context(s.image).physCycles = 0
  BY <1>1, ContextIs
<1>8. /\ IsContext(a) /\ a.image = s.image /\ a.physCycles = 0
      /\ a.pc = ImageWord(s.image, SUSPEND_PC_WORD)
      /\ Cached(a) = {SystemPage} /\ Dirty(a) = {}
      /\ \A u \in WordsOf(s.image) : Word(a, u) = ImageWord(s.image, u)
  BY <1>6, <1>7, ResumeIs
<1> HIDE DEF a
<1>9. Sim(first.c, a)
  BY <1>2, <1>3, <1>4, <1>6, <1>8 DEF Sim, Begins
<1>10. /\ INPUT_WORD \in WordsOf(a.image) /\ PageOf(INPUT_WORD) \in Cached(a)
       /\ Word(a, INPUT_WORD) = 0 /\ 0 \in Val
  BY <1>2, <1>4, <1>5, <1>8, SystemWordsAre, ValuesAre DEF SystemWords, Begins
<1>11. Sim(first.c, StoreWord(a, INPUT_WORD, 0))
  BY <1>9, <1>10, SimStoreSame
<1>12. /\ StoreWord(a, INPUT_WORD, 0).image = s.image
       /\ StoreWord(a, INPUT_WORD, 0).physCycles = 0
  BY <1>8, <1>10, StoreWordIs
<1> QED
  BY <1>11, <1>12 DEF a

\* The image has the pages of every step of the history.
LEMMA PointWords ==
  ASSUME program \in Programs, NEW R, NEW first, NEW last, NEW s,
         History(R, first, last, s), Closes(last.c, s),
         NEW x \in R, NEW data, Given(x, data, s), After(x, data) \in R
  PROVE  StepWords(x.c, data) \subseteq WordsOf(s.image)
<1> DEFINE y == After(x, data)
<1>1. y.c = Stepped(x.c, data) /\ data \in AnswersTo(x.c)
  BY DEF After, Point, Given
<1>2. IsContext(x.c) /\ x.c.image \in Memories
  BY DEF History, Begins
<1>3. StepWords(x.c, data) \subseteq WordsOf(x.c.image)
  BY <1>2, StepWordsAre
<1>4. PagesOf(StepWords(x.c, data)) \subseteq Cached(y.c)
  BY <1>1, <1>2, <1>3, StepIs
<1>5. Cached(y.c) \subseteq Cached(last.c)
  BY DEF History
<1>6. Cached(last.c) = DOMAIN s.image
  BY ClosedImage
<1> SUFFICES ASSUME NEW w \in StepWords(x.c, data) PROVE w \in WordsOf(s.image)
  OBVIOUS
<1>7. PageOf(w) \in DOMAIN s.image
  BY <1>4, <1>5, <1>6 DEF PagesOf
<1>8. w \in 0 .. WORD_LIMIT - 1
  BY <1>3 DEF WordsOf
<1> QED
  BY <1>7, <1>8 DEF WordsOf

\* From any point but the last the replay takes the step of the history: the
\* image has the pages, the records have the answers.
LEMMA ReplayGoesOn ==
  ASSUME program \in Programs, NEW R, NEW first, NEW last, NEW s,
         History(R, first, last, s), Closes(last.c, s),
         NEW x \in R, x # last, NEW r, Sim(x.c, r), r.image = s.image
  PROVE  \E data :
           /\ Given(x, data, s) /\ After(x, data) \in R
           /\ Sim(After(x, data).c, Stepped(r, data))
           /\ Stepped(r, data).image = s.image
           /\ After(x, data).c.physCycles = x.c.physCycles + Spent(x.c, data)
           /\ Stepped(r, data).physCycles = r.physCycles + Spent(x.c, data)
<1>1. PICK data : Given(x, data, s) /\ After(x, data) \in R
  BY DEF History
<1> DEFINE y == After(x, data)
<1>2. y.c = Stepped(x.c, data) /\ data \in AnswersTo(x.c)
  BY <1>1 DEF After, Point, Given
<1>3. StepWords(x.c, data) \subseteq WordsOf(s.image)
  BY <1>1, PointWords
<1>4. /\ Sim(y.c, Stepped(r, data)) /\ Stepped(r, data).image = s.image
      /\ y.c.physCycles = x.c.physCycles + Spent(x.c, data)
      /\ Stepped(r, data).physCycles = r.physCycles + Spent(x.c, data)
  BY <1>2, <1>3, SimStep
<1> QED
  BY <1>1, <1>4

\* Words and pages: pages that agree in every word are equal.
LEMMA PagesFromWords ==
  ASSUME NEW P \in PageData, NEW Q \in PageData, NEW p \in Pages,
         \A w \in 0 .. WORD_LIMIT - 1 : PageOf(w) = p => P[OffsetOf(w)] = Q[OffsetOf(w)]
  PROVE  P = Q
<1> SUFFICES ASSUME NEW o \in Offsets PROVE P[o] = Q[o]
  BY DEF PageData
<1> DEFINE w == p * PAGE_SIZE_WORDS + o
<1>1. p \in Nat
  BY Geometry DEF Pages
<1>2. w \in Nat /\ PageOf(w) = p /\ OffsetOf(w) = o
  BY <1>1, WordOfPage
<1>3. w \in 0 .. WORD_LIMIT - 1
  <2> DEFINE M == MEMORY_SIZE_PAGES
             S == PAGE_SIZE_WORDS
  <2>1. M \in Nat /\ S \in Nat \ {0} /\ p \in 0 .. M - 1 /\ o \in 0 .. S - 1
    BY Geometry DEF Pages, Offsets
  <2> HIDE DEF M, S
  <2>2. p * S + o < M * S /\ M * S \in Nat
    <3>1. p * S + S = (p + 1) * S /\ p * S \in Nat
      BY <2>1, SMT
    <3>2. (p + 1) * S <= M * S /\ M * S \in Nat
      BY <2>1, SMT
    <3>3. (p + 1) * S \in Nat
      BY <2>1, SMT
    <3> QED
      BY <2>1, <3>1, <3>2, <3>3
  <2> QED
    BY <1>2, <2>2, SystemWordsAre DEF WORD_LIMIT, M, S
<1> HIDE DEF w
<1> QED
  BY <1>2, <1>3

\* A replay that reaches the last point suspends as the executor did.
LEMMA ReplayEnds ==
  ASSUME program \in Programs, NEW R, NEW first, NEW last, NEW s,
         History(R, first, last, s), Closes(last.c, s),
         NEW r, Sim(last.c, r), r.image = s.image
  PROVE  LET e == Suspend(r)
         IN  /\ e.pc = s.endPc
             /\ DOMAIN e.pager.pageCache = DOMAIN s.image
             /\ \A p \in DOMAIN s.image : /\ IsCached(e.pager, p)
                                          /\ e.pager.pageCache[p] = s.endMemory[p]
<1> DEFINE e == Suspend(r)
           E == Suspend(last.c)
<1>1. /\ IsImage(s.image) /\ SystemPage \in DOMAIN s.image
      /\ DOMAIN s.image = Cached(last.c)
      /\ \A p \in DOMAIN s.image : s.endMemory[p] = E.pager.pageCache[p]
  BY ClosedImage
<1>2. /\ IsContext(last.c) /\ DOMAIN last.c.image = Pages
      /\ IsContext(r) /\ r.pc = last.c.pc /\ Cached(r) = Cached(last.c)
  BY MemoriesAre DEF Sim, History, Begins
<1>3. Sim(E, e)
  BY <1>1, SimSuspend
<1>4. /\ e.pc = r.pc /\ e.image = s.image /\ Cached(e) = Cached(r) \cup {SystemPage}
  BY <1>1, <1>2, SuspendIs
<1>5. E.image = last.c.image
  BY <1>2, SystemWordsAre, SuspendIs
<1> HIDE DEF e, E
<1>6. Cached(e) = DOMAIN s.image /\ Cached(E) = DOMAIN s.image /\ DOMAIN s.image \subseteq Pages
  BY <1>1, <1>2, <1>3, <1>4 DEF Sim, IsImage
<1>7. /\ PagerTyped(e.image, e.pager) /\ PagerTyped(E.image, E.pager)
  BY <1>3 DEF Sim, IsContext, PagerInv
<1>8. \A p \in DOMAIN s.image : /\ IsCached(e.pager, p) /\ IsCached(E.pager, p)
                                /\ e.pager.pageCache[p] \in PageData
                                /\ E.pager.pageCache[p] \in PageData
  BY <1>6, <1>7 DEF PagerTyped, Cached
<1>9. ASSUME NEW p \in DOMAIN s.image
      PROVE  e.pager.pageCache[p] = E.pager.pageCache[p]
  <2>1. ASSUME NEW w \in 0 .. WORD_LIMIT - 1, PageOf(w) = p
        PROVE  e.pager.pageCache[p][OffsetOf(w)] = E.pager.pageCache[p][OffsetOf(w)]
    <3>1. w \in WordsOf(e.image)
      BY <1>4, <2>1 DEF WordsOf
    <3>2. Word(e, w) = Word(E, w)
      BY <1>3, <3>1 DEF Sim
    <3> QED
      BY <1>8, <2>1, <3>2 DEF Word, PagerPeek, CachedWord
  <2>2. p \in Pages
    BY <1>6
  <2> QED
    BY <1>8, <2>1, <2>2, PagesFromWords
<1>10. e.pc = s.endPc
  BY <1>2, <1>4 DEF Closes
<1> QED
  BY <1>1, <1>6, <1>8, <1>9, <1>10 DEF e, E, Cached

-----------------------------------------------------------------------------
(* Costs                                                                   *)

\* What paging in the pages read and out the pages written takes.
Cost(read, write) ==
  CYCLE_COST_EXTRA
  + CYCLE_COST_PAGE * (Cardinality(read) + Cardinality(write))
  + CYCLE_COST_MERKLE * (Cardinality(PagingNodes(read)) + Cardinality(PagingNodes(write)))

LEMMA ContextCost ==
  ASSUME NEW c, IsContext(c)
  PROVE  /\ Cached(c) \subseteq Pages /\ Dirty(c) \subseteq Cached(c)
         /\ c.pager.pagingCycles = Cost(Cached(c), Dirty(c))
<1>1. /\ IsImage(c.image) /\ PagerTyped(c.image, c.pager)
      /\ Maximal(c.pager.stateTable) /\ CostTracksTable(c.pager)
  BY DEF IsContext, PagerInv
<1>2. Cached(c) \subseteq Pages
  BY <1>1 DEF Cached, PagerTyped, IsImage
<1>3. Dirty(c) \subseteq Cached(c)
  BY DEF Cached, Dirty, DirtyPages
<1>4. /\ PagingNodes(Cached(c)) = AtLeast(c.pager.stateTable, LOADED)
      /\ PagingNodes(Dirty(c)) = AtLeast(c.pager.stateTable, DIRTY)
  BY <1>1, PagingNodesAreTabled DEF Cached, Dirty
<1>5. c.pager.pagingCycles = Cost(Cached(c), Dirty(c))
  BY <1>1, <1>4 DEF Cost, CostTracksTable, Cached, Dirty
<1> QED
  BY <1>2, <1>3, <1>5

LEMMA ProductGrows ==
  ASSUME NEW k \in Nat, NEW a \in Nat, NEW b \in Nat, a <= b
  PROVE  k * a \in Nat /\ k * b \in Nat /\ k * a <= k * b
<1>1. k * a \in Nat /\ k * (b - a) \in Nat
  BY SMT
<1>2. k * b = k * a + k * (b - a)
  BY SMT
<1> QED
  BY <1>1, <1>2

\* Sets of pages have sizes, and so have their paths.
LEMMA PageSets ==
  ASSUME NEW small, NEW large, small \subseteq large, large \subseteq Pages
  PROVE  /\ IsFiniteSet(small) /\ IsFiniteSet(large)
         /\ Cardinality(small) \in Nat /\ Cardinality(large) \in Nat
         /\ Cardinality(small) <= Cardinality(large)
         /\ Cardinality(PagingNodes(small)) \in Nat /\ Cardinality(PagingNodes(large)) \in Nat
         /\ Cardinality(Inner) \in Nat
         /\ Cardinality(PagingNodes(small)) <= Cardinality(PagingNodes(large))
         /\ Cardinality(PagingNodes(large)) <= Cardinality(Inner)
<1>1. IsFiniteSet(Pages)
  BY Geometry, FS_Interval DEF Pages
<1>2. IsFiniteSet(small) /\ IsFiniteSet(large)
  BY <1>1, FS_Subset
<1>3. IsFiniteSet(Inner)
  BY InnerFinite
<1>4. PagingNodes(small) \subseteq PagingNodes(large) /\ PagingNodes(large) \subseteq Inner
  BY DEF PagingNodes
<1>5. IsFiniteSet(PagingNodes(small)) /\ IsFiniteSet(PagingNodes(large))
  BY <1>3, <1>4, FS_Subset
<1>6. Cardinality(small) <= Cardinality(large)
  BY <1>2, FS_Subset
<1>7. Cardinality(PagingNodes(small)) <= Cardinality(PagingNodes(large))
  BY <1>4, <1>5, FS_Subset
<1>8. Cardinality(PagingNodes(large)) <= Cardinality(Inner)
  BY <1>3, <1>4, FS_Subset
<1> QED
  BY <1>2, <1>3, <1>5, <1>6, <1>7, <1>8, FS_CardinalityType

LEMMA CostGrows ==
  ASSUME NEW read, NEW read2, NEW write, NEW write2,
         read \subseteq read2, read2 \subseteq Pages,
         write \subseteq write2, write2 \subseteq Pages
  PROVE  /\ Cost(read, write) \in Nat /\ Cost(read2, write2) \in Nat
         /\ Cost(read, write) <= Cost(read2, write2)
<1> DEFINE a == Cardinality(read) + Cardinality(write)
           b == Cardinality(read2) + Cardinality(write2)
           m == Cardinality(PagingNodes(read)) + Cardinality(PagingNodes(write))
           n == Cardinality(PagingNodes(read2)) + Cardinality(PagingNodes(write2))
<1>1. a \in Nat /\ b \in Nat /\ a <= b
  BY PageSets
<1>2. m \in Nat /\ n \in Nat /\ m <= n
  BY PageSets
<1>3. /\ Cost(read, write) = CYCLE_COST_EXTRA + CYCLE_COST_PAGE * a + CYCLE_COST_MERKLE * m
      /\ Cost(read2, write2) = CYCLE_COST_EXTRA + CYCLE_COST_PAGE * b + CYCLE_COST_MERKLE * n
  BY DEF Cost
<1> HIDE DEF a, b, m, n
<1>4. /\ CYCLE_COST_PAGE * a \in Nat /\ CYCLE_COST_PAGE * b \in Nat
      /\ CYCLE_COST_PAGE * a <= CYCLE_COST_PAGE * b
  BY <1>1, CostAssumption, ProductGrows
<1>5. /\ CYCLE_COST_MERKLE * m \in Nat /\ CYCLE_COST_MERKLE * n \in Nat
      /\ CYCLE_COST_MERKLE * m <= CYCLE_COST_MERKLE * n
  BY <1>2, CostAssumption, ProductGrows
<1> QED
  BY <1>3, <1>4, <1>5, CostAssumption

\* As TraceCycles adds it up.
Emitted(phys, read, write) ==
  phys + CYCLE_COST_EXTRA
  + CYCLE_COST_PAGE * (Cardinality(read) + Cardinality(write))
  + CYCLE_COST_MERKLE * (Cardinality(PagingNodes(read)) + Cardinality(PagingNodes(write)))

LEMMA EmittedIs ==
  ASSUME NEW phys \in Nat, NEW read, NEW write, read \subseteq Pages, write \subseteq Pages
  PROVE  Emitted(phys, read, write) = phys + Cost(read, write)
<1> DEFINE a == Cardinality(read) + Cardinality(write)
           m == Cardinality(PagingNodes(read)) + Cardinality(PagingNodes(write))
<1>1. a \in Nat /\ m \in Nat
  <2>1. /\ Cardinality(read) \in Nat /\ Cardinality(PagingNodes(read)) \in Nat
        /\ Cardinality(write) \in Nat /\ Cardinality(PagingNodes(write)) \in Nat
    BY PageSets
  <2> QED
    BY <2>1
<1>2. /\ Cost(read, write) = CYCLE_COST_EXTRA + CYCLE_COST_PAGE * a + CYCLE_COST_MERKLE * m
      /\ Emitted(phys, read, write)
           = phys + CYCLE_COST_EXTRA + CYCLE_COST_PAGE * a + CYCLE_COST_MERKLE * m
  BY DEF Cost, Emitted
<1> HIDE DEF a, m
<1>3. CYCLE_COST_PAGE * a \in Nat /\ CYCLE_COST_MERKLE * m \in Nat
  BY <1>1, CostAssumption, ProductGrows
<1> QED
  BY <1>2, <1>3, CostAssumption

LEMMA UnionCount ==
  ASSUME NEW S, NEW T, IsFiniteSet(S), IsFiniteSet(T)
  PROVE  /\ IsFiniteSet(S \cup T)
         /\ Cardinality(S) \in Nat /\ Cardinality(T) \in Nat
         /\ Cardinality(S \cup T) \in Nat
         /\ Cardinality(S \cup T) <= Cardinality(S) + Cardinality(T)
<1>1. /\ IsFiniteSet(S \cup T)
      /\ Cardinality(S \cup T) = Cardinality(S) + Cardinality(T) - Cardinality(S \cap T)
  BY FS_Union
<1>2. IsFiniteSet(S \cap T)
  BY FS_Subset
<1>3. /\ Cardinality(S) \in Nat /\ Cardinality(T) \in Nat
      /\ Cardinality(S \cap T) \in Nat /\ Cardinality(S \cup T) \in Nat
  BY <1>1, <1>2, FS_CardinalityType
<1> QED
  BY <1>1, <1>3

LEMMA ThreeAtMost ==
  ASSUME NEW x, NEW y, NEW z
  PROVE  IsFiniteSet({x, y, z}) /\ Cardinality({x, y, z}) <= 3
<1>1. /\ IsFiniteSet({x}) /\ IsFiniteSet({y}) /\ IsFiniteSet({z})
      /\ Cardinality({x}) = 1 /\ Cardinality({y}) = 1 /\ Cardinality({z}) = 1
  BY FS_Singleton
<1> DEFINE S == {x} \cup {y}
<1>2. IsFiniteSet(S) /\ Cardinality(S) \in Nat /\ Cardinality(S) <= 2
  BY <1>1, UnionCount
<1> HIDE DEF S
<1>3. /\ IsFiniteSet(S \cup {z}) /\ Cardinality(S \cup {z}) \in Nat
      /\ Cardinality(S \cup {z}) <= 3
  BY <1>1, <1>2, UnionCount
<1>4. S \cup {z} = {x, y, z}
  BY DEF S
<1> QED
  BY <1>3, <1>4, Zenon

\* A few more pages add at most their own cost and that of the whole tree.
LEMMA CostOfStep ==
  ASSUME NEW read, NEW write, NEW write2, NEW S,
         read \subseteq Pages, write \subseteq write2, write2 \subseteq write \cup S,
         write \subseteq Pages, S \subseteq Pages, Cardinality(S) <= 3
  PROVE  Cost(read \cup S, write2) + 3 <= Cost(read, write) + MaxStepCost
<1> DEFINE a == Cardinality(read) + Cardinality(write)
           b == Cardinality(read \cup S) + Cardinality(write2)
           m == Cardinality(PagingNodes(read)) + Cardinality(PagingNodes(write))
           n == Cardinality(PagingNodes(read \cup S)) + Cardinality(PagingNodes(write2))
           i == Cardinality(Inner)
<1>1. read \cup S \subseteq Pages /\ write \cup S \subseteq Pages /\ write2 \subseteq Pages
  OBVIOUS
<1>2. /\ IsFiniteSet(read) /\ IsFiniteSet(write) /\ IsFiniteSet(S)
      /\ Cardinality(read) \in Nat /\ Cardinality(write) \in Nat /\ Cardinality(S) \in Nat
      /\ Cardinality(read \cup S) \in Nat /\ Cardinality(write \cup S) \in Nat
      /\ Cardinality(write2) \in Nat /\ Cardinality(write2) <= Cardinality(write \cup S)
  BY <1>1, PageSets
<1>3. /\ Cardinality(read \cup S) <= Cardinality(read) + Cardinality(S)
      /\ Cardinality(write \cup S) <= Cardinality(write) + Cardinality(S)
  BY <1>2, UnionCount
<1>4. a \in Nat /\ b \in Nat /\ b <= a + 6
  BY <1>2, <1>3
<1>5. m \in Nat /\ n \in Nat /\ i \in Nat /\ n <= m + 2 * i
  BY <1>1, PageSets
<1>6. /\ Cost(read, write) = CYCLE_COST_EXTRA + CYCLE_COST_PAGE * a + CYCLE_COST_MERKLE * m
      /\ Cost(read \cup S, write2)
           = CYCLE_COST_EXTRA + CYCLE_COST_PAGE * b + CYCLE_COST_MERKLE * n
      /\ MaxStepCost = 3 + 6 * CYCLE_COST_PAGE + 2 * i * CYCLE_COST_MERKLE
  BY DEF Cost, MaxStepCost
<1> HIDE DEF a, b, m, n, i
<1>7. /\ CYCLE_COST_PAGE * a \in Nat /\ CYCLE_COST_PAGE * b \in Nat
      /\ CYCLE_COST_PAGE * b <= CYCLE_COST_PAGE * (a + 6)
  BY <1>4, CostAssumption, ProductGrows
<1>8. CYCLE_COST_PAGE * (a + 6) = CYCLE_COST_PAGE * a + 6 * CYCLE_COST_PAGE
  BY <1>4, CostAssumption, SMT
<1>9. /\ CYCLE_COST_MERKLE * m \in Nat /\ CYCLE_COST_MERKLE * n \in Nat
      /\ CYCLE_COST_MERKLE * n <= CYCLE_COST_MERKLE * (m + 2 * i)
  <2>1. m + 2 * i \in Nat
    BY <1>5
  <2> QED
    BY <1>5, <2>1, CostAssumption, ProductGrows
<1>10. CYCLE_COST_MERKLE * (m + 2 * i) = CYCLE_COST_MERKLE * m + 2 * i * CYCLE_COST_MERKLE
  BY <1>5, CostAssumption, SMT
<1>11. 2 * i * CYCLE_COST_MERKLE \in Nat /\ 6 * CYCLE_COST_PAGE \in Nat
  BY <1>5, CostAssumption, SMT
<1> QED
  BY <1>6, <1>7, <1>8, <1>9, <1>10, <1>11, CostAssumption

\* A step costs at most MaxStepCost, its cycles included.
LEMMA StepCost ==
  ASSUME program \in Programs, NEW c, IsContext(c), c.image \in Memories,
         NEW data \in AnswersTo(c)
  PROVE  LET d == Stepped(c, data)
         IN  /\ d.physCycles \in Nat /\ d.pager.pagingCycles \in Nat
             /\ c.physCycles \in Nat /\ c.pager.pagingCycles \in Nat
             /\ MaxStepCost \in Nat
             /\ d.physCycles <= c.physCycles + 3
             /\ d.physCycles + d.pager.pagingCycles
                  <= c.physCycles + c.pager.pagingCycles + MaxStepCost
<1> DEFINE d == Stepped(c, data)
           S == PagesOf(StepWords(c, data))
<1>1. StepWords(c, data) \subseteq WordsOf(c.image)
  BY StepWordsAre
<1>2. /\ IsContext(d) /\ d.physCycles = c.physCycles + Spent(c, data)
      /\ Cached(d) = Cached(c) \cup S
      /\ Dirty(c) \subseteq Dirty(d) /\ Dirty(d) \subseteq Dirty(c) \cup S
  BY <1>1, StepIs
<1>3. S \subseteq Pages
  BY <1>1, MemoriesAre DEF PagesOf, WordsOf, IsImage
<1>4. Cardinality(S) <= 3
  <2> DEFINE x == PageOf(CODE_WORD)
             y == PageOf(REG_WORD)
             z == PageOf(Instruction(c).arg)
  <2>1. S \subseteq {x, y, z}
    BY DEF PagesOf, StepWords, DataWords
  <2> HIDE DEF S, x, y, z
  <2>2. IsFiniteSet({x, y, z}) /\ Cardinality({x, y, z}) <= 3
    BY ThreeAtMost
  <2>3. Cardinality(S) <= Cardinality({x, y, z}) /\ IsFiniteSet(S)
    BY <2>1, <2>2, FS_Subset
  <2> QED
    BY <2>2, <2>3, FS_CardinalityType
<1>5. /\ Cached(c) \subseteq Pages /\ Dirty(c) \subseteq Pages /\ Dirty(d) \subseteq Pages
      /\ Cached(d) \subseteq Pages
      /\ c.pager.pagingCycles = Cost(Cached(c), Dirty(c))
      /\ d.pager.pagingCycles = Cost(Cached(d), Dirty(d))
  BY <1>2, ContextCost
<1>6. /\ Spent(c, data) \in 1 .. 3 /\ c.physCycles \in Nat /\ d.physCycles \in Nat
  BY <1>2, SpentIs DEF IsContext
<1>7. c.pager.pagingCycles \in Nat /\ d.pager.pagingCycles \in Nat
  BY <1>5, CostGrows
<1> HIDE DEF d, S
<1>8. Cost(Cached(d), Dirty(d)) + 3 <= Cost(Cached(c), Dirty(c)) + MaxStepCost
  BY <1>2, <1>3, <1>4, <1>5, CostOfStep
<1>9. MaxStepCost \in Nat
  <2>1. Cardinality(Inner) \in Nat
    BY InnerFinite, FS_CardinalityType
  <2> DEFINE i == Cardinality(Inner)
  <2>2. i \in Nat
    BY <2>1
  <2> HIDE DEF i
  <2>3. 6 * CYCLE_COST_PAGE \in Nat /\ 2 * i * CYCLE_COST_MERKLE \in Nat
    BY <2>2, CostAssumption, SMT
  <2> QED
    BY <2>3 DEF MaxStepCost, i
<1> QED
  BY <1>2, <1>5, <1>6, <1>7, <1>8, <1>9 DEF d

-----------------------------------------------------------------------------
(* The replay                                                              *)

LEMMA WordsCanBeAccessed ==
  ASSUME program \in Programs, NEW c, IsContext(c), NEW w
  PROVE  /\ w \in WordsOf(c.image) => CanAccess(c.image, c.pager, w)
         /\ w \in Nat /\ CanAccess(c.image, c.pager, w) => w \in WordsOf(c.image)
<1>1. IsImage(c.image) /\ PagerTyped(c.image, c.pager)
  BY DEF IsContext, PagerInv
<1>2. w \in WordsOf(c.image) => CanAccess(c.image, c.pager, w)
  BY SystemWordsAre DEF WordsOf, CanAccess
<1> QED
  BY <1>1, <1>2, AccessibleWord

\* Replay r of segment s is at a point of its history, the cycles counted from
\* the segment's start, or (never with the first segment) past the last point.
Replays(r, s) ==
  /\ IsContext(r.c) /\ r.c.image = s.image
  /\ r.curRead = 0 /\ r.curWrite \in Nat
  /\ \E R, first, last :
       /\ History(R, first, last, s) /\ Closes(last.c, s)
       /\ r.k = 1 => first.c.physCycles = 0
       /\ \/ \E x \in R : /\ Sim(x.c, r.c)
                          /\ r.reads = x.reads /\ r.curWrite = x.writes
                          /\ r.c.physCycles + first.c.physCycles = x.c.physCycles
          \/ r.k # 1 /\ Dirty(last.c) \subseteq Dirty(r.c)

LEMMA SimRigid ==
  ASSUME program' = program
  PROVE  \A e, r : Sim(e, r)' <=> Sim(e, r)
BY Rigid DEF Sim

LEMMA ReplaysRigid ==
  ASSUME program' = program
  PROVE  \A r, s : Replays(r, s)' <=> Replays(r, s)
BY Rigid, HistoryRigid, SimRigid DEF Replays

LEMMA ReplaysStart ==
  ASSUME program \in Programs, NEW R, NEW first, NEW last, NEW s,
         History(R, first, last, s), Closes(last.c, s), NEW r,
         r.c = StoreWord(Resume(Context(s.image)), INPUT_WORD, 0),
         r.curRead = 0, r.curWrite = 0, r.reads = 0,
         r.k = 1 => first.c.physCycles = 0
  PROVE  Replays(r, s)
<1>1. Sim(first.c, r.c) /\ r.c.image = s.image /\ r.c.physCycles = 0
  BY ReplayBegins
<1>2. first \in R /\ first.reads = 0 /\ first.writes = 0 /\ first.c.physCycles \in Nat
  BY DEF History, IsContext
<1>3. r.c.physCycles + first.c.physCycles = first.c.physCycles
  BY <1>1, <1>2
<1> QED
  BY <1>1, <1>2, <1>3 DEF Replays, Sim

\* A turn of the replay's loop goes on to the next point, or past the last.
LEMMA ReplaysStep ==
  ASSUME program \in Programs, NEW s, Recorded(s), Len(s.readRecord) <= 1,
         NEW r, Replays(r, s), r.c.physCycles < s.suspendCycle,
         NEW data \in AnswersTo(r.c), StepWords(r.c, data) \subseteq WordsOf(s.image),
         Instruction(r.c).op = "read" => data = s.readRecord[1],
         Instruction(r.c).op = "write" => data = s.writeRecord[r.curWrite + 1],
         NEW t, t.c = Stepped(r.c, data), t.k = r.k, t.curRead = 0,
         t.reads = IF Instruction(r.c).op = "read" THEN r.reads + 1 ELSE r.reads,
         t.curWrite = IF Instruction(r.c).op = "write" THEN r.curWrite + 1 ELSE r.curWrite
  PROVE  Replays(t, s)
<1>1. PICK R, first, last :
        /\ History(R, first, last, s) /\ Closes(last.c, s)
        /\ r.k = 1 => first.c.physCycles = 0
        /\ \/ \E x \in R : /\ Sim(x.c, r.c)
                           /\ r.reads = x.reads /\ r.curWrite = x.writes
                           /\ r.c.physCycles + first.c.physCycles = x.c.physCycles
           \/ r.k # 1 /\ Dirty(last.c) \subseteq Dirty(r.c)
  BY DEF Replays
<1>2. /\ IsContext(r.c) /\ r.c.image = s.image /\ r.curWrite \in Nat
      /\ r.c.physCycles \in Nat
  BY DEF Replays, IsContext
<1>3. /\ IsContext(t.c) /\ t.c.image = s.image /\ Dirty(r.c) \subseteq Dirty(t.c)
      /\ t.c.physCycles = r.c.physCycles + Spent(r.c, data)
  BY <1>2, StepIs
<1>4. t.curRead = 0 /\ t.curWrite \in Nat
  BY <1>2
<1>5. CASE r.k # 1 /\ Dirty(last.c) \subseteq Dirty(r.c)
  <2>1. t.k # 1 /\ Dirty(last.c) \subseteq Dirty(t.c)
    BY <1>3, <1>5
  <2> QED
    BY <1>1, <1>3, <1>4, <2>1 DEF Replays
<1>6. ASSUME NEW x \in R, Sim(x.c, r.c), r.reads = x.reads, r.curWrite = x.writes,
             r.c.physCycles + first.c.physCycles = x.c.physCycles
      PROVE  Replays(t, s)
  <2>1. CASE x = last
    <3>1. last.c.physCycles = s.suspendCycle
      BY <1>1 DEF Closes
    <3>2. first.c.physCycles # 0
      BY <1>2, <1>6, <2>1, <3>1
    <3>3. t.k # 1 /\ Dirty(last.c) \subseteq Dirty(t.c)
      BY <1>1, <1>3, <1>6, <2>1, <3>2 DEF Sim
    <3> QED
      BY <1>1, <1>3, <1>4, <3>3 DEF Replays
  <2>2. CASE x # last
    <3>1. PICK d :
            /\ Given(x, d, s) /\ After(x, d) \in R
            /\ Sim(After(x, d).c, Stepped(r.c, d))
            /\ After(x, d).c.physCycles = x.c.physCycles + Spent(x.c, d)
            /\ Stepped(r.c, d).physCycles = r.c.physCycles + Spent(x.c, d)
      BY <1>1, <1>2, <1>6, <2>2, ReplayGoesOn
    <3>2. Instruction(x.c) = Instruction(r.c)
      BY <1>6 DEF Sim, Instruction
    <3>3. x.reads \in Nat /\ x.writes \in Nat
      BY <1>1 DEF History
    <3>4. Len(s.readRecord) \in Nat
      BY DEF Recorded
    <3>5. d = data
      <4>1. CASE Instruction(r.c).op = "read"
        <5>1. x.reads < Len(s.readRecord) /\ s.readRecord[x.reads + 1] = d
          BY <3>1, <3>2, <4>1 DEF Given
        <5>2. x.reads + 1 = 1
          BY <3>3, <3>4, <5>1
        <5> QED
          BY <4>1, <5>1, <5>2
      <4>2. CASE Instruction(r.c).op = "write"
        BY <1>6, <3>1, <3>2, <4>2 DEF Given
      <4>3. CASE Instruction(r.c).op \notin {"read", "write"}
        BY <3>1, <3>2, <4>3 DEF Given, AnswersTo
      <4> QED
        BY <4>1, <4>2, <4>3
    <3> DEFINE y == After(x, data)
    <3>6. /\ y \in R /\ Sim(y.c, t.c)
          /\ y.c.physCycles = x.c.physCycles + Spent(x.c, data)
          /\ t.c.physCycles = r.c.physCycles + Spent(x.c, data)
      BY <3>1, <3>5
    <3>7. t.reads = y.reads /\ t.curWrite = y.writes
      BY <1>6, <3>2 DEF After, Point
    <3>8. /\ Spent(x.c, data) \in 1 .. 3 /\ first.c.physCycles \in Nat
      BY <1>1, SpentIs DEF History, IsContext
    <3> HIDE DEF y
    <3>9. t.c.physCycles + first.c.physCycles = y.c.physCycles
      BY <1>2, <1>6, <3>6, <3>8
    <3> QED
      BY <1>1, <1>3, <1>4, <3>6, <3>7, <3>9 DEF Replays
  <2> QED
    BY <2>1, <2>2
<1> QED
  BY <1>1, <1>5, <1>6

\* The first segment's replay finds every page and every answer it needs.
LEMMA ReplaysSupplied ==
  ASSUME program \in Programs, NEW s, Recorded(s), Len(s.readRecord) <= 1,
         NEW r, Replays(r, s), r.k = 1, r.c.physCycles < s.suspendCycle
  PROVE  \E data \in AnswersTo(r.c) :
           /\ \A w \in StepWords(r.c, data) : CanAccess(r.c.image, r.c.pager, w)
           /\ Instruction(r.c).op = "read" =>
                0 < Len(s.readRecord) /\ data = s.readRecord[1]
           /\ Instruction(r.c).op = "write" => r.curWrite < Len(s.writeRecord)
<1>1. PICK R, first, last :
        /\ History(R, first, last, s) /\ Closes(last.c, s)
        /\ first.c.physCycles = 0
        /\ \E x \in R : /\ Sim(x.c, r.c)
                        /\ r.reads = x.reads /\ r.curWrite = x.writes
                        /\ r.c.physCycles + first.c.physCycles = x.c.physCycles
  BY DEF Replays
<1>2. PICK x \in R : /\ Sim(x.c, r.c)
                     /\ r.reads = x.reads /\ r.curWrite = x.writes
                     /\ r.c.physCycles + first.c.physCycles = x.c.physCycles
  BY <1>1
<1>3. r.c.physCycles \in Nat /\ IsContext(r.c) /\ r.c.image = s.image
  BY DEF Replays, IsContext
<1>4. x # last
  BY <1>1, <1>2, <1>3 DEF Closes
<1>5. PICK d : Given(x, d, s) /\ After(x, d) \in R
  BY <1>1, <1>2, <1>4 DEF History
<1>6. Instruction(x.c) = Instruction(r.c)
  BY <1>2 DEF Sim, Instruction
<1>7. d \in AnswersTo(r.c) /\ StepWords(r.c, d) = StepWords(x.c, d)
  BY <1>5, <1>6 DEF Given, AnswersTo, StepWords, DataWords
<1>8. \A w \in StepWords(r.c, d) : CanAccess(r.c.image, r.c.pager, w)
  <2>1. StepWords(x.c, d) \subseteq WordsOf(s.image)
    BY <1>1, <1>2, <1>5, PointWords
  <2> QED
    BY <1>3, <1>7, <2>1, WordsCanBeAccessed
<1>9. Instruction(r.c).op = "read" => 0 < Len(s.readRecord) /\ d = s.readRecord[1]
  <2>1. HAVE Instruction(r.c).op = "read"
  <2>2. x.reads < Len(s.readRecord) /\ s.readRecord[x.reads + 1] = d
    BY <1>5, <1>6, <2>1 DEF Given
  <2>3. x.reads \in Nat /\ Len(s.readRecord) \in Nat
    BY <1>1 DEF History, Recorded
  <2>4. x.reads + 1 = 1 /\ 0 < Len(s.readRecord)
    BY <2>2, <2>3
  <2> QED
    BY <2>2, <2>4
<1>10. Instruction(r.c).op = "write" => r.curWrite < Len(s.writeRecord)
  BY <1>2, <1>5, <1>6 DEF Given
<1> QED
  BY <1>7, <1>8, <1>9, <1>10

\* A replay that stops, stops at the last point or past it: the first segment's
\* ends as the executor suspended, and what it pages is not less than what the
\* executor had counted.
LEMMA ReplaysSuspend ==
  ASSUME program \in Programs, NEW s, Recorded(s), NEW r, Replays(r, s),
         ~ r.c.physCycles < s.suspendCycle
  PROVE  LET e == Suspend(r.c)
         IN  /\ r.k = 1 =>
                  /\ e.pc = s.endPc
                  /\ DOMAIN e.pager.pageCache = DOMAIN s.image
                  /\ \A p \in DOMAIN s.image : /\ IsCached(e.pager, p)
                                               /\ e.pager.pageCache[p] = s.endMemory[p]
                  /\ r.curWrite = Len(s.writeRecord) /\ r.reads = Len(s.readRecord)
             /\ s.suspendCycle \in Nat /\ s.pagingCycles \in Nat
             /\ Emitted(e.physCycles, DOMAIN s.image, Dirty(e)) \in Nat
             /\ Emitted(e.physCycles, DOMAIN s.image, Dirty(e))
                  >= s.suspendCycle + s.pagingCycles
<1> DEFINE e == Suspend(r.c)
<1>1. PICK R, first, last :
        /\ History(R, first, last, s) /\ Closes(last.c, s)
        /\ \/ \E x \in R : /\ Sim(x.c, r.c)
                           /\ r.reads = x.reads /\ r.curWrite = x.writes
                           /\ r.c.physCycles + first.c.physCycles = x.c.physCycles
           \/ r.k # 1 /\ Dirty(last.c) \subseteq Dirty(r.c)
  BY DEF Replays
<1>2. /\ r.c.physCycles \in Nat /\ IsContext(r.c) /\ r.c.image = s.image
      /\ first.c.physCycles \in Nat /\ IsContext(last.c) /\ last.c.physCycles \in Nat
      /\ last.c.physCycles = s.suspendCycle /\ last.c.pager.pagingCycles = s.pagingCycles
      /\ last.reads = Len(s.readRecord) /\ last.writes = Len(s.writeRecord)
  BY <1>1 DEF Replays, IsContext, History, Closes
<1>3. \/ /\ Sim(last.c, r.c)
         /\ r.reads = last.reads /\ r.curWrite = last.writes
      \/ r.k # 1 /\ Dirty(last.c) \subseteq Dirty(r.c)
  <2> SUFFICES ASSUME NEW x \in R, Sim(x.c, r.c), x # last,
                      r.c.physCycles + first.c.physCycles = x.c.physCycles
               PROVE  FALSE
    BY <1>1
  <2>1. x.c.physCycles < last.c.physCycles
    BY <1>1 DEF History
  <2> QED
    BY <1>2, <2>1
<1>4. Dirty(last.c) \subseteq Dirty(r.c)
  BY <1>3 DEF Sim
<1>5. /\ IsImage(s.image) /\ SystemPage \in DOMAIN s.image /\ DOMAIN s.image = Cached(last.c)
  BY <1>1, ClosedImage
<1>6. /\ IsContext(e) /\ e.physCycles = r.c.physCycles /\ e.image = s.image
      /\ Dirty(e) = Dirty(r.c) \cup {SystemPage}
  BY <1>2, <1>5, SuspendIs
<1>7. r.k = 1 => /\ e.pc = s.endPc
                 /\ DOMAIN e.pager.pageCache = DOMAIN s.image
                 /\ \A p \in DOMAIN s.image : /\ IsCached(e.pager, p)
                                              /\ e.pager.pageCache[p] = s.endMemory[p]
                 /\ r.curWrite = Len(s.writeRecord) /\ r.reads = Len(s.readRecord)
  BY <1>1, <1>2, <1>3, ReplayEnds
<1> HIDE DEF e
<1>8. Dirty(e) \subseteq Pages /\ DOMAIN s.image \subseteq Pages
  BY <1>5, <1>6, ContextCost DEF IsImage
<1>9. /\ s.pagingCycles = Cost(Cached(last.c), Dirty(last.c))
  BY <1>2, ContextCost
<1>10. /\ Cost(Cached(last.c), Dirty(last.c)) \in Nat
       /\ Cost(DOMAIN s.image, Dirty(e)) \in Nat
       /\ Cost(Cached(last.c), Dirty(last.c)) <= Cost(DOMAIN s.image, Dirty(e))
  <2>1. Dirty(last.c) \subseteq Dirty(e)
    BY <1>4, <1>6
  <2> QED
    BY <1>5, <1>8, <2>1, CostGrows
<1>11. e.physCycles + Cost(DOMAIN s.image, Dirty(e)) >= s.suspendCycle + s.pagingCycles
  <2>1. s.suspendCycle <= e.physCycles /\ s.suspendCycle \in Nat /\ e.physCycles \in Nat
    BY <1>2, <1>6
  <2> QED
    BY <1>9, <1>10, <2>1
<1>12. /\ Emitted(e.physCycles, DOMAIN s.image, Dirty(e))
            = e.physCycles + Cost(DOMAIN s.image, Dirty(e))
       /\ e.physCycles + Cost(DOMAIN s.image, Dirty(e)) \in Nat
  <2>1. e.physCycles \in Nat
    BY <1>2, <1>6
  <2> QED
    BY <1>8, <1>10, <2>1, EmittedIs
<1> QED
  BY <1>2, <1>6, <1>7, <1>9, <1>10, <1>11, <1>12 DEF e

-----------------------------------------------------------------------------
(* The invariant                                                           *)

\* The executor is in context c, recording segment o.
Opened(o, c) ==
  /\ Recorded(o)
  /\ \E R, first, last : /\ History(R, first, last, o) /\ last.c = c
                         /\ first.c.physCycles = o.startCycles
  /\ Word(c, INPUT_WORD) = 0

\* The k-th segment s has a history, was closed in its last context, and was
\* cut in time.
Finished(s, k) ==
  /\ Recorded(s)
  /\ \E R, first, last : /\ History(R, first, last, s) /\ Closes(last.c, s)
                         /\ k = 1 => first.c.physCycles = 0
  /\ ~ s.isTerminate => s.suspendCycle + s.pagingCycles >= threshold
  /\ \/ s.suspendCycle + s.pagingCycles < threshold + MaxStepCost
     \/ s.ranCycles <= 3

LEMMA OpenedRigid ==
  ASSUME program' = program
  PROVE  \A o, c : Opened(o, c)' <=> Opened(o, c)
BY HistoryRigid DEF Opened

LEMMA FinishedRigid ==
  ASSUME program' = program, threshold' = threshold
  PROVE  \A s, k : Finished(s, k)' <=> Finished(s, k)
BY HistoryRigid DEF Finished

LEMMA OpenedContext ==
  ASSUME NEW o, NEW c, Opened(o, c)
  PROVE  IsContext(c) /\ c.image \in Memories
BY DEF Opened, History, Begins

LEMMA OpenedAtStart ==
  ASSUME program \in Programs
  PROVE  Opened(OpenSegment(StartImage, 0), Resume(Context(StartImage)))
<1> DEFINE c == Resume(Context(StartImage))
           o == OpenSegment(StartImage, 0)
           x == Point(c, 0, 0)
<1>1. Begins(c, StartImage) /\ c.physCycles = 0
  BY BeginsAtStart
<1>2. /\ o.startMemory = StartImage /\ o.startCycles = 0
      /\ o.readRecord = <<>> /\ o.writeRecord = <<>>
  BY DEF OpenSegment
<1> HIDE DEF c, o
<1>3. History({x}, x, x, o)
  BY <1>1, <1>2, HistoryBegins
<1>4. x.c = c
  BY DEF Point
<1>5. Recorded(o)
  BY <1>2 DEF Recorded
<1>6. Word(c, INPUT_WORD) = 0
  BY <1>1, MemoriesAre, SystemWordsAre DEF Begins, SystemWords
<1> HIDE DEF x
<1>7. Opened(o, c)
  BY <1>1, <1>2, <1>3, <1>4, <1>5, <1>6 DEF Opened
<1> QED
  BY <1>7 DEF o, c

\* The executor's step.
LEMMA OpenedGrows ==
  ASSUME program \in Programs, NEW o, NEW c, Opened(o, c), NEW data \in AnswersTo(c), NEW t,
         t.startMemory = o.startMemory, t.startCycles = o.startCycles,
         t.readRecord = IF Instruction(c).op = "read"
                        THEN Append(o.readRecord, data) ELSE o.readRecord,
         t.writeRecord = IF Instruction(c).op = "write"
                         THEN Append(o.writeRecord, data) ELSE o.writeRecord
  PROVE  Opened(t, Stepped(c, data))
<1>1. PICK R, first, last : /\ History(R, first, last, o) /\ last.c = c
                            /\ first.c.physCycles = o.startCycles
  BY DEF Opened
<1> DEFINE y == After(last, data)
           R2 == R \cup {y}
<1>2. Recorded(t) /\ History(R2, first, y, t)
  BY <1>1, HistoryGrows DEF Opened
<1>3. y.c = Stepped(c, data)
  BY <1>1 DEF After, Point
<1>4. IsContext(c) /\ c.image \in Memories
  BY OpenedContext
<1>5. StepWords(c, data) \subseteq WordsOf(c.image) /\ INPUT_WORD \in WordsOf(c.image)
  BY <1>4, StepWordsAre, MemoriesAre, SystemWordsAre DEF SystemWords
<1>6. Word(Stepped(c, data), INPUT_WORD) = 0
  BY <1>4, <1>5, StepIs DEF Opened
<1> HIDE DEF y, R2
<1> QED
  BY <1>1, <1>2, <1>3, <1>6 DEF Opened

LEMMA OpenedReopens ==
  ASSUME program \in Programs, NEW o, NEW c, Opened(o, c), NEW t,
         t = OpenSegment(Committed(Suspend(c).image, Suspend(c).pager), c.physCycles)
  PROVE  /\ Opened(t, Reopened(c))
         /\ Reopened(c).physCycles = c.physCycles /\ t.startCycles = c.physCycles
<1> DEFINE d == Reopened(c)
           m == Committed(Suspend(c).image, Suspend(c).pager)
           x == Point(d, 0, 0)
<1>1. IsContext(c) /\ c.image \in Memories /\ Word(c, INPUT_WORD) = 0
  BY OpenedContext DEF Opened
<1>2. Begins(d, m) /\ d.physCycles = c.physCycles
  BY <1>1, BeginsReopened
<1>3. /\ t.startMemory = m /\ t.startCycles = c.physCycles
      /\ t.readRecord = <<>> /\ t.writeRecord = <<>>
  BY DEF OpenSegment
<1> HIDE DEF d, m
<1>4. History({x}, x, x, t)
  BY <1>2, <1>3, HistoryBegins
<1>5. x.c = d
  BY DEF Point
<1>6. Recorded(t)
  BY <1>3 DEF Recorded
<1>7. Word(d, INPUT_WORD) = 0
  BY <1>2, MemoriesAre, SystemWordsAre DEF Begins, SystemWords
<1> HIDE DEF x
<1>8. Opened(t, d)
  BY <1>2, <1>3, <1>4, <1>5, <1>6, <1>7 DEF Opened
<1> QED
  BY <1>2, <1>3, <1>8 DEF d

\* The executor closing a segment.
LEMMA OpenedCloses ==
  ASSUME program \in Programs, NEW o, NEW c, Opened(o, c), NEW k,
         k = 1 => o.startCycles = 0, NEW end \in BOOLEAN,
         ~ end => c.physCycles + c.pager.pagingCycles >= threshold,
         \/ c.physCycles + c.pager.pagingCycles < threshold + MaxStepCost
         \/ c.physCycles - o.startCycles <= 3
  PROVE  Finished(Segment(c, o, end), k)
<1> DEFINE s == Segment(c, o, end)
<1>1. PICK R, first, last : /\ History(R, first, last, o) /\ last.c = c
                            /\ first.c.physCycles = o.startCycles
  BY DEF Opened
<1>2. /\ s.image = OriginalPages(Suspend(c).image, Suspend(c).pager)
      /\ s.endMemory = Committed(Suspend(c).image, Suspend(c).pager)
      /\ s.suspendCycle = c.physCycles /\ s.pagingCycles = c.pager.pagingCycles
      /\ s.endPc = c.pc
      /\ s.readRecord = o.readRecord /\ s.writeRecord = o.writeRecord
      /\ s.startMemory = o.startMemory
      /\ s.ranCycles = c.physCycles - o.startCycles
  BY EvaluatedIs DEF Segment
<1>3. s.isTerminate = end
  BY DEF Segment
<1> HIDE DEF s
<1>4. Closes(last.c, s)
  BY <1>1, <1>2 DEF Closes
<1>5. History(R, first, last, s)
  BY <1>1, <1>2 DEF History, Given
<1>6. Recorded(s)
  BY <1>2 DEF Recorded, Opened
<1>7. k = 1 => first.c.physCycles = 0
  BY <1>1
<1>8. ~ s.isTerminate => s.suspendCycle + s.pagingCycles >= threshold
  BY <1>2, <1>3
<1>9. \/ s.suspendCycle + s.pagingCycles < threshold + MaxStepCost
      \/ s.ranCycles <= 3
  BY <1>2
<1>10. Finished(s, k)
  BY <1>4, <1>5, <1>6, <1>7, <1>8, <1>9 DEF Finished
<1> QED
  BY <1>10 DEF s

\* The executor's part of the invariant.
OpenInv ==
  /\ program \in Programs /\ threshold \in Nat
  /\ phase \in {"running", "split", "returned"}
  /\ phase # "returned" =>
       /\ Opened(open, exec)
       /\ open = [readRecord |-> open.readRecord, writeRecord |-> open.writeRecord,
                  startMemory |-> open.startMemory, startCycles |-> open.startCycles]
       /\ segments = <<>> => open.startCycles = 0
  /\ phase = "running" =>
       \/ exec.physCycles + exec.pager.pagingCycles < threshold + MaxStepCost
       \/ exec.physCycles - open.startCycles <= 3
  /\ phase = "split" => exec.physCycles = open.startCycles

SegmentsInv ==
  /\ \E S : segments \in Seq(S)
  /\ \A k \in DOMAIN segments : Finished(segments[k], k)

\* The replay's part: what SegmentsReplay and CutsInTime say of replay r of a
\* segment s, and while it runs, that it follows the segment's history.
Matches(r, s) ==
  /\ r.c.pc = s.endPc
  /\ DOMAIN r.c.pager.pageCache = DOMAIN s.image
  /\ \A p \in DOMAIN s.image :
       (IF IsCached(r.c.pager, p) THEN r.c.pager.pageCache[p] ELSE s.image[p])
         = s.endMemory[p]
  /\ r.curWrite = Len(s.writeRecord)
  /\ r.reads = Len(s.readRecord)

ReplayOf(r, s) ==
  /\ r.k = 1 => r.status # "threw"
  /\ r.status = "running" => Replays(r, s)
  /\ r.status = "suspended" =>
       /\ r.k = 1 => Matches(r, s)
       /\ ~ s.isTerminate =>
            Emitted(r.c.physCycles, DOMAIN s.image, Dirty(r.c)) >= threshold

RepInv ==
  /\ rep = [status |-> rep.status, k |-> rep.k, c |-> rep.c, curRead |-> rep.curRead,
            curWrite |-> rep.curWrite, reads |-> rep.reads]
  /\ \/ rep.status = "none" /\ rep.k = 0
     \/ /\ phase = "returned" /\ rep.k \in DOMAIN segments
        /\ rep.status \in {"running", "suspended", "threw"}
        /\ Len(segments[rep.k].readRecord) <= 1 => ReplayOf(rep, segments[rep.k])

Inv == OpenInv /\ SegmentsInv /\ RepInv

LEMMA ReplayOfRigid ==
  ASSUME program' = program, threshold' = threshold
  PROVE  \A r, s : ReplayOf(r, s)' <=> ReplayOf(r, s)
BY ReplaysRigid DEF ReplayOf

-----------------------------------------------------------------------------
(* The executor's steps                                                    *)

LEMMA StartKeeps == Init => Inv
<1> SUFFICES ASSUME Init PROVE Inv
  OBVIOUS
<1>1. /\ program \in Programs /\ threshold \in Thresholds /\ phase = "running"
      /\ segments = <<>> /\ rep = NoReplay
      /\ open = OpenSegment(StartImage, 0) /\ exec = Resume(Context(StartImage))
  BY DEF Init
<1>2. Opened(open, exec)
  BY <1>1, OpenedAtStart
<1>3. open = [readRecord |-> open.readRecord, writeRecord |-> open.writeRecord,
              startMemory |-> open.startMemory, startCycles |-> open.startCycles]
  BY <1>1 DEF OpenSegment
<1>4. open.startCycles = 0 /\ exec.physCycles = 0
  BY <1>1, BeginsAtStart DEF OpenSegment
<1>5. threshold \in Nat
  BY <1>1, SegmentsAssumption
<1>6. OpenInv
  BY <1>1, <1>2, <1>3, <1>4, <1>5 DEF OpenInv
<1>7. SegmentsInv
  BY <1>1 DEF SegmentsInv
<1>8. RepInv
  BY <1>1 DEF RepInv, NoReplay
<1> QED
  BY <1>6, <1>7, <1>8 DEF Inv

\* While the executor runs there is no replay.
LEMMA NoReplayYet ==
  ASSUME Inv, phase # "returned", rep' = rep
  PROVE  RepInv'
<1>1. rep.status = "none" /\ rep.k = 0
  BY DEF Inv, RepInv
<1> QED
  BY <1>1 DEF Inv, RepInv

LEMMA SegmentsStay ==
  ASSUME Inv, UNCHANGED <<program, threshold, segments>>
  PROVE  SegmentsInv'
<1>1. \A s, k : Finished(s, k)' <=> Finished(s, k)
  BY FinishedRigid
<1> QED
  BY <1>1 DEF Inv, SegmentsInv

\* A segment is added.
LEMMA SegmentsGrow ==
  ASSUME Inv, UNCHANGED <<program, threshold>>, NEW s, segments' = Append(segments, s),
         Finished(s, Len(segments) + 1)
  PROVE  SegmentsInv' /\ segments' # <<>>
<1>1. PICK S : segments \in Seq(S)
  BY DEF Inv, SegmentsInv
<1> DEFINE T == S \cup {s}
<1>2. segments \in Seq(T) /\ s \in T
  BY <1>1
<1> HIDE DEF T
<1>3. /\ Append(segments, s) \in Seq(T)
      /\ Len(segments) \in Nat /\ Len(Append(segments, s)) = Len(segments) + 1
      /\ \A i \in 1 .. Len(segments) : Append(segments, s)[i] = segments[i]
      /\ Append(segments, s)[Len(segments) + 1] = s
  BY <1>2, AppendIs
<1>4. \A q, k : Finished(q, k)' <=> Finished(q, k)
  BY FinishedRigid
<1>5. ASSUME NEW k \in DOMAIN segments'
      PROVE  Finished(segments'[k], k)
  <2>1. k \in 1 .. Len(segments) + 1
    BY <1>3
  <2>2. CASE k = Len(segments) + 1
    BY <1>3, <2>2
  <2>3. CASE k # Len(segments) + 1
    <3>1. k \in 1 .. Len(segments) /\ segments'[k] = segments[k]
      BY <1>3, <2>1, <2>3
    <3> QED
      BY <1>2, <3>1 DEF Inv, SegmentsInv
  <2> QED
    BY <2>2, <2>3
<1>6. segments' # <<>>
  BY <1>3
<1> QED
  BY <1>3, <1>4, <1>5, <1>6 DEF SegmentsInv

LEMMA TurnKeeps ==
  ASSUME Inv, NEW ops, AtStep(ops), NEW data \in AnswersTo(exec),
         exec' = Stepped(exec, data),
         open' = [readRecord |-> open'.readRecord, writeRecord |-> open'.writeRecord,
                  startMemory |-> open.startMemory, startCycles |-> open.startCycles],
         open'.readRecord = IF Instruction(exec).op = "read"
                            THEN Append(open.readRecord, data) ELSE open.readRecord,
         open'.writeRecord = IF Instruction(exec).op = "write"
                             THEN Append(open.writeRecord, data) ELSE open.writeRecord,
         UNCHANGED <<program, threshold, segments, rep>>
  PROVE  Inv'
<1> DEFINE t == open'
           d == exec'
<1>1. /\ program \in Programs /\ threshold \in Nat /\ phase \in {"running", "split"}
      /\ Opened(open, exec)
      /\ segments = <<>> => open.startCycles = 0
      /\ phase = "split" => exec.physCycles = open.startCycles
  BY DEF Inv, OpenInv, AtStep, Running
<1>2. t.startMemory = open.startMemory /\ t.startCycles = open.startCycles
  <2> HIDE DEF t
  <2> QED
    BY DEF t
<1>3. Opened(t, Stepped(exec, data))
  BY <1>1, <1>2, OpenedGrows
<1>4. IsContext(exec) /\ exec.image \in Memories
  BY <1>1, OpenedContext
<1>5. /\ d.physCycles \in Nat /\ d.pager.pagingCycles \in Nat
      /\ exec.physCycles \in Nat /\ exec.pager.pagingCycles \in Nat
      /\ MaxStepCost \in Nat
      /\ d.physCycles <= exec.physCycles + 3
      /\ d.physCycles + d.pager.pagingCycles
           <= exec.physCycles + exec.pager.pagingCycles + MaxStepCost
  BY <1>1, <1>4, StepCost
<1>6. phase # "split" => exec.physCycles + exec.pager.pagingCycles < threshold
  <2>1. phase # "split" => ~ Full
    BY DEF AtStep
  <2> HIDE DEF d
  <2> QED
    BY <1>1, <1>5, <2>1 DEF Full
<1>7. \/ d.physCycles + d.pager.pagingCycles < threshold + MaxStepCost
      \/ d.physCycles - t.startCycles <= 3
  <2> HIDE DEF d, t
  <2>1. CASE phase = "split"
    BY <1>1, <1>2, <1>5, <2>1
  <2>2. CASE phase # "split"
    BY <1>1, <1>5, <1>6, <2>2
  <2> QED
    BY <2>1, <2>2
<1>8. phase' = "running"
  BY DEF AtStep
<1>9. \A o, c : Opened(o, c)' <=> Opened(o, c)
  BY OpenedRigid
<1>10. OpenInv'
  BY <1>1, <1>2, <1>3, <1>7, <1>8, <1>9 DEF OpenInv
<1>11. SegmentsInv' /\ RepInv'
  <2>1. UNCHANGED <<program, threshold, segments>> /\ rep' = rep /\ phase # "returned"
    BY <1>1
  <2>2. SegmentsInv'
    BY <2>1, SegmentsStay
  <2> QED
    BY <2>1, <2>2, NoReplayYet
<1> QED
  BY <1>10, <1>11 DEF Inv

LEMMA ExecLocalKeeps ==
  ASSUME Inv, ExecLocal
  PROVE  Inv'
<1>1. /\ AtStep(Local) /\ Instruction(exec).op \in Local
      /\ exec' = LocalStep(exec)
      /\ UNCHANGED <<program, threshold, segments, open, rep>>
  BY DEF ExecLocal, AtStep
<1>2. Instruction(exec).op # "read" /\ Instruction(exec).op # "write"
  BY <1>1 DEF Local
<1>3. 0 \in AnswersTo(exec) /\ exec' = Stepped(exec, 0)
  BY <1>1, <1>2 DEF AnswersTo, Stepped
<1>4. phase # "returned"
  BY DEF ExecLocal, AtStep, Running
<1>5. open' = [readRecord |-> open'.readRecord, writeRecord |-> open'.writeRecord,
               startMemory |-> open.startMemory, startCycles |-> open.startCycles]
  BY <1>1, <1>4 DEF Inv, OpenInv
<1>6. open'.readRecord = open.readRecord /\ open'.writeRecord = open.writeRecord
  BY <1>1
<1> QED
  BY <1>1, <1>2, <1>3, <1>5, <1>6, TurnKeeps

LEMMA ExecReadKeeps ==
  ASSUME Inv, ExecRead
  PROVE  Inv'
<1>1. PICK data \in Answers : /\ exec' = ReadStep(exec, data)
                              /\ open' = [open EXCEPT !.readRecord = Append(@, data)]
  BY DEF ExecRead, Answers
<1>2. /\ AtStep({"read"}) /\ Instruction(exec).op = "read"
      /\ UNCHANGED <<program, threshold, segments, rep>>
  BY DEF ExecRead, AtStep
<1>3. data \in AnswersTo(exec) /\ exec' = Stepped(exec, data)
  BY <1>1, <1>2 DEF AnswersTo, Stepped
<1>4. phase # "returned"
  BY DEF ExecRead, AtStep, Running
<1>5. /\ open' = [readRecord |-> open'.readRecord, writeRecord |-> open'.writeRecord,
                  startMemory |-> open.startMemory, startCycles |-> open.startCycles]
      /\ open'.readRecord = Append(open.readRecord, data)
      /\ open'.writeRecord = open.writeRecord
  BY <1>1, <1>4 DEF Inv, OpenInv
<1> QED
  BY <1>2, <1>3, <1>5, TurnKeeps

LEMMA ExecWriteKeeps ==
  ASSUME Inv, ExecWrite
  PROVE  Inv'
<1>1. PICK rlen \in {0, 1} : /\ exec' = WriteStep(exec, rlen)
                             /\ open' = [open EXCEPT !.writeRecord = Append(@, rlen)]
  BY DEF ExecWrite
<1>2. /\ AtStep({"write"}) /\ Instruction(exec).op = "write"
      /\ UNCHANGED <<program, threshold, segments, rep>>
  BY DEF ExecWrite, AtStep
<1>3. rlen \in AnswersTo(exec) /\ exec' = Stepped(exec, rlen)
  BY <1>1, <1>2 DEF AnswersTo, Stepped
<1>4. phase # "returned"
  BY DEF ExecWrite, AtStep, Running
<1>5. /\ open' = [readRecord |-> open'.readRecord, writeRecord |-> open'.writeRecord,
                  startMemory |-> open.startMemory, startCycles |-> open.startCycles]
      /\ open'.readRecord = open.readRecord
      /\ open'.writeRecord = Append(open.writeRecord, rlen)
  BY <1>1, <1>4 DEF Inv, OpenInv
<1> QED
  BY <1>2, <1>3, <1>5, TurnKeeps

\* The first segment is closed before any has been.
LEMMA FirstFromStart ==
  ASSUME Inv, phase # "returned"
  PROVE  Len(segments) + 1 = 1 => open.startCycles = 0
<1>1. PICK S : segments \in Seq(S)
  BY DEF Inv, SegmentsInv
<1>2. Len(segments) + 1 = 1 => segments = <<>>
  BY <1>1
<1> QED
  BY <1>2 DEF Inv, OpenInv

LEMMA SplitKeeps ==
  ASSUME Inv, Split
  PROVE  Inv'
<1> DEFINE s == Segment(exec, open, FALSE)
           d == Reopened(exec)
           t == OpenSegment(Committed(Suspend(exec).image, Suspend(exec).pager),
                            exec.physCycles)
<1>1. /\ Full /\ phase = "running" /\ phase' = "split"
      /\ segments' = Append(segments, s) /\ exec' = d /\ open' = t
      /\ UNCHANGED <<program, threshold, rep>>
  BY DEF Split, Running
<1>2. /\ program \in Programs /\ threshold \in Nat /\ Opened(open, exec)
      /\ \/ exec.physCycles + exec.pager.pagingCycles < threshold + MaxStepCost
         \/ exec.physCycles - open.startCycles <= 3
  BY <1>1 DEF Inv, OpenInv
<1>3. exec.physCycles + exec.pager.pagingCycles >= threshold
  BY <1>1 DEF Full
<1>4. Len(segments) + 1 = 1 => open.startCycles = 0
  BY <1>1, FirstFromStart
<1>5. Finished(s, Len(segments) + 1)
  BY <1>2, <1>3, <1>4, OpenedCloses
<1>6. Opened(t, d) /\ d.physCycles = exec.physCycles /\ t.startCycles = exec.physCycles
  BY <1>2, OpenedReopens
<1>7. t = [readRecord |-> t.readRecord, writeRecord |-> t.writeRecord,
           startMemory |-> t.startMemory, startCycles |-> t.startCycles]
  BY DEF OpenSegment
<1> HIDE DEF s, d, t
<1>8. SegmentsInv' /\ segments' # <<>>
  BY <1>1, <1>5, SegmentsGrow
<1>9. \A o, c : Opened(o, c)' <=> Opened(o, c)
  BY <1>1, OpenedRigid
<1>10. Opened(open, exec)'
  BY <1>1, <1>6, <1>9
<1>11. OpenInv'
  BY <1>1, <1>2, <1>6, <1>7, <1>8, <1>10 DEF OpenInv
<1>12. RepInv'
  BY <1>1, NoReplayYet
<1> QED
  BY <1>8, <1>11, <1>12 DEF Inv

LEMMA ExecReturnKeeps ==
  ASSUME Inv, ExecReturn
  PROVE  Inv'
<1> DEFINE s == Segment(exec, open, TRUE)
<1>1. /\ phase = "running" /\ phase' = "returned"
      /\ segments' = Append(segments, s)
      /\ UNCHANGED <<program, threshold, open, rep>>
  BY DEF ExecReturn
<1>2. /\ program \in Programs /\ threshold \in Nat /\ Opened(open, exec)
      /\ \/ exec.physCycles + exec.pager.pagingCycles < threshold + MaxStepCost
         \/ exec.physCycles - open.startCycles <= 3
  BY <1>1 DEF Inv, OpenInv
<1>3. Len(segments) + 1 = 1 => open.startCycles = 0
  BY <1>1, FirstFromStart
<1>4. Finished(s, Len(segments) + 1)
  BY <1>2, <1>3, OpenedCloses
<1> HIDE DEF s
<1>5. SegmentsInv'
  BY <1>1, <1>4, SegmentsGrow
<1>6. OpenInv'
  BY <1>1, <1>2 DEF OpenInv
<1>7. RepInv'
  BY <1>1, NoReplayYet
<1> QED
  BY <1>5, <1>6, <1>7 DEF Inv

-----------------------------------------------------------------------------
(* The replay's steps                                                      *)

\* It is enough that the replay goes on as it should.
LEMMA ReplayKeeps ==
  ASSUME Inv, phase = "returned", UNCHANGED <<program, threshold, exec, segments, open, phase>>,
         NEW r, rep' = r,
         r = [status |-> r.status, k |-> r.k, c |-> r.c, curRead |-> r.curRead,
              curWrite |-> r.curWrite, reads |-> r.reads],
         r.k \in DOMAIN segments, r.status \in {"running", "suspended", "threw"},
         Len(segments[r.k].readRecord) <= 1 => ReplayOf(r, segments[r.k])
  PROVE  Inv'
<1>1. UNCHANGED <<program, threshold, segments>>
  OBVIOUS
<1>2. SegmentsInv'
  BY <1>1, SegmentsStay
<1>3. OpenInv'
  BY DEF Inv, OpenInv
<1>4. \A q, s : ReplayOf(q, s)' <=> ReplayOf(q, s)
  BY ReplayOfRigid
<1>5. RepInv'
  BY <1>4 DEF RepInv
<1> QED
  BY <1>2, <1>3, <1>5 DEF Inv

\* What is known of a replay that runs, and of its segment.
LEMMA ReplayingIs ==
  ASSUME Inv, Replaying
  PROVE  /\ program \in Programs /\ phase = "returned" /\ rep.k \in DOMAIN segments
         /\ Recorded(segments[rep.k])
         /\ rep = [status |-> "running", k |-> rep.k, c |-> rep.c, curRead |-> rep.curRead,
                   curWrite |-> rep.curWrite, reads |-> rep.reads]
         /\ Len(segments[rep.k].readRecord) <= 1 => Replays(rep, segments[rep.k])
<1>1. rep.status = "running"
  BY DEF Replaying
<1>2. phase = "returned" /\ rep.k \in DOMAIN segments
  BY <1>1 DEF Inv, RepInv
<1>3. Recorded(segments[rep.k])
  BY <1>2 DEF Inv, SegmentsInv, Finished
<1>4. Len(segments[rep.k].readRecord) <= 1 => Replays(rep, segments[rep.k])
  BY <1>1 DEF Inv, RepInv, ReplayOf
<1>5. rep = [status |-> "running", k |-> rep.k, c |-> rep.c, curRead |-> rep.curRead,
             curWrite |-> rep.curWrite, reads |-> rep.reads]
  BY <1>1 DEF Inv, RepInv
<1> QED
  BY <1>2, <1>3, <1>4, <1>5 DEF Inv, OpenInv

LEMMA ReplayStartKeeps ==
  ASSUME Inv, NEW k \in DOMAIN segments, ReplayStart(k)
  PROVE  Inv'
<1> DEFINE s == segments[k]
           r == [status |-> "running", k |-> k,
                 c |-> StoreWord(Resume(Context(segments[k].image)), INPUT_WORD, 0),
                 curRead |-> 0, curWrite |-> 0, reads |-> 0]
<1>1. /\ phase = "returned" /\ rep' = r
      /\ UNCHANGED <<program, threshold, exec, segments, open, phase>>
  BY DEF ReplayStart
<1>2. /\ r.c = StoreWord(Resume(Context(s.image)), INPUT_WORD, 0)
      /\ r.curRead = 0 /\ r.curWrite = 0 /\ r.reads = 0
      /\ r.k = k /\ r.status = "running"
      /\ r = [status |-> r.status, k |-> r.k, c |-> r.c, curRead |-> r.curRead,
              curWrite |-> r.curWrite, reads |-> r.reads]
  OBVIOUS
<1> HIDE DEF r
<1>3. PICK R, first, last : /\ History(R, first, last, s) /\ Closes(last.c, s)
                            /\ k = 1 => first.c.physCycles = 0
  BY DEF Inv, SegmentsInv, Finished
<1>4. program \in Programs
  BY DEF Inv, OpenInv
<1>5. Replays(r, s)
  BY <1>2, <1>3, <1>4, ReplaysStart
<1>6. ReplayOf(r, segments[r.k])
  BY <1>2, <1>5 DEF ReplayOf
<1> QED
  BY <1>1, <1>2, <1>6, ReplayKeeps

\* A turn that does not throw.
LEMMA ReplayTurnKeeps ==
  ASSUME Inv, Replaying, MoreCycles, NEW data,
         Supported(DataWords(rep.c, data)), NEW r, rep' = r,
         r = [status |-> "running", k |-> rep.k, c |-> Stepped(rep.c, data),
              curRead |-> rep.curRead,
              curWrite |-> IF Instruction(rep.c).op = "write"
                           THEN rep.curWrite + 1 ELSE rep.curWrite,
              reads |-> IF Instruction(rep.c).op = "read" THEN rep.reads + 1 ELSE rep.reads],
         Len(segments[rep.k].readRecord) <= 1 => data \in AnswersTo(rep.c),
         /\ Instruction(rep.c).op = "read"
         /\ Len(segments[rep.k].readRecord) <= 1
         /\ rep.curRead = 0
         => data = segments[rep.k].readRecord[1],
         Instruction(rep.c).op = "write" =>
           data = segments[rep.k].writeRecord[rep.curWrite + 1],
         UNCHANGED <<program, threshold, exec, segments, open, phase>>
  PROVE  Inv'
<1> DEFINE s == segments[rep.k]
<1>1. /\ program \in Programs /\ phase = "returned" /\ rep.k \in DOMAIN segments
      /\ Recorded(s)
  BY ReplayingIs
<1>2. /\ r.status = "running" /\ r.k = rep.k /\ r.c = Stepped(rep.c, data)
      /\ r.curRead = rep.curRead
      /\ r.reads = (IF Instruction(rep.c).op = "read" THEN rep.reads + 1 ELSE rep.reads)
      /\ r.curWrite = (IF Instruction(rep.c).op = "write"
                       THEN rep.curWrite + 1 ELSE rep.curWrite)
      /\ r = [status |-> r.status, k |-> r.k, c |-> r.c, curRead |-> r.curRead,
              curWrite |-> r.curWrite, reads |-> r.reads]
  OBVIOUS
<1>3. ASSUME Len(s.readRecord) <= 1
      PROVE  ReplayOf(r, s)
  <2>1. Replays(rep, s)
    BY <1>3, ReplayingIs
  <2>2. IsContext(rep.c) /\ rep.c.image = s.image /\ rep.curRead = 0
    BY <2>1 DEF Replays
  <2>3. rep.c.physCycles < s.suspendCycle
    BY DEF MoreCycles
  <2>4. StepWords(rep.c, data) \subseteq WordsOf(s.image)
    <3> SUFFICES ASSUME NEW w \in StepWords(rep.c, data) PROVE w \in WordsOf(s.image)
      OBVIOUS
    <3>1. CanAccess(rep.c.image, rep.c.pager, w)
      BY DEF Supported, StepWords
    <3>2. w \in Nat
      <4>1. CODE_WORD \in Nat /\ REG_WORD \in Nat
        BY SegmentsAssumption, SystemWordsAre
      <4>2. DataWords(rep.c, data) \subseteq Nat
        BY <1>1, <2>2, InstructionIs DEF DataWords
      <4> QED
        BY <4>1, <4>2 DEF StepWords
    <3> QED
      BY <1>1, <2>2, <3>1, <3>2, WordsCanBeAccessed
  <2>5. /\ data \in AnswersTo(rep.c)
        /\ Instruction(rep.c).op = "read" => data = s.readRecord[1]
        /\ Instruction(rep.c).op = "write" => data = s.writeRecord[rep.curWrite + 1]
    BY <1>3, <2>2
  <2> HIDE DEF s
  <2>6. Replays(r, s)
    BY <1>1, <1>2, <1>3, <2>1, <2>2, <2>3, <2>4, <2>5, ReplaysStep
  <2> QED
    BY <1>2, <2>6 DEF ReplayOf
<1>4. Len(segments[r.k].readRecord) <= 1 => ReplayOf(r, segments[r.k])
  BY <1>2, <1>3
<1> QED
  BY <1>1, <1>2, <1>4, ReplayKeeps

LEMMA ReplayLocalKeeps ==
  ASSUME Inv, ReplayLocal
  PROVE  Inv'
<1> DEFINE r == [rep EXCEPT !.c = LocalStep(@)]
<1>1. /\ Replaying /\ MoreCycles /\ Instruction(rep.c).op \in Local
      /\ Supported(LocalWords) /\ rep' = r
      /\ UNCHANGED <<program, threshold, exec, segments, open, phase>>
  BY DEF ReplayLocal
<1>2. Instruction(rep.c).op # "read" /\ Instruction(rep.c).op # "write"
  BY <1>1 DEF Local
<1>3. 0 \in AnswersTo(rep.c) /\ Stepped(rep.c, 0) = LocalStep(rep.c)
  BY <1>2 DEF AnswersTo, Stepped
<1>4. LocalWords = DataWords(rep.c, 0)
  BY <1>2 DEF LocalWords, DataWords
<1>5. r = [status |-> "running", k |-> rep.k, c |-> Stepped(rep.c, 0),
           curRead |-> rep.curRead,
           curWrite |-> IF Instruction(rep.c).op = "write"
                        THEN rep.curWrite + 1 ELSE rep.curWrite,
           reads |-> IF Instruction(rep.c).op = "read" THEN rep.reads + 1 ELSE rep.reads]
  BY <1>1, <1>2, <1>3, ReplayingIs
<1> HIDE DEF r
<1>6. Supported(DataWords(rep.c, 0))
  <2>1. Supported(LocalWords)
    BY <1>1
  <2> QED
    BY <1>4, <2>1
<1> QED
  BY <1>1, <1>2, <1>3, <1>5, <1>6, ReplayTurnKeeps

\* A running replay spelt out, and its fields assigned.
Turned(k, c, curRead, curWrite, reads) ==
  [status |-> "running", k |-> k, c |-> c, curRead |-> curRead,
   curWrite |-> curWrite, reads |-> reads]

ReadTurn(r, c, reads) == [r EXCEPT !.c = c, !.reads = reads]
WriteTurn(r, c, curWrite) == [r EXCEPT !.c = c, !.curWrite = curWrite]

LEMMA TurnsAre ==
  \A k, c, curRead, curWrite, reads, x, y :
    LET r == Turned(k, c, curRead, curWrite, reads)
    IN  /\ ReadTurn(r, x, y) = Turned(k, x, curRead, curWrite, y)
        /\ WriteTurn(r, x, y) = Turned(k, x, curRead, y, reads)
<1> SUFFICES ASSUME NEW k, NEW c, NEW curRead, NEW curWrite, NEW reads, NEW x, NEW y
             PROVE  LET r == Turned(k, c, curRead, curWrite, reads)
                    IN  /\ ReadTurn(r, x, y) = Turned(k, x, curRead, curWrite, y)
                        /\ WriteTurn(r, x, y) = Turned(k, x, curRead, y, reads)
  OBVIOUS
<1> DEFINE r == Turned(k, c, curRead, curWrite, reads)
<1>1. [r EXCEPT !.c = x] = Turned(k, x, curRead, curWrite, reads)
  BY DEF Turned
<1>2. [Turned(k, x, curRead, curWrite, reads) EXCEPT !.reads = y]
        = Turned(k, x, curRead, curWrite, y)
  BY DEF Turned
<1>3. [Turned(k, x, curRead, curWrite, reads) EXCEPT !.curWrite = y]
        = Turned(k, x, curRead, y, reads)
  BY DEF Turned
<1>4. /\ ReadTurn(r, x, y) = [[r EXCEPT !.c = x] EXCEPT !.reads = y]
      /\ WriteTurn(r, x, y) = [[r EXCEPT !.c = x] EXCEPT !.curWrite = y]
  BY Zenon DEF ReadTurn, WriteTurn
<1> QED
  BY <1>1, <1>2, <1>3, <1>4, Zenon

Stopped(r, c) == [r EXCEPT !.status = "suspended", !.c = c]

LEMMA StoppedIs ==
  \A k, c, curRead, curWrite, reads, x :
    Stopped(Turned(k, c, curRead, curWrite, reads), x)
      = [status |-> "suspended", k |-> k, c |-> x, curRead |-> curRead,
         curWrite |-> curWrite, reads |-> reads]
<1> SUFFICES ASSUME NEW k, NEW c, NEW curRead, NEW curWrite, NEW reads, NEW x
             PROVE  Stopped(Turned(k, c, curRead, curWrite, reads), x)
                      = [status |-> "suspended", k |-> k, c |-> x, curRead |-> curRead,
                         curWrite |-> curWrite, reads |-> reads]
  OBVIOUS
<1> DEFINE r == Turned(k, c, curRead, curWrite, reads)
           t == [status |-> "suspended", k |-> k, c |-> c, curRead |-> curRead,
                 curWrite |-> curWrite, reads |-> reads]
           u == [status |-> "suspended", k |-> k, c |-> x, curRead |-> curRead,
                 curWrite |-> curWrite, reads |-> reads]
<1>1. [r EXCEPT !.status = "suspended"] = t
  BY DEF Turned
<1>2. [t EXCEPT !.c = x] = u
  OBVIOUS
<1> HIDE DEF r, t, u
<1>3. Stopped(r, x) = [[r EXCEPT !.status = "suspended"] EXCEPT !.c = x]
  BY Zenon DEF Stopped
<1>4. Stopped(r, x) = u
  BY <1>1, <1>2, <1>3, Zenon
<1> QED
  BY <1>4, Zenon DEF r, u

LEMMA RunningIs ==
  ASSUME Inv, Replaying
  PROVE  rep = Turned(rep.k, rep.c, rep.curRead, rep.curWrite, rep.reads)
<1>1. rep = [status |-> "running", k |-> rep.k, c |-> rep.c, curRead |-> rep.curRead,
             curWrite |-> rep.curWrite, reads |-> rep.reads]
  BY ReplayingIs
<1> QED
  BY <1>1 DEF Turned

LEMMA ReplayReadKeeps ==
  ASSUME Inv, ReplayRead
  PROVE  Inv'
<1> DEFINE r == ReadTurn(rep, ReadStep(rep.c, Answer), rep.reads + 1)
           s == segments[rep.k]
<1>1. /\ Replaying /\ MoreCycles /\ Instruction(rep.c).op = "read"
      /\ HasAnswer /\ Supported(ReadWords(Answer)) /\ rep' = r
      /\ UNCHANGED <<program, threshold, exec, segments, open, phase>>
  BY Zenon DEF ReplayRead, ReadTurn
<1>2. Stepped(rep.c, Answer) = ReadStep(rep.c, Answer)
  BY <1>1 DEF Stepped
<1>3. ReadWords(Answer) = DataWords(rep.c, Answer)
  BY <1>1 DEF ReadWords, DataWords
<1>4. r = [status |-> "running", k |-> rep.k, c |-> Stepped(rep.c, Answer),
           curRead |-> rep.curRead,
           curWrite |-> IF Instruction(rep.c).op = "write"
                        THEN rep.curWrite + 1 ELSE rep.curWrite,
           reads |-> IF Instruction(rep.c).op = "read" THEN rep.reads + 1 ELSE rep.reads]
  <2>1. rep = Turned(rep.k, rep.c, rep.curRead, rep.curWrite, rep.reads)
    BY <1>1, RunningIs
  <2>2. ReadTurn(Turned(rep.k, rep.c, rep.curRead, rep.curWrite, rep.reads),
                 ReadStep(rep.c, Answer), rep.reads + 1)
          = Turned(rep.k, ReadStep(rep.c, Answer), rep.curRead, rep.curWrite, rep.reads + 1)
    BY TurnsAre
  <2>3. r = Turned(rep.k, ReadStep(rep.c, Answer), rep.curRead, rep.curWrite, rep.reads + 1)
    BY <2>1, <2>2, Zenon
  <2> HIDE DEF r
  <2> QED
    BY <1>1, <1>2, <2>3 DEF Turned
<1>5. rep.curRead = 0 => Answer = s.readRecord[1]
  BY DEF Answer
<1>6. ASSUME Len(s.readRecord) <= 1
      PROVE  Answer \in AnswersTo(rep.c)
  <2>1. rep.curRead = 0 /\ s.readRecord \in Seq(Answers)
    BY <1>1, <1>6, ReplayingIs DEF Replays, Recorded
  <2>2. 0 < Len(s.readRecord)
    BY <1>1, <2>1 DEF HasAnswer
  <2>3. s.readRecord[1] \in Answers
    BY <2>1, <2>2
  <2> QED
    BY <1>1, <1>5, <2>1, <2>3 DEF AnswersTo
<1> HIDE DEF r
<1>7. Supported(DataWords(rep.c, Answer))
  BY <1>1, <1>3
<1> QED
  BY <1>1, <1>4, <1>5, <1>6, <1>7, ReplayTurnKeeps

LEMMA ReplayWriteKeeps ==
  ASSUME Inv, ReplayWrite
  PROVE  Inv'
<1> DEFINE s == segments[rep.k]
           data == s.writeRecord[rep.curWrite + 1]
           r == WriteTurn(rep, WriteStep(rep.c, data), rep.curWrite + 1)
<1>1. /\ Replaying /\ MoreCycles /\ Instruction(rep.c).op = "write"
      /\ HasLength /\ Supported({}) /\ rep' = r
      /\ UNCHANGED <<program, threshold, exec, segments, open, phase>>
  BY Zenon DEF ReplayWrite, WriteTurn
<1>2. Stepped(rep.c, data) = WriteStep(rep.c, data)
  BY <1>1 DEF Stepped
<1>3. DataWords(rep.c, data) = {}
  BY <1>1 DEF DataWords
<1>4. Len(s.readRecord) <= 1 => data \in AnswersTo(rep.c)
  <2> HAVE Len(s.readRecord) <= 1
  <2>1. rep.curWrite \in Nat /\ s.writeRecord \in Seq({0, 1})
    BY <1>1, ReplayingIs DEF Replays, Recorded
  <2>2. rep.curWrite < Len(s.writeRecord)
    BY <1>1 DEF HasLength
  <2>3. data \in {0, 1}
    BY <2>1, <2>2
  <2> HIDE DEF data
  <2> QED
    BY <1>1, <2>3 DEF AnswersTo
<1>5. data = segments[rep.k].writeRecord[rep.curWrite + 1]
  OBVIOUS
<1> HIDE DEF data
<1>6. r = [status |-> "running", k |-> rep.k, c |-> Stepped(rep.c, data),
           curRead |-> rep.curRead,
           curWrite |-> IF Instruction(rep.c).op = "write"
                        THEN rep.curWrite + 1 ELSE rep.curWrite,
           reads |-> IF Instruction(rep.c).op = "read" THEN rep.reads + 1 ELSE rep.reads]
  <2>1. rep = Turned(rep.k, rep.c, rep.curRead, rep.curWrite, rep.reads)
    BY <1>1, RunningIs
  <2>2. WriteTurn(Turned(rep.k, rep.c, rep.curRead, rep.curWrite, rep.reads),
                  WriteStep(rep.c, data), rep.curWrite + 1)
          = Turned(rep.k, WriteStep(rep.c, data), rep.curRead, rep.curWrite + 1, rep.reads)
    BY TurnsAre
  <2>3. r = Turned(rep.k, WriteStep(rep.c, data), rep.curRead, rep.curWrite + 1, rep.reads)
    BY <2>1, <2>2, Zenon
  <2> HIDE DEF r
  <2> QED
    BY <1>1, <1>2, <2>3 DEF Turned
<1> HIDE DEF r
<1>7. Supported(DataWords(rep.c, data))
  BY <1>1, <1>3
<1> QED
  BY <1>1, <1>4, <1>5, <1>6, <1>7, ReplayTurnKeeps

\* The replay of the first segment does not throw.
LEMMA ReplayThrowKeeps ==
  ASSUME Inv, ReplayThrow
  PROVE  Inv'
<1> DEFINE s == segments[rep.k]
           r == [rep EXCEPT !.status = "threw"]
<1>1. /\ Replaying /\ MoreCycles /\ rep' = r
      /\ \/ Instruction(rep.c).op \in Local /\ ~ Supported(LocalWords)
         \/ /\ Instruction(rep.c).op = "read"
            /\ ~ (HasAnswer /\ Supported(ReadWords(Answer)))
         \/ /\ Instruction(rep.c).op = "write"
            /\ ~ (HasLength /\ Supported({}))
      /\ UNCHANGED <<program, threshold, exec, segments, open, phase>>
  BY DEF ReplayThrow
<1>2. /\ program \in Programs /\ phase = "returned" /\ rep.k \in DOMAIN segments
      /\ Recorded(s)
  BY <1>1, ReplayingIs
<1>3. /\ r.status = "threw" /\ r.k = rep.k
      /\ r = [status |-> r.status, k |-> r.k, c |-> r.c, curRead |-> r.curRead,
              curWrite |-> r.curWrite, reads |-> r.reads]
  <2>1. rep = [status |-> "running", k |-> rep.k, c |-> rep.c, curRead |-> rep.curRead,
               curWrite |-> rep.curWrite, reads |-> rep.reads]
    BY <1>1, ReplayingIs
  <2> QED
    BY <2>1
<1> HIDE DEF r
<1>4. ASSUME Len(s.readRecord) <= 1, rep.k = 1
      PROVE  FALSE
  <2>1. Replays(rep, s)
    BY <1>1, <1>4, ReplayingIs
  <2>2. rep.curRead = 0
    BY <2>1 DEF Replays
  <2>3. rep.c.physCycles < s.suspendCycle
    BY <1>1 DEF MoreCycles
  <2>4. PICK data \in AnswersTo(rep.c) :
          /\ \A w \in StepWords(rep.c, data) : CanAccess(rep.c.image, rep.c.pager, w)
          /\ Instruction(rep.c).op = "read" =>
               0 < Len(s.readRecord) /\ data = s.readRecord[1]
          /\ Instruction(rep.c).op = "write" => rep.curWrite < Len(s.writeRecord)
    <3> HIDE DEF s
    <3> QED
      BY <1>2, <1>4, <2>1, <2>3, ReplaysSupplied
  <2>5. Supported(DataWords(rep.c, data))
    BY <2>4 DEF Supported, StepWords
  <2>6. CASE Instruction(rep.c).op \in Local /\ ~ Supported(LocalWords)
    <3>1. LocalWords = DataWords(rep.c, data)
      BY <2>6 DEF LocalWords, DataWords, Local
    <3> QED
      BY <2>5, <2>6, <3>1
  <2>7. CASE Instruction(rep.c).op = "read" /\ ~ (HasAnswer /\ Supported(ReadWords(Answer)))
    <3>1. HasAnswer /\ Answer = data
      <4>1. 0 < Len(s.readRecord) /\ data = s.readRecord[1]
        BY <2>4, <2>7
      <4>2. rep.curRead + 1 = 1
        BY <2>2
      <4> QED
        BY <2>2, <4>1, <4>2 DEF HasAnswer, Answer
    <3>2. ReadWords(Answer) = DataWords(rep.c, data)
      BY <2>7, <3>1 DEF ReadWords, DataWords
    <3> QED
      BY <2>5, <2>7, <3>1, <3>2
  <2>8. CASE Instruction(rep.c).op = "write" /\ ~ (HasLength /\ Supported({}))
    <3>1. HasLength /\ DataWords(rep.c, data) = {}
      BY <2>4, <2>8 DEF HasLength, DataWords
    <3> QED
      BY <2>5, <2>8, <3>1
  <2> QED
    BY <1>1, <2>6, <2>7, <2>8
<1>5. ASSUME Len(segments[r.k].readRecord) <= 1
      PROVE  ReplayOf(r, segments[r.k])
  <2>1. r.k # 1
    BY <1>3, <1>4, <1>5
  <2>2. r.status # "running" /\ r.status # "suspended"
    <3>1. r.status = "threw"
      BY <1>3
    <3> QED
      BY <3>1
  <2> QED
    BY <2>1, <2>2 DEF ReplayOf
<1> QED
  BY <1>1, <1>2, <1>3, <1>5, ReplayKeeps

LEMMA ReplaySuspendKeeps ==
  ASSUME Inv, ReplaySuspend
  PROVE  Inv'
<1> DEFINE s == segments[rep.k]
           e == Suspend(rep.c)
           r == Stopped(rep, e)
<1>1. /\ Replaying /\ ~ MoreCycles /\ rep' = r
      /\ UNCHANGED <<program, threshold, exec, segments, open, phase>>
  BY Zenon DEF ReplaySuspend, Stopped
<1>2. /\ program \in Programs /\ phase = "returned" /\ rep.k \in DOMAIN segments
      /\ Recorded(s)
  BY <1>1, ReplayingIs
<1>3. r = [status |-> "suspended", k |-> rep.k, c |-> e, curRead |-> rep.curRead,
           curWrite |-> rep.curWrite, reads |-> rep.reads]
  <2>1. rep = Turned(rep.k, rep.c, rep.curRead, rep.curWrite, rep.reads)
    BY <1>1, RunningIs
  <2>2. Stopped(Turned(rep.k, rep.c, rep.curRead, rep.curWrite, rep.reads), e)
          = [status |-> "suspended", k |-> rep.k, c |-> e, curRead |-> rep.curRead,
             curWrite |-> rep.curWrite, reads |-> rep.reads]
    BY StoppedIs
  <2> QED
    BY <2>1, <2>2, Zenon
<1> HIDE DEF r
<1>4. /\ r.status = "suspended" /\ r.k = rep.k /\ r.c = e
      /\ r.curWrite = rep.curWrite /\ r.reads = rep.reads
      /\ r = [status |-> r.status, k |-> r.k, c |-> r.c, curRead |-> r.curRead,
              curWrite |-> r.curWrite, reads |-> r.reads]
  BY <1>3
<1>5. ASSUME Len(s.readRecord) <= 1
      PROVE  ReplayOf(r, s)
  <2>1. Replays(rep, s)
    BY <1>1, <1>5, ReplayingIs
  <2>2. ~ rep.c.physCycles < s.suspendCycle
    BY <1>1 DEF MoreCycles
  <2> HIDE DEF s
  <2>3. /\ rep.k = 1 =>
             /\ e.pc = s.endPc
             /\ DOMAIN e.pager.pageCache = DOMAIN s.image
             /\ \A p \in DOMAIN s.image : /\ IsCached(e.pager, p)
                                          /\ e.pager.pageCache[p] = s.endMemory[p]
             /\ rep.curWrite = Len(s.writeRecord) /\ rep.reads = Len(s.readRecord)
        /\ s.suspendCycle \in Nat /\ s.pagingCycles \in Nat
        /\ Emitted(e.physCycles, DOMAIN s.image, Dirty(e)) \in Nat
        /\ Emitted(e.physCycles, DOMAIN s.image, Dirty(e)) >= s.suspendCycle + s.pagingCycles
    BY <1>2, <2>1, <2>2, ReplaysSuspend
  <2>4. ~ s.isTerminate => s.suspendCycle + s.pagingCycles >= threshold
    BY <1>2 DEF Inv, SegmentsInv, Finished, s
  <2>5. threshold \in Nat
    BY DEF Inv, OpenInv
  <2> HIDE DEF e
  <2>6. ~ s.isTerminate => Emitted(r.c.physCycles, DOMAIN s.image, Dirty(r.c)) >= threshold
    BY <1>4, <2>3, <2>4, <2>5
  <2>7. r.k = 1 => Matches(r, s)
    BY <1>4, <2>3 DEF Matches
  <2> QED
    BY <1>4, <2>6, <2>7 DEF ReplayOf
<1>6. Len(segments[r.k].readRecord) <= 1 => ReplayOf(r, segments[r.k])
  BY <1>4, <1>5
<1>7. r.k \in DOMAIN segments /\ r.status \in {"running", "suspended", "threw"}
  BY <1>2, <1>4
<1> QED
  BY <1>1, <1>2, <1>4, <1>6, <1>7, ReplayKeeps

-----------------------------------------------------------------------------
(* The theorems                                                            *)

LEMMA InvHolds == Spec => []Inv
<1>1. Init => Inv
  BY StartKeeps
<1>2. Inv /\ [Next]_vars => Inv'
  <2> SUFFICES ASSUME Inv, [Next]_vars PROVE Inv'
    OBVIOUS
  <2>1. CASE Split
    BY <2>1, SplitKeeps
  <2>2. CASE ExecLocal
    BY <2>2, ExecLocalKeeps
  <2>3. CASE ExecRead
    BY <2>3, ExecReadKeeps
  <2>4. CASE ExecWrite
    BY <2>4, ExecWriteKeeps
  <2>5. CASE ExecReturn
    BY <2>5, ExecReturnKeeps
  <2>6. ASSUME NEW k \in DOMAIN segments, ReplayStart(k)
        PROVE  Inv'
    BY <2>6, ReplayStartKeeps
  <2>7. CASE ReplayLocal
    BY <2>7, ReplayLocalKeeps
  <2>8. CASE ReplayRead
    BY <2>8, ReplayReadKeeps
  <2>9. CASE ReplayWrite
    BY <2>9, ReplayWriteKeeps
  <2>10. CASE ReplayThrow
    BY <2>10, ReplayThrowKeeps
  <2>11. CASE ReplaySuspend
    BY <2>11, ReplaySuspendKeeps
  <2>12. CASE UNCHANGED vars
    <3>1. UNCHANGED <<program, threshold, exec, segments, open, phase, rep>>
      BY <2>12 DEF vars
    <3>2. SegmentsInv'
      BY <3>1, SegmentsStay
    <3>3. \A o, c : Opened(o, c)' <=> Opened(o, c)
      BY <3>1, OpenedRigid
    <3>4. OpenInv'
      BY <3>1, <3>3 DEF Inv, OpenInv
    <3>5. \A r, s : ReplayOf(r, s)' <=> ReplayOf(r, s)
      BY <3>1, ReplayOfRigid
    <3>6. RepInv'
      BY <3>1, <3>5 DEF Inv, RepInv
    <3> QED
      BY <3>2, <3>4, <3>6 DEF Inv
  <2> QED
    BY <2>1, <2>2, <2>3, <2>4, <2>5, <2>6, <2>7, <2>8, <2>9, <2>10, <2>11, <2>12
    DEF Next, ExecStep
<1> QED
  BY <1>1, <1>2, PTL DEF Spec

\* Every segment starts where its image says, and the replay of a first segment
\* with at most one host read never throws and ends as the executor did.
THEOREM SegmentsReplayHolds == Spec => []SegmentsReplay
<1>1. Inv => SegmentsReplay
  <2> SUFFICES ASSUME Inv PROVE SegmentsReplay
    OBVIOUS
  <2>1. program \in Programs
    BY DEF Inv, OpenInv
  <2>2. SegmentImageIsStart
    <3> SUFFICES ASSUME NEW k \in DOMAIN segments, NEW p \in Pages
                 PROVE  IF p \in DOMAIN segments[k].image
                        THEN segments[k].image[p] = segments[k].startMemory[p]
                        ELSE segments[k].endMemory[p] = segments[k].startMemory[p]
      BY DEF SegmentImageIsStart
    <3> DEFINE s == segments[k]
    <3>1. PICK R, first, last : History(R, first, last, s) /\ Closes(last.c, s)
      BY DEF Inv, SegmentsInv, Finished
    <3> HIDE DEF s
    <3>2. /\ \A q \in DOMAIN s.image : s.image[q] = s.startMemory[q]
          /\ \A q \in Pages \ DOMAIN s.image : s.endMemory[q] = s.startMemory[q]
      BY <2>1, <3>1, ClosedImage
    <3> QED
      BY <3>2 DEF s
  <2>3. ASSUME rep.k = 1, Len(segments[1].readRecord) <= 1
        PROVE  /\ rep.status # "threw"
               /\ rep.status = "suspended" => ReplayMatches
    <3>1. ReplayOf(rep, segments[1])
      BY <2>3 DEF Inv, RepInv
    <3>2. rep.status = "suspended" => Matches(rep, segments[1])
      BY <2>3, <3>1 DEF ReplayOf
    <3>3. Matches(rep, segments[1]) => ReplayMatches
      BY <2>3 DEF Matches, ReplayMatches
    <3>4. rep.status # "threw"
      BY <2>3, <3>1 DEF ReplayOf
    <3> QED
      BY <3>2, <3>3, <3>4
  <2> QED
    BY <2>2, <2>3 DEF SegmentsReplay
<1> QED
  BY <1>1, InvHolds, PTL

\* A segment overshoots its threshold by less than one step, and no segment with
\* at most one host read that was cut for its length is too short for the
\* preflight.
THEOREM CutsInTimeHolds == Spec => []CutsInTime
<1>1. Inv => CutsInTime
  <2> SUFFICES ASSUME Inv PROVE CutsInTime
    OBVIOUS
  <2>1. \A k \in DOMAIN segments :
          LET s == segments[k]
          IN  \/ s.suspendCycle + s.pagingCycles < threshold + MaxStepCost
              \/ s.ranCycles <= 3
    BY DEF Inv, SegmentsInv, Finished
  <2>2. ASSUME rep.status = "suspended", ~ segments[rep.k].isTerminate,
               Len(segments[rep.k].readRecord) <= 1
        PROVE  TraceCycles >= threshold
    <3> DEFINE s == segments[rep.k]
               read == DOMAIN s.image
               write == Dirty(rep.c)
    <3>1. Emitted(rep.c.physCycles, read, write) >= threshold
      BY <2>2 DEF Inv, RepInv, ReplayOf
    <3>2. TraceCycles = Emitted(rep.c.physCycles, read, write)
      BY DEF TraceCycles, Emitted, Dirty
    <3> QED
      BY <3>1, <3>2
  <2> QED
    BY <2>1, <2>2 DEF CutsInTime
<1> QED
  BY <1>1, InvHolds, PTL

=============================================================================
