# A TLA+ development for zirgen

zirgen is a compiler for arithmetic circuits together with the circuits of a
zero-knowledge virtual machine: a RISC-V machine, hash and big-integer
accelerators, and the recursion circuit that verifies proofs of all of them.
This directory models the parts whose behaviour is more than a translation of
terms: the machine and the emulators that fill in its trace, the paged memory
below it, the accelerators, the verifier, the recursion predicates, and the
encoders and evaluators for programs that run on the circuits.

Everything is written in TLA+ and checked with TLC on small instances. The
theorems about the pager, a segment's images, its replay and its trace, about the
receipts and the verifier's challenges are proved with TLAPS for every instance.
`PROJECT.json` lists the runs, the mutated definitions that show each property
can fail, the source lines of every definition, the hazards and the theorems.
Paths below are relative to `src/zirgen/`.

## 1. Inventory

| Part | What it is | State that changes over time |
|---|---|---|
| `circuit/rv32im/v2` | RISC-V machine: emulator, paging, segments, preflight, circuit, kernel | memory, caches, counters, traces |
| `circuit/rv32im/v1` | the older machine, in the embedded DSL, with its runner | rows of a circuit, memory, dirty pages |
| `circuit/keccak2`, `circuit/keccak` | hash accelerators | a control sequence, row by row |
| `circuit/recursion` | a machine for programs of Zll operations, and their encoder | write-once memory, pools of a generator |
| `circuit/verify` | the verifier of seals: Merkle trees, FRI, the constraint check | the generator's state, the position in the seal |
| `circuit/predicates` | the recursion programs on claims | the receipts made so far |
| `circuit/bigint`, `Dialect/BigInt` | big-integer programs, their types, witness, check and bytecode | pure; the v1 accelerator's rows |
| `components` | gadgets: RAM and PLONK arguments, bits, bytes, words, one-hot | rows of a circuit |
| `compiler/zkp` | hash functions and the generators drawn from them | a pool |
| `Dialect/Zll` | field operations and their interpreter | pure |
| `dsl`, `Conversions`, other dialects, `compiler` | the compilers | sequential transformations of terms |
| `risc0`, `bootstrap`, `Main` | ELF loading, field arithmetic, drivers | input and output |

### 1.1 The rv32im-v2 machine

**Pager** (`v2/emu/paging.cpp`, class `PagedMemory`). State: the page cache, a
state for every page and Merkle node, a cycle count. Operations: `load`, `peek`,
`store`, `commit`, `clear`, `getPagingCycles`, `readPaging`, `writePaging`.
Correct when the guest sees a flat memory, when the cycles charged are those
paging will take, and when `commit` returns what a proof of the segment needs.

**Memory image** (`image.cpp`). State: partial maps of pages and of digests, which
`getPage` and `getDigest` change, too: they expand zero subtrees. Correct when
every digest is that of the memory and everything asked for can be supplied.

**Executor** (`exec.cpp`). A loop: cut a segment when it is full, then one step.
Correct when the segments chain, none overflows and each replays.

**Machine context** (`r0vm.h`), **emulator** (`../shared/rv32im.h`), **kernel**
(`kernel/`). What an instruction, ecall or trap does to the context it runs in.
Correct when a user program cannot reach the kernel's memory or its mode but
through a dispatch address, when a system call returns behind its ecall, and when
each row is one the circuit accepts.

**Preflight** (`preflight.cpp`, `p2.h`). Replays a segment over the segment's own image
with the recorded host answers, records rows and memory transactions, and passes
over the transactions once more. Correct when it ends where the executor
suspended and what it records satisfies the circuit's arguments.

**Circuit** (`dsl/*.zir`). Consumes the rows: a control state machine, instruction
decoding and arithmetic, the memory argument.

```
   guest --step--> R0Context --load/store/peek--> PagedMemory --getPage/setPage--> MemoryImage
                      |                                 |
                    host I/O                          commit
                      v                                 v
                 readRecord,                    Segment{ image, records,
                 writeRecord  ----------------->   suspendCycle, isTerminate }
                                                        |
                        preflightSegment <--------------+
                              |  page-in, resume, replay, suspend, page-out, tables, last pass
                              v
                 PreflightTrace{ cycles, txns } --> runSegment, circuit
                                                        |
                                  seal --> verifier --> predicates (lift, join, resolve, union)
```

### 1.2 What makes it hard

Calls are synchronous and each context runs on one thread; there are no locks,
no messages and no persistent state, so nothing is lost, duplicated or recovered.
What makes the code hard is agreement at a distance between programs that never
meet:

* a cost is estimated step by step and must equal the cost of lists computed
  later;
* a cache and the image behind it are updated in a fixed order, and iterated in
  the unspecified order of an `unordered_map`;
* a replay in another context must stop at the same instruction, with other
  counters, an image with holes, and host answers from a record;
* a trace is laid out by C++ and must satisfy constraints written in another
  language, which look back at earlier rows;
* a program is interpreted once and encoded once, with addresses that depend on
  what was emitted before, and both must agree;
* a prover chooses hints, orders and challenges' answers, and what is accepted
  must still be true;
* the end of a buffer, of a block, of the address space; a carry, a sign, zero.

The hazards, each at its line, are in `PROJECT.json`.

## 2. Modules

```
PageTree -- Paging -- PagedMemory (refines WordMemory)
   |          |  \--- Segments -- MCSegments
   |          \------ SegmentImage -- MCSegmentImage
   |-- MemoryImage --/
   \-- PreflightTrace -- MCPreflightTrace
Platform -- Kernel -- Machine (INSTANCE Circuit) -- MCMachine        HostRead
Platform -- Circuit
Sha256 -- Keccak ------\
Sha256 -- KeccakV1 ------ MCKeccak
Folding -- BigInt -- Curve -- BigInt2
Alu, InstDecode, BigInt2 -- MCAlgorithms
Folding -- HashSuites -- Zll, Encode, RecursionCircuit -- Recursion -- MCRecursion
Folding -- Seal -- Verify
Receipts -- MCReceipts

Paging -- PagingProofs -- PagedMemoryProofs, SegmentImageProofs, SegmentsProofs,
                          PreflightTraceProofs
HostRead -- HostReadProofs    Receipts -- ReceiptsProofs    Verify -- VerifyProofs
```

A line to the right is EXTENDS, unless it says otherwise. Modules that only
define operators (passive data structures and algorithms) are composed by
modules with variables. `MC...` modules hold the values of constants that a
configuration cannot write; a module of proofs extends the module it is about and
TLAPS, and no run uses it.

### 2.1 Correspondence with the code

| Module | Code | State and steps |
|---|---|---|
| `PageTree` | `v2/emu/image.h`, `computePaging` | the geometry of pages and nodes |
| `Paging` | `paging.cpp` | a pager as a record, every method an operator |
| `PagedMemory` | `paging.cpp` over `image.cpp`, called as `exec.cpp` does | `Load`, `Peek`, `Store`, `Commit`, `Clear`, a load that throws |
| `MemoryImage` | `image.cpp` | an image as a record of partial functions |
| `SegmentImage` | `commit`, `readPaging`, `writePaging` with both images | the loops of `commit` page by page, in any order |
| `Segments` | `exec.cpp`, replay of `preflight.cpp` | a turn of `execute`'s loop, or a turn of the replay |
| `PreflightTrace` | `preflight.cpp`, `p2.h` | a turn of a paging loop (a node, a block of a page), a guest's step, the last pass |
| `Platform`, `Kernel`, `Machine` | `r0vm.h`, `rv32im.h`, `kernel/`, `p2.h` | from one row of the trace to the next |
| `Circuit` | `dsl/top.zir`, `inst_*.zir` | the rows that may follow a row |
| `HostRead` | `R0Context::doHostRead` | a slot, a byte or a block of one host read |
| `Alu`, `InstDecode` | `rv32im.h` and the circuit's arithmetic and decoding | operators, in pairs: the emulator's and the circuit's |
| `BigInt` | `Dialect/BigInt` | types, evaluation, expansion, lowering; the bytecode |
| `Curve`, `BigInt2` | `circuit/bigint`, `rv32im/v1/edsl/bigint2.cpp`, its witness in `runner.cpp` | the programs and the accelerator's rows |
| `Sha256`, `Keccak` | `circuit/keccak2` | a row of the preflight; the circuit's relation of rows |
| `KeccakV1` | `circuit/keccak` | a row of the circuit |
| `Seal`, `Verify` | `circuit/verify` | a message of the seal or a challenge |
| `Receipts` | `circuit/predicates` | a recursion program run on receipts made so far |
| `HashSuites`, `Zll`, `Encode`, `RecursionCircuit`, `Recursion` | `compiler/zkp`, `Dialect/Zll`, `circuit/recursion` | an operation of a program, interpreted, encoded, and run |

`PROJECT.json` has the lines of every definition.

### 2.2 Abstractions

* Hashes are injective constructors, except where the hash itself is the
  subject: `Sha256`, `Keccak` and `KeccakV1` compute real values at full width,
  `HashSuites` keeps every round's structure with small numbers.
* Numbers are small where only their limbs matter: `Alu` has bytes of one or two
  bits, the curve programs coefficients of four bits; the bounds of the shipped
  programs are computed at real size. The verifier's field is F_449, that of the
  recursion circuit F_769: both have the roots of unity or the byte ranges the
  code takes from Baby Bear.
* Memory is cut to the pages that play different parts; regions keep their order.
* A prover's freedom is a nondeterministic choice: hints of `Alu` and `Curve`, the
  answers of `Verify`, the order in `Receipts`, the host's answers in `HostRead`
  and `Machine`. The recursion circuit and the keccak circuits are filled in by an
  honest prover.
* Values the model does not keep (words outside `mem` in `Machine`) are read as
  any value.

## 3. Runs

| Run | States | Question |
|---|---|---|
| `pager` | 82 902 | is a pager over an image with holes a flat memory, with exact costs? |
| `segment_image` | 158 777 | are both images true through zero expansion and write-back in any order? |
| `segments` | 33 570 | does `execute` cut in time, and does a segment replay from its image and records? |
| `trace` | 240 390 | do the recorded transactions satisfy the memory and cycle arguments? |
| `host_read` | 1 736 | does a host read fill its buffer, no more, and end? |
| `machine` | 414 271 | are emulator, kernel and circuit of one mind about every row, and is the kernel safe? |
| `algorithms` | 15 802 | do pairs of algorithms that must agree, agree? |
| `keccak` | 20 364 | do both accelerators hash what they are given? |
| `receipts` | 20 822 | is every receipt true in whatever order programs are run? |
| `verify` | 8 606 | does the verifier accept the honest and reject nine deviations? |
| `recursion` | 15 301 | does a program compute in the circuit what the interpreter computes? |
| `partial_blocks` | violated | section 4 |

### 3.1 Properties

* `TypeOK`, `CacheCoherent`, `NodeStateIsMaximum`, `CostIsExact`, `SegmentCoversMemory`,
  `FlatMemory` (`PagedMemory`): the state table and the cache name the same pages; a page not
  stored to equals the image's, and after `commit` all do; a node's state is the
  maximum of its pages'; the cycles charged are those of the lists computed at
  the end; the pages and uncles `commit` returns cut every way to the root exactly
  once; the pager implements `WordMemory`.
* `FullImageIsTrue`, `PartImageIsTrue`, `NothingUnavailable` (`SegmentImage`): every
  digest known is that of the memory; the segment's image has the root before,
  and after the replay the root after; nothing asked for is missing.
* `SegmentsReplay`, `CutsInTime`, `ExecuteReturns` (`Segments`): a replay ends in the
  state the executor left; no segment overshoots by more than a step, none is cut
  too early for the preflight; `execute` returns.
* `MemoryHolds`, `CyclesCancel`, `RootOutIsTrue` (`PreflightTrace`): transactions
  chain up, a read reads the last write; each cycle difference was counted, and
  each transaction lies in its row; the root paged out is that of the memory.
* `ReadFillsBuffer`, `Returns` (`HostRead`).
* `RowsFollowCircuit`, `SyscallReturns`, `MachineModeInKernel`, `KernelUntouched`,
  `KernelReturns` (`Machine`): every row is one the circuit lets follow; a system call
  returns behind its ecall with registers kept; machine mode runs the kernel's
  text only; nothing the user asks for changes it; it always gives back control.
* `CircuitComputes`, `DecodeMatches`: the circuit's constraints leave exactly the
  emulator's result, and take an instruction word in exactly the emulator's row.
* `WitnessAccepted`, `BytecodeKeepsMeaning`, `CurveComputes`, `CurveSound`,
  `AcceleratorHolds`: values lie in the types inferred for them, the check accepts the
  witness, carries fit; a program read back evaluates alike; programs compute the
  group law, prove nothing else whatever the hints, and so does the accelerator.
* `DigestIsChain`, `RowsFollowCircuit`, `TranscriptHashed` (keccak): the digest of all
  states is the chain of their hashes; each row satisfies the circuit; the first
  accelerator accepts a transcript just when its digests are right.
* `ReceiptsHold`, `SessionProved` (`Receipts`): every receipt is true of what was
  proved; the receipt of the whole session is reached.
* `Complete`, `Sound`, `ChallengesBind` (`Verify`).
* `RunsAgree` (`Recursion`): interpreter and circuit give one verdict, the same values
  at the addresses the encoder says, and the same globals.

### 3.2 Bounds, and why they are enough

* `pager`: eight pages of two words; the image supplies two neighbours and a page
  far off, so that paths share all, some and one node. `segment_image`: four pages
  of one word: every shape of known and unknown subtrees of depth 2.
* `segments`: four pages of four words, guests of four instructions; thresholds below
  the fixed cost (every step a segment), between, and above; at most four user
  cycles. `trace`: two instructions, which is what a transaction and its
  predecessor in another row take, and images of zeros (`InitialVal`), into which
  the guest stores ones; a page is two words, so that its blocks take turns.
* `host_read`: 64 bytes; starts at every alignment, lengths that end in lead, in each
  slot of a block, and in trail; host answers below, at and above.
* `machine`: one system call after another with any registers from a set that has
  the edges of each region, in at most three segments; raw code in machine mode
  hashes and calls the host (constraint `RawInStep` keeps both sides of a raw guest
  in step). Buffers reach sixteen bytes, so that blocks of one to four words occur,
  with an unaligned start and a length that does not fit; `Answers` names the lengths a
  host may answer with. `RowsFollowCircuit` follows a run up to the first row the circuit has no
  counterpart for (`gap`): bytes, traps and a block of several words, see section 4. The
  other properties go on behind a block.
* `algorithms`: all pairs of words of four bits and edges of eight; all opcodes and
  words of one and two bits for decoding, which is linear in the bits; programs
  of four operations over loads of one and two digits; curves over F_11 (12 points)
  and F_13 (a point of order 2) with all points, all scalars below 16 and all
  forms of a coordinate in four bits; moduli 7, 11, 13, 197, 251.
* `keccak`: lists of one and two states with all their rounds; the transcript of
  `test1k.zir`, one of a two-block and a one-block message, and one with a wrong
  digest.
* `receipts`: a session of two segments, of which the second assumes the claim of a
  program proved beside it and a union of a union: `Inner` of two hashes, `Outer` of
  `Inner` and that claim. A prover may unite any receipts and never runs out of
  unions; `Wanted` names the two pairs it does unite.
* `verify`: 16 rows, a domain of 64 points, two rounds of FRI, four queries; the
  challenges are a few points, among them one in the trace domain.
* `recursion`: all programs of two operations in three suites, on a proof with small
  and large numbers, and coefficients that are any bytes, which is what the shipped
  `readCoefficients` gives (`Interpreter.cpp:48`).

### 3.3 Fairness and deadlock

`Segments`, `HostRead` and `Machine` assume weak fairness of `Next`: the code is a loop on
one thread that nothing blocks. For `Receipts` that would not do, as a prover can
unite receipts for ever; `Fairness` is of each program under each root, and of each
union by itself: a prover that is never stopped leaves out no program it can run. All
other properties are safety properties. Deadlock is not
checked where a run ends for good: the guest has halted or thrown, the list of
inputs is used up, the seal is read, an input is chosen; the pager stops after a
load that throws.

## 4. Findings and observations

`partial_blocks` shows that a host read whose last block has two or three words
scrambles them: `doHostRead` (`r0vm.h:200`) moves `ptr`, `i` and `rlen` by the words
of the block where the circuit's comment promises more words.

The circuit has its own difference there. `ECallHostReadWords` (`inst_ecall.zir:131`) has a
one-hot `doWord`: whatever the length, at most one slot is written and `count` is at most 1, for
four words or more the slot at `ptrWord + 3`. The emulator writes the whole block in
one row, so that only blocks of a single word can be proved. `Circuit` says what the
circuit does; `Machine` marks the row of a longer block as a `gap`.

Behaviour worth knowing, met while modelling, that no run is about:

* `exec.cpp:97`: a segment may overshoot by the cost of one step; `preflight.cpp:214`
  replays only the first host read of a segment right; `exec.cpp:116` marks a guest
  stopped by `maxCycles` as terminated; `preflight.cpp:139` a trap takes back
  transactions but not their effect on later ones; `r0vm.h:181` bytes written one
  after the other share a row; `r0vm.h:210` up to three trailing bytes are read again.
* Ecalls are not user cycles; the shipped kernel never fills the trap table; a
  suspended pc of 0 is indistinguishable from none; a Poseidon ecall of count 0 is
  taken by the circuit to the decoder while the emulator emits rows.
* The decoding table keeps two bits of func7 with opcode 0x73: words that are no
  instruction run as MRET.
* keccak2: with no inputs the circuit goes from Init to Read, the preflight to
  Shutdown. keccak: the product of the round bits and their complements
  (`keccak.zir:1180`) is an identity by precedence, so that the bits are not
  asserted to be bits; the model uses one-hot rows. The number of rows skipped at
  the end of padding is a free hint; wrong ones fail in the load that follows.
* BigInt: carries of four bytes are checked below 2^22, which products of 4096-bit
  numbers exceed on the LowerZll path (the accelerator's range is enough);
  `Eval.cpp:113` the search for an inverse may overflow; a negative dividend is
  read as unsigned; `decode.cpp` gives loads no minBits. `bigint2c.cpp:376` uses an op
  after erasing it; `runner.cpp:528` reads past the carries' end. `makeECSubtractTest`
  uses a label twice; `makeRepeatedECDoubleTest` doubles its input each time.
* Recursion: `ShaRng::mix` may take a stale address (`encode.cpp:987`; excluded from
  `RunsAgree` by `misplaced`); hashing nothing under SHA-256 gives address 0; the
  circuit takes a coefficient above a byte for the byte it ends in
  (`checked_bytes.cpp:85`) where the interpreter throws (`Ops.cpp:647`), which the shipped
  extern never shows; the interpreter's inverse of 0 is 0 and the circuit rejects it; `Select` trusts its
  index and even spacing; an extension element is zero-tested in its first
  component.
* Predicates: a claim's pc is taken modulo the prime (`predicates.cpp:63`); the model's
  pc is that value. An assumption's control root may be left as zeros when it is the
  condition's own (`gen_predicates.cpp:75`). `union` asks nothing of what it unites.

## 5. Proofs

| Module | Theorem | States, for every value of the constants |
|---|---|---|
| `PagedMemoryProofs` | `TypeCorrect` | the state table and the cache name the same pages |
| | `CacheIsCoherent` | `CacheCoherent` |
| | `NodeStates` | `NodeStateIsMaximum` |
| | `CostsAreExact` | `CostIsExact` |
| | `SegmentsCoverMemory` | `SegmentCoversMemory`: pages and uncles cut every path to the root once |
| | `ImplementsFlatMemory` | the pager refines `WordMemory` |
| `SegmentImageProofs` | `FullImageCommits` | `FullImageIsTrue` |
| | `PartImageCommits` | `PartImageIsTrue` |
| | `NothingIsUnavailable` | `NothingUnavailable` |
| `SegmentsProofs` | `SegmentsReplayHolds` | `SegmentsReplay` |
| | `CutsInTimeHolds` | `CutsInTime` |
| `HostReadProofs` | `HostReadCorrect` | `ReadFillsBuffer` |
| `ReceiptsProofs` | `ReceiptsAreTrue` | `ReceiptsHold` |
| `PreflightTraceProofs` | `MemoryArgumentHolds` | `MemoryHolds` |
| | `LookupsCancel` | `CyclesCancel` |
| | `RootIsTrue` | `RootOutIsTrue` |
| `VerifyProofs` | `ChallengesAreBound` | `ChallengesBind` |

`PagingProofs` (induction, the tree, every method of the pager) and the first half of
`SegmentImageProofs` (every method of the image) hold the lemmas they rest on.

### 5.1 Assumptions

* `GeometryAssumption`: pages have words, and `2 ^ (k + 1) = 2 * 2 ^ k` up to the depth.
  The provers know nothing of exponentiation; this is all they are told.
* `CostAssumption`, `AvailableAssumption`, `ZeroPageAssumption`: costs are naturals, the
  pages of an image and the page of zeros are pages.
* `ZeroDigestAssumption`: a subtree has the digest of a zero subtree only when it is
  one. This is collision-freeness of the hash, needed where `expandZero` infers
  content from a digest; TLC evaluates it for the constructors the runs use.
* `SegmentsAssumption`: words can hold every pc, the system's words are distinct and on
  one page, and a guest addresses memory, leaves the input words alone and does not run
  off its end. Every threshold, guest and bound on the cycles is covered.
* `SystemPageAssumption`: the two words of the system page are words, distinct and on one
  page, and that page is none of the guest's. Nothing is assumed of the hash functions,
  of the values of words or of what an image holds.
* `TruthAssumption`, `DigestsAssumption`: what is true is a parameter of `Receipts`. It is any
  set of claims that has the claim of every run of segments, and with a claim and a
  true assumption at the head of its list the claim without it, and any set of digests
  that has those of true claims and of proved hashes, and with two the union of them, if
  it is wanted; no digest of an output is 32 zero bytes. As the theorem holds for all
  such sets it holds for the least, which are what is meant; `MCReceipts` computes
  the least, and TLC checks that they are such sets.
* `VerifyAssumption`: of the generator, that a state gives at least one value.
* `HostReadAssumption`: the sets of arguments are addresses and a chunk fits into memory.

### 5.2 Arguments

**Pager.** `PagerInv` is inductive for `load`, `peek`, `store`, whatever image and
caller. Its parts: the cache gains a page exactly when its leaf leaves `UNLOADED`; a
page not `DIRTY` equals the image's (a store makes its leaf `DIRTY` in the same
step); a node's state is the maximum of its leaves', because raising a leaf
raises exactly the nodes of its path that are below the new state and a path has
an inner node exactly when the page lies under it; the charge is that of the
lists. `CostIsExact` is not inductive alone: a step charges the nodes newly
raised, which is the growth of the lists only if the states are the maximum.
`SegmentCoversMemory` follows: on the way from the root to a page that is not
cached, the first node without a state is its one uncle. The refinement maps a load or peek to a read, a store to a write, everything else to a stutter;
coherence makes `Clear` invisible.

**Images.** The properties of `SegmentImage` are far from inductive. The invariant
(`Inv`, which TLC checked on the instance of `MCSegmentImage` before the proof) says in
addition:

* of the full image (`Whole`): the known nodes are closed under parents, the
  sibling of a known node is known, every known digest is the memory's, and below
  a known node only zeros are missing. Without the closure a climb of
  `fixupDigests` could stop early and leave a stale digest above.
* of the part image (`Cut`): what it knows lies on or above the frontier of the
  touched pages, exactly the frontier nodes gathered so far are known, and an
  inner node is known exactly when its two children are. This is why the climb
  that ends at an unknown sibling never leaves a computable node behind, in
  whatever order the pages arrive, and why the root is there after the last.

`expandZero` goes down to a leaf through missing nodes; that it stores digests of
the memory is `ZeroDigestAssumption` read backwards.

**Segments and their replay.** A segment keeps its records and nothing of how it ran, so
an invariant over the variables alone cannot relate a replay to it. `SegmentsProofs`
supplies the run as a *history*: a set of points (a context and the numbers of answers
used so far), each but the last with a step, under an answer the records hold, to
another point of the set, later in cycles. `Inv` says that the open segment has a
history ending in the executor's context and every finished one a history ending
where it was closed; as the history is a bound variable TLC cannot evaluate it, and
checks the two properties instead. A replay is then a simulation: `Sim` relates the context of a
point to the replay's over the segment's partial image (same pc, same pages cached, same
words wherever the image has a page, at least the same pages dirty). `Sim` holds after
`resume`, is kept by each instruction because the pages it touches are cached at the
last point and so in the image, and at the last point gives the executor's suspend. A replay
of the first segment with at most one read is at a point of the history (`Replays`), hence
finds every page and answer; a later segment's may be past the last point, with no fewer
pages dirty, which is enough for `CutsInTime`. The bound on a segment's
overshoot adds up what a step can page: three pages, and at most every inner node
twice.

**The trace of a segment.** `PreflightTraceProofs` has one invariant for each phase, on
a context that is good (`Good`): its shape, its transactions in their rows; a page-in is
exactly the first transaction of its word (`Kinded`); the transactions of each word form a
chain that ends in what `prevCycle` and the memory say (`Linked`, as long as no trap
has dropped any); none is older than the one it follows (`Forward`, as long as no host
read has written bytes). Every load and store keeps these (`RecordsShape`, `RecordsLinked`,
...), whatever the phase; `Forward` needs in addition that nothing of the open
row is ahead of what may still be loaded (`Behind`).

The last pass is what makes the rest of the invariant necessary. It overwrites the value
of every transaction that has its word's last cycle, also that of a read in the same
cycle as the last one. Cancelling therefore rests on the last transaction's being alone
in its cycle whenever its word has changed, which no step can see: `Quiet` says which
words have held one value from the start (overwriting these changes nothing), and
`AloneLast` that the last transaction of each of the others is a page-out, alone in its
row. While pages are written both move with the loops (`OutAt`): a digest is first stored,
then paged out for the node above it; the words of a page are paged out block by
block; the sets `Refreshed`, `Stored` and `OutWords` say how far that is, and the order of
the loops, pages before nodes and both downwards, makes them grow only. At the end
everything stored is below a dirty page and has been paged out (`FixupAt`). The argument
then cancels because `Before`, the transaction a given one was tied to, is a
bijection: what a transaction takes from the table is what its predecessor has put there,
and the first takes what the last has put. `DigestsTrue` goes along with it: the digests that
have not been stored again are those of nodes with no dirty page below, and the root is
the last to be stored.

**Host reads.** The invariant relates the registers kept between two executions of the
ecall (`a0`, `a1`, `a2`), the position in the current one and what the host has sent;
a valid pointer and length do not wrap, which keeps every later address in the
buffer.

**Receipts.** That the claims made so far are true is not inductive: `join` needs of its
left claim that it is a run's and of its right one that it stays true when another run
is put before it, also after `resolve` has taken assumptions away. `Founded` says so: a
claim has a run behind it, is true with every run that the run continues in place of its
start, and is what its run does as long as it has no output. `join` concatenates
the runs; `resolve` commutes with putting a run before. The runs of `Runs`, which TLC
enumerates, have at most as many segments as there are; that longer ones
do nothing else is `RunsAreEnough` (a segment met twice can be met once, and there
is a shortest run by the pigeonhole principle).
A union needs no more: the digests of what it unites are true by the invariant,
under whatever roots, so that its own is one `DigestsAssumption` has among the true.

**Challenges.** `Transcript`: everything read is in the generator's state, and every value
drawn so far comes from a state less went into, or from an earlier place of
this one. `commit` after a draw and the pool's end both lengthen the state, so that
the next value is later than all before (`ValuesInOrder`, division by the pool's size).

**Induction over data** is done on sets of numbers: strict inclusion of finite sets is
well-founded (the library proves that without an operator parameter), which gives
`InductionUp` and `InductionDown` over an interval. With them what a recursive
function over a finite range computes (`ZeroDigests`, `TrueDigests`, the climb of
`fixupDigests`) is proved for every depth.

### 5.3 Only model-checked

* Liveness (`ExecuteReturns`, `Returns`, `KernelReturns`, `SessionProved`): fairness is out of
  the provers' reach.
* `Keccak`, `KeccakV1`, `HashSuites`, `Encode`, `Zll`, `Recursion`: their modules
  declare RECURSIVE operators or compute values of a fixed instance, about which a
  statement for every constant says no more than the run.
* `Complete` and `Sound` of `Verify`: computations in one field, for one circuit.
* `Machine` (`MachineModeInKernel`, `KernelUntouched`): invariants of one shipped program at
  its own addresses; a proof would go through its instructions as the run does.
* The pairs of `MCAlgorithms`: recursion over digits and programs.

## 6. Not modelled

* The compilers (`dsl/passes`, `Conversions`, the ZStruct, ZHL, ZHLT and R1CS
  dialects, `compiler/edsl`, `compiler/layout`): sequential transformations of MLIR
  terms, without state between calls.
* Code generators, exporters, drivers, ELF loading: input and output.
* The step functions of v2's trace runner are generated, and not in the repository.
* The older machine but for its bigint2 rows.
* Lookup tables and accumulator columns of the v2 circuit, the Poseidon2 rounds:
  field arithmetic on values the models do not tell apart.
