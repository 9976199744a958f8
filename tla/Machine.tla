------------------------------ MODULE Machine -------------------------------
(***************************************************************************)
(* The v2 emulator running in the preflight: RV32Emulator (shared/         *)
(* rv32im.h) steps an R0Context (emu/r0vm.h) that lays down rows through   *)
(* PreflightContext (emu/preflight.cpp), from the page-in of a segment to  *)
(* its last row, and again for the next segment.  An action is what        *)
(* happens from one row to the next.                                       *)
(*                                                                         *)
(* The guest is the kernel (Kernel) with user code below it, or any code   *)
(* started in machine mode (loadRaw).  Words the model keeps are in mem;   *)
(* every other word is read as any value, and as an instruction of the set *)
(* its code gives for that word.                                           *)
(***************************************************************************)
EXTENDS Kernel, SequencesExt

CONSTANTS
  TABLE_STEP, BYTE_VALUES, SHORT_VALUES,
  Guests,         \* {"kernel", "raw"} or one of them
  UserCode,       \* the instructions each word of the user's code may hold
  UserEntry,      \* and where it starts
  RawCode,        \* those of a guest without a kernel
  RawRegs,        \* and the registers it may start with
  Values,         \* what a word outside mem, or a computation, may yield
  PageSets,       \* the pages a segment may touch
  MaxSegments,    \* bound: the segments of a run, for each guest
  MAX_HOST,       \* 1024: the longest host read or write
  Answers         \* bound: the lengths a host may answer with, 0 among them

VARIABLES
  guest,
  mem, pc, mode, done,   \* context and R0Context
  at,                    \* where the preflight is: see Next
  todo,                  \* nodes and pages still to hash
  p2,                    \* P2State of the last row
  s,                     \* what ecallCycle recorded in the last row
  call,                  \* doHostRead's curState, ptr, rlen
  isTerminate,           \* the segment's
  row,                   \* what the last row hands on: state, pc, mode
  io,                    \* the transactions of the last row
  segment,               \* which segment
  stepped,               \* an instruction has run in this segment
  gap,                   \* why the circuit cannot follow, "" while it can
  why,                   \* what the emulator threw, "" if nothing
  entry                  \* the user's pc and registers at its last ecall

context == <<mem, pc, mode, done>>
trace   == <<p2, s, row, io>>
vars == <<guest, mem, pc, mode, done, at, todo, p2, s, call, isTerminate, row, io,
          segment, stepped, gap, why, entry>>

\* The words kept.
Kept == MACHINE_REGS_WORD .. MEMORY_SIZE_WORDS - 1

Loaded(word, val) == IF word \in Kept THEN val = mem[word] ELSE val \in Values

Stored(m, word, val) == IF word \in Kept THEN [m EXCEPT ![word] = val] ELSE m

Reg(r) == mem[Register(mode, r)]

\* Mutant: x0 is written like any register.
RegWordPlain(r) == Register(mode, r)

\* storeReg's word: what goes to x0 goes to a word of its own.
RegWord(r) == Register(mode, r) + (IF r = REG_ZERO THEN 2 * REGS ELSE 0)

\* cycleComplete, with the machine mode at that time.
Row(st, p, m, txns) ==
  /\ mode' = m
  /\ row' = [state |-> st, pc |-> p, mode |-> m]
  /\ io' = txns

Throw(reason) ==
  /\ why' = reason
  /\ at' = "threw"
  /\ UNCHANGED <<guest, segment, context, todo, trace, call, isTerminate, stepped, gap, entry>>

NoEntry == [pc |-> 0, regs |-> [r \in 1 .. REGS - 1 |-> 0]]

\* Nothing, or a block of several words, whose row only the circuit has no
\* counterpart for: the emulator goes on, and any other reason says more.
Harmless == {"", "block"}

Gap(reason) == gap' = IF gap \in Harmless THEN reason ELSE gap

-----------------------------------------------------------------------------
(* Traps                                                                   *)

\* Mutant: MEPC is the instruction to return to, as in the RISC-V manual.
EnterTrapNext(addr) ==
  /\ mem' = [mem EXCEPT ![MEPC_WORD] = (pc + 4) % U32]
  /\ pc' = addr
  /\ mode' = 1
  /\ UNCHANGED done

\* enterTrap, after which user code has lost the processor.
EnterTrap(addr) ==
  /\ mem' = [mem EXCEPT ![MEPC_WORD] = pc]
  /\ pc' = addr
  /\ mode' = 1
  /\ UNCHANGED done

KernelAddress(addr) == addr % 4 = 0 /\ addr >= 4 * KERNEL_START_WORD

\* doTrap: the row's transactions are dropped, and trap() records no row.
DoTrap(cause) ==
  LET target == mem[TRAP_DISPATCH_WORD + cause]
  IN  CASE ~KernelAddress(target) -> Throw("trap address")
        [] KernelAddress(target) /\ mode = 1 -> Throw("trap in machine mode")
        [] OTHER ->
             /\ EnterTrap(target)
             /\ Gap("trap")
             /\ UNCHANGED <<guest, segment, at, todo, trace, call, isTerminate, stepped, why, entry>>

ADDRESS_MISALIGNED       == 0
INSTRUCTION_ACCESS_FAULT == 1
ILLEGAL_INSTRUCTION      == 2
BREAKPOINT               == 3
LOAD_ADDRESS_MISALIGNED  == 4
LOAD_ACCESS_FAULT        == 5
STORE_ADDRESS_MISALIGNED == 6
STORE_ACCESS_FAULT       == 7
ENVIRONMENT_CALL_FROM_U_MODE == 8

-----------------------------------------------------------------------------
(* One instruction: RV32Emulator::step                                     *)

InText(addr) == addr \div 4 \in DOMAIN Text

CheckInstLoad == /\ pc \div 4 >= ZERO_PAGE_END_WORD
                 /\ mode = 1 \/ pc \div 4 < KERNEL_START_WORD

CheckData(addr) == mode = 1 \/ addr \div 4 \in ZERO_PAGE_END_WORD .. KERNEL_START_WORD - 1

Code ==
  LET word == pc \div 4
      text == IF guest = "raw" THEN RawCode ELSE UserCode
  IN  CASE guest = "kernel" /\ InText(pc)                         -> {Text[word]}
        [] ~(guest = "kernel" /\ InText(pc)) /\ word \in DOMAIN text -> text[word]
        [] OTHER                                                  -> {Illegal}

Fetch(inst) == R(pc \div 4, inst)
RegRead(r)  == R(Register(mode, r), Reg(r))

\* endNormal: the row of an ordinary instruction.
EndNormal(newPC, m, txns) ==
  /\ pc' = newPC
  /\ stepped' = TRUE
  /\ Row("decode", newPC, m, txns)

\* stepMisc, stepMul and stepDiv; "any" is an instruction whose result does
\* not matter.
StepMisc(inst) ==
  LET rs1    == Reg(inst.rs1)
      rs2    == Reg(inst.rs2)
      branch == inst.op \in {"bne", "bltu", "bgeu"}
      taken  == CASE inst.op = "bne"  -> rs1 # rs2
                  [] inst.op = "bltu" -> rs1 < rs2
                  [] inst.op = "bgeu" -> rs1 >= rs2
                  [] OTHER            -> FALSE
      newPC  == CASE taken            -> (pc + inst.imm) % U32
                  [] inst.op = "jalr" -> (rs1 + inst.imm) % U32
                  [] OTHER            -> (pc + 4) % U32
      rd     == RegWord(IF branch THEN REG_ZERO ELSE inst.rd)
  IN  IF newPC % 4 # 0 THEN DoTrap(ADDRESS_MISALIGNED)
      ELSE \E out \in CASE inst.op = "li"   -> {inst.imm}
                        [] inst.op = "add"  -> {(rs1 + rs2) % U32}
                        [] inst.op = "jalr" -> {(pc + 4) % U32}
                        [] inst.op = "any"  -> Values
                        [] branch           -> {0} :
             /\ mem' = Stored(mem, rd, out)
             /\ EndNormal(newPC, mode, <<Fetch(inst), RegRead(inst.rs1), RegRead(inst.rs2), W(rd, out)>>)
             /\ UNCHANGED <<guest, segment, done, at, todo, p2, s, call, isTerminate, gap, why, entry>>

Address(inst) == (Reg(inst.rs1) + inst.imm) % U32

\* In machine mode the emulator has no zero page, the circuit does.
GapIfZeroPage(addr) ==
  IF addr \div 4 < ZERO_PAGE_END_WORD THEN Gap("zero page") ELSE UNCHANGED gap

StepLoad(inst) ==
  LET addr == Address(inst)
      word == addr \div 4
  IN  CASE ~CheckData(addr) -> DoTrap(LOAD_ACCESS_FAULT)
        [] CheckData(addr) /\ addr % 4 # 0 -> DoTrap(LOAD_ADDRESS_MISALIGNED)
        [] OTHER ->
             \E data \in Values \cup (IF word \in Kept THEN {mem[word]} ELSE {}) :
               /\ Loaded(word, data)
               /\ mem' = Stored(mem, RegWord(inst.rd), data)
               /\ EndNormal((pc + 4) % U32, mode, <<Fetch(inst), RegRead(inst.rs1), R(word, data),
                                              W(RegWord(inst.rd), data)>>)
               /\ GapIfZeroPage(addr)
               /\ UNCHANGED <<guest, segment, done, at, todo, p2, s, call, isTerminate, why, entry>>

StepStore(inst) ==
  LET addr == Address(inst)
      word == addr \div 4
      rs2  == Reg(inst.rs2)
      old  == IF word \in Kept THEN mem[word] ELSE 0
  IN  CASE ~CheckData(addr) -> DoTrap(STORE_ACCESS_FAULT)
        [] CheckData(addr) /\ addr % 4 # 0 -> DoTrap(STORE_ADDRESS_MISALIGNED)
        [] OTHER ->
             /\ mem' = Stored(mem, word, rs2)
             /\ EndNormal((pc + 4) % U32, mode, <<Fetch(inst), RegRead(inst.rs1), RegRead(inst.rs2),
                                            R(word, old), W(word, rs2)>>)
             /\ GapIfZeroPage(addr)
             /\ UNCHANGED <<guest, segment, done, at, todo, p2, s, call, isTerminate, why, entry>>

\* doUserECALL.  entry is taken here, where the user hands over.
DoUserECALL(inst) ==
  LET dispatch == Reg(REG_A7)
      target   == mem[ECALL_DISPATCH_WORD + dispatch]
  IN  IF dispatch >= MAX_ECALL \/ ~KernelAddress(target)
      THEN DoTrap(ENVIRONMENT_CALL_FROM_U_MODE)
      ELSE /\ EnterTrap(target)
           /\ stepped' = TRUE
           /\ Row("decode", target, 1, <<Fetch(inst), RegRead(REG_A7),
                                      R(ECALL_DISPATCH_WORD + dispatch, target), W(MEPC_WORD, pc)>>)
           /\ entry' = [pc |-> pc, regs |-> [r \in 1 .. REGS - 1 |-> Reg(r)]]
           /\ UNCHANGED <<guest, segment, at, todo, p2, s, call, isTerminate, gap, why>>

DoMRET(inst) ==
  IF mode = 0 THEN Throw("mret in user mode")
  ELSE /\ EndNormal((mem[MEPC_WORD] + 4) % U32, 0, <<Fetch(inst), R(MEPC_WORD, mem[MEPC_WORD])>>)
       /\ IF inst.op = "mret" THEN UNCHANGED gap ELSE Gap("not quite mret")
       /\ entry' = NoEntry
       /\ UNCHANGED <<guest, segment, mem, done, at, todo, p2, s, call, isTerminate, why>>

\* What ecallCycle records.
ECallCycle(next, p, regs, txns) ==
  /\ s' = regs
  /\ pc' = p
  /\ stepped' = TRUE
  /\ Row(next, p, mode, txns)
  /\ UNCHANGED <<guest, segment, p2, isTerminate, why, entry>>

Plus4 == (pc + 4) % U32

\* doMachineECALL: the row of the ecall itself.
DoMachineECALL(inst) ==
  LET which == Reg(REG_A7)
  IN  IF which \notin 0 .. 3 THEN Throw("unimplemented machine ECALL")
      ELSE /\ ECallCycle(<<"terminate", "host read setup", "host write",
                           "poseidon entry">>[which + 1],
                         IF which = HOST_ECALL_POSEIDON2 THEN Plus4 ELSE pc, <<0, 0, 0>>,
                         <<Fetch(inst), RegRead(REG_A7)>>)
           /\ at' = <<"terminate", "host read setup", "host write",
                      "poseidon entry">>[which + 1]
           /\ UNCHANGED <<mem, done, todo, call, gap>>

\* RV32Emulator::step.
Step ==
  /\ at = "run" /\ ~done
  /\ IF ~CheckInstLoad THEN DoTrap(INSTRUCTION_ACCESS_FAULT)
     ELSE \E inst \in Code :
       CASE inst.op \in {"li", "add", "any", "bne", "bltu", "bgeu", "jalr"} -> StepMisc(inst)
         [] inst.op = "lw"                   -> StepLoad(inst)
         [] inst.op = "sw"                   -> StepStore(inst)
         [] inst.op = "ecall" /\ mode = 1    -> DoMachineECALL(inst)
         [] inst.op = "ecall" /\ mode = 0    -> DoUserECALL(inst)
         [] inst.op = "ebreak"               -> DoTrap(BREAKPOINT)
         [] inst.op \in {"mret", "wfi"}      -> DoMRET(inst)
         [] inst.op = "illegal"              -> DoTrap(ILLEGAL_INSTRUCTION)

-----------------------------------------------------------------------------
(* The rows of a machine ecall after its first                             *)

DoTerminate ==
  /\ at = "terminate"
  /\ done' = TRUE
  /\ ECallCycle("suspend", pc, <<0, 0, 0>>,
                <<R(USER_REGS_WORD + REG_A0, mem[USER_REGS_WORD + REG_A0]),
                  R(USER_REGS_WORD + REG_A1, mem[USER_REGS_WORD + REG_A1])>>)
  /\ at' = "run"
  /\ UNCHANGED <<mem, todo, call, gap>>

\* nextState
NextState(ptr, rlen) ==
  CASE rlen = 0                                -> "decode"
    [] rlen # 0 /\ (ptr % 4 # 0 \/ rlen < 4)   -> "host read bytes"
    [] OTHER                                   -> "host read words"

HostArgs == <<RegRead(REG_A0), RegRead(REG_A1), RegRead(REG_A2)>>
HostPtr  == Reg(REG_A1)
HostLen  == Reg(REG_A2)

Wraps(ptr, len) == (ptr + len) % U32 < ptr

\* doHostRead up to its second row.  Bytes it copies before a word boundary
\* have no row, and the circuit takes words wherever it can.
DoHostReadSetup ==
  /\ at = "host read setup"
  /\ CASE Wraps(HostPtr, HostLen) -> Throw("wrapping host read")
       [] ~Wraps(HostPtr, HostLen) /\ HostLen > MAX_HOST -> Throw("large host read")
       [] OTHER ->
            \E rlen \in Answers \cap 0 .. HostLen :
              LET next == NextState(HostPtr, rlen)
              IN  /\ mem' = [mem EXCEPT ![Register(mode, REG_A0)] = rlen]
                  /\ ECallCycle(next, IF rlen = 0 THEN Plus4 ELSE pc,
                                <<HostPtr \div 4, HostPtr % 4, rlen>>,
                                Append(HostArgs, W(Register(mode, REG_A0), rlen)))
                  /\ call' = [ptr |-> HostPtr, rlen |-> rlen]
                  /\ at' = IF next = "decode" THEN "run" ELSE "host read words"
                  /\ IF next = "host read bytes" THEN Gap("bytes") ELSE UNCHANGED gap
                  /\ UNCHANGED <<done, todo>>

\* One turn of the loop that copies words: ptr moves by the number of words
\* of the block in each of its four slots.  Bytes have no row, and the circuit
\* writes and moves by one word only.
DoHostReadWords ==
  /\ at = "host read words"
  /\ LET words == IF call.rlen \div 4 < 4 THEN call.rlen \div 4 ELSE 4
         ptr   == call.ptr + 4 * words
         rlen  == call.rlen - 4 * words
         slot(k) == IF k <= words THEN (call.ptr + (k - 1) * words) \div 4
                    ELSE SAFE_WRITE_WORD
         next  == NextState(ptr, rlen)
     IN  IF call.rlen >= 4 /\ call.ptr % 4 = 0
         THEN /\ \E data \in Values :
                   /\ mem' = [w \in Kept |->
                               IF w = SAFE_WRITE_WORD /\ words < 4 THEN 0
                               ELSE IF \E k \in 1 .. words : slot(k) = w THEN data ELSE mem[w]]
                   /\ ECallCycle(next, IF rlen = 0 THEN Plus4 ELSE pc,
                                 <<ptr \div 4, ptr % 4, rlen>>,
                                 [k \in 1 .. 4 |-> W(slot(k), IF k <= words THEN data ELSE 0)])
              /\ call' = [ptr |-> ptr, rlen |-> rlen]
              /\ at' = IF next = "host read words" THEN at ELSE "run"
              /\ CASE next = "host read bytes"               -> Gap("bytes")
                   [] next # "host read bytes" /\ words > 1  -> Gap("block")
                   [] OTHER                                  -> UNCHANGED gap
              /\ UNCHANGED <<done, todo>>
         ELSE /\ IF call.rlen > 0 /\ call.ptr % 4 # 0
                 THEN LET toWord == 4 - (call.ptr % 4)
                          n == IF call.rlen < toWord THEN call.rlen ELSE toWord
                      IN  /\ call' = [ptr |-> call.ptr + n, rlen |-> call.rlen - n]
                          /\ \E data \in Values : mem' = Stored(mem, call.ptr \div 4, data)
                          /\ at' = at
                 ELSE at' = "run" /\ UNCHANGED <<call, mem>>
              /\ UNCHANGED <<guest, segment, pc, mode, done, todo, trace, isTerminate, stepped, gap, why, entry>>

\* doHostWrite; in the preflight the answer is replayed.
DoHostWrite ==
  /\ at = "host write"
  /\ CASE Wraps(HostPtr, HostLen) -> Throw("wrapping host write")
       [] ~Wraps(HostPtr, HostLen) /\ HostLen > MAX_HOST -> Throw("large host write")
       [] OTHER ->
            \E rlen \in Answers \cap 0 .. HostLen :
              /\ mem' = [mem EXCEPT ![Register(mode, REG_A0)] = rlen]
              /\ ECallCycle("decode", Plus4, <<0, 0, 0>>,
                            Append(HostArgs, W(Register(mode, REG_A0), rlen)))
              /\ at' = "run"
              /\ UNCHANGED <<done, todo, call, gap>>

-----------------------------------------------------------------------------
(* Hashing: emu/p2.h                                                       *)

\* p2Cycle: the row of the state before, which p2 says what follows.
P2Cycle(next, p2New, m, txns) ==
  /\ p2' = [p2New EXCEPT !.nextState = next]
  /\ Row(next, pc, m, txns)
  /\ stepped' = TRUE
  /\ UNCHANGED <<guest, segment, pc, done, s, call, isTerminate, why, entry>>

Hash(stateAddr, bufOutAddr, isElem, checkOut, tx, bufInAddr, count, m) ==
  [hasState |-> stateAddr # 0, stateAddr |-> stateAddr, bufOutAddr |-> bufOutAddr,
   isElem |-> isElem, checkOut |-> checkOut, loadTxType |-> tx, nextState |-> "",
   subState |-> 0, bufInAddr |-> bufInAddr, count |-> count, mode |-> m]

\* The first step of p2Rest, from a hash whose row is still open.
FirstStep(h, m, txns) ==
  LET next == CASE h.hasState                    -> "poseidon load state"
                [] ~h.hasState /\ h.count # 0    -> "poseidon load in"
                [] OTHER                         -> "poseidon do out"
  IN  /\ P2Cycle(next, h, m, txns)
      /\ at' = "hash"

\* p2ECall.  The circuit has no output row for a hash of nothing, and takes
\* the kernel to have sanitized addresses and flags.
P2ECall ==
  /\ at = "poseidon entry"
  /\ LET addr(r) == Reg(r) \div 4
         bits    == Reg(REG_A3)
     IN  /\ FirstStep(Hash(addr(REG_A0), addr(REG_A2), bits \div PFLAG_IS_ELEM % 2 = 1,
                           bits \div PFLAG_CHECK_OUT % 2 = 1, TxRead, addr(REG_A1),
                           bits % COUNT_RANGE, 1), mode,
                      [k \in 1 .. 4 |-> RegRead(<<REG_A0, REG_A1, REG_A2, REG_A3>>[k])])
         /\ CASE \E r \in {REG_A0, REG_A1, REG_A2} : Reg(r) % 4 # 0 -> Gap("unaligned hash")
              [] pc = 0                        -> Gap("pc zero")
              [] bits % COUNT_RANGE = 0        -> Gap("empty hash")
              [] bits >= 4 * COUNT_RANGE       -> Gap("unknown flags")
              [] OTHER                         -> UNCHANGED gap
  /\ UNCHANGED <<mem, todo>>

\* The words of a digest at addr, read; what they hold is left open.
ReadDigest(addr)  == [k \in 1 .. DIGEST_WORDS |-> R(addr + k - 1, 0)]
WriteDigest(addr) == [k \in 1 .. DIGEST_WORDS |-> W(addr + k - 1, 0)]

\* p2Rest, one step: what it does in state p2.nextState, and the row of it.
P2Rest ==
  /\ at = "hash"
  /\ LET final == IF p2.loadTxType = TxRead THEN "decode" ELSE "poseidon paging"
         last   == 2 * HALF_ROUNDS - 1
         go(next, h, txns) == P2Cycle(next, h, mode, txns)
     IN
     CASE p2.nextState = "poseidon load state" ->
            go(IF p2.count # 0 THEN "poseidon load in" ELSE "poseidon do out",
               p2, ReadDigest(p2.stateAddr))
       [] p2.nextState = "poseidon load in" ->
            LET in   == [p2 EXCEPT !.bufInAddr = @ + DIGEST_WORDS]
                more == p2.isElem /\ p2.subState = 0
            IN  go(IF more THEN "poseidon load in" ELSE "poseidon ext round",
                   [in EXCEPT !.subState = IF more THEN 1 ELSE 0], ReadDigest(p2.bufInAddr))
       [] p2.nextState = "poseidon ext round" /\ p2.subState = HALF_ROUNDS - 1 ->
            go("poseidon int round", [p2 EXCEPT !.subState = 0], <<>>)
       [] p2.nextState = "poseidon ext round" /\ p2.subState = last ->
            go(IF p2.count > 1 THEN "poseidon load in" ELSE "poseidon do out",
               [p2 EXCEPT !.subState = 0, !.count = @ - 1], <<>>)
       [] p2.nextState = "poseidon ext round" /\ p2.subState \notin {HALF_ROUNDS - 1, last} ->
            go("poseidon ext round", [p2 EXCEPT !.subState = @ + 1], <<>>)
       [] p2.nextState = "poseidon int round" ->
            go("poseidon ext round", [p2 EXCEPT !.subState = HALF_ROUNDS], <<>>)
       [] p2.nextState = "poseidon do out" ->
            go(IF p2.hasState THEN "poseidon store state" ELSE final, [p2 EXCEPT !.bufInAddr = 0],
               IF p2.checkOut THEN ReadDigest(p2.bufOutAddr) ELSE WriteDigest(p2.bufOutAddr))
       [] p2.nextState = "poseidon store state" ->
            go(final, p2, WriteDigest(p2.stateAddr))
  /\ at' = CASE row'.state = "decode"          -> "run"
             [] row'.state = "poseidon paging" -> "paging"
             [] OTHER                          -> at
  /\ UNCHANGED <<mem, todo, gap>>

-----------------------------------------------------------------------------
(* A segment: preflightSegment                                             *)

Leaf(page)      == page + PAGES
Inner(pages)    == {n \in 1 .. PAGES - 1 : \E p \in pages, k \in 0 .. PAGES : Leaf(p) \div 2^k = n}
Ascending(set)  == SetToSortSeq(set, <)
Descending(set) == SetToSortSeq(set, >)

\* readRoot; readPaging says what to page in.
ReadRoot ==
  /\ at = "start"
  /\ \E pages \in PageSets :
       todo' = Ascending(Inner(pages)) \o Ascending({Leaf(p) : p \in pages})
  /\ Row("poseidon entry", 0, 0, ReadDigest(RootWord))
  /\ at' = "page in"
  /\ stepped' = FALSE
  /\ UNCHANGED <<guest, segment, mem, pc, done, p2, s, call, isTerminate, gap, why, entry>>

\* p2PagingEntry
PagingEntry ==
  /\ at \in {"page in", "page out"}
  /\ P2Cycle("poseidon paging",
             Hash(0, IF at = "page in" THEN NODES_END_WORD ELSE MEMORY_SIZE_WORDS, TRUE, TRUE,
                  TxPageIn, 0, 0, IF at = "page in" THEN 0 ELSE 3), mode, <<>>)
  /\ at' = "paging"
  /\ UNCHANGED <<mem, todo, gap>>

PagingIn == mode \in {0, 1}

\* The next readNode, readPage, writePage or writeNode, which sets the machine
\* mode to what is being hashed.
PagingHash ==
  /\ at = "paging" /\ todo # <<>>
  /\ LET idx    == Head(todo)
         isNode == idx < PAGES
         m      == CASE PagingIn /\ isNode   -> 0
                     [] PagingIn /\ ~isNode  -> 1
                     [] ~PagingIn /\ ~isNode -> 3
                     [] ~PagingIn /\ isNode  -> 4
         tx     == IF PagingIn THEN TxPageIn ELSE TxPageOut
     IN  FirstStep(IF isNode THEN Hash(0, NodeIdxToAddr(idx), TRUE, PagingIn, tx,
                                       NodeIdxToAddr(2 * idx + 1), 1, m)
                   ELSE Hash(0, NodeIdxToAddr(idx), FALSE, PagingIn, tx,
                             (idx - PAGES) * PAGE_WORDS, BLOCKS, m), m, <<>>)
  /\ todo' = Tail(todo)
  /\ UNCHANGED <<mem, gap>>

\* p2ReadDone and p2WriteDone
PagingDone ==
  /\ at = "paging" /\ todo = <<>>
  /\ LET m == IF PagingIn THEN 2 ELSE 5
     IN  P2Cycle(IF PagingIn THEN "resume" ELSE "store root",
                 Hash(0, IF PagingIn THEN MEMORY_SIZE_WORDS ELSE NODES_END_WORD, FALSE, FALSE,
                      TxRead, 0, 0, m), m, <<>>)
  /\ at' = IF PagingIn THEN "resume" ELSE "write root"
  /\ UNCHANGED <<mem, todo, gap>>

\* Mutant: a segment resumes in machine mode, like the first.
ResumeMachine ==
  /\ at = "resume"
  /\ pc' = mem[SUSPEND_PC_WORD]
  /\ Row("resume", pc', 1,
         <<R(SUSPEND_PC_WORD, mem[SUSPEND_PC_WORD]),
           R(SUSPEND_MODE_WORD, mem[SUSPEND_MODE_WORD])>>)
  /\ at' = "input"
  /\ UNCHANGED <<guest, segment, mem, done, todo, p2, s, call, isTerminate, stepped, gap, why, entry>>

\* R0Context::resume, and the row PreflightContext::resume begins with.
Resume ==
  /\ at = "resume"
  /\ pc' = mem[SUSPEND_PC_WORD]
  /\ Row("resume", pc', mem[SUSPEND_MODE_WORD],
         <<R(SUSPEND_PC_WORD, mem[SUSPEND_PC_WORD]),
           R(SUSPEND_MODE_WORD, mem[SUSPEND_MODE_WORD])>>)
  /\ at' = "input"
  /\ UNCHANGED <<guest, segment, mem, done, todo, p2, s, call, isTerminate, stepped, gap, why, entry>>

Zeroed(m, words) == [w \in Kept |-> IF w \in words THEN 0 ELSE m[w]]

\* Its second row.  physCycles starts to count here.
Input ==
  /\ at = "input"
  /\ mem' = Zeroed(mem, INPUT_WORD .. INPUT_WORD + DIGEST_WORDS - 1)
  /\ stepped' = FALSE
  /\ Row("decode", pc, mode, WriteDigest(INPUT_WORD))
  /\ at' = "run"
  /\ UNCHANGED <<guest, segment, pc, done, todo, p2, s, call, isTerminate, gap, why, entry>>

\* The executor suspends between two steps, when the segment is full or the
\* guest has terminated (R0Context::suspend, PreflightContext::suspend).
Suspend ==
  /\ at = "run" /\ stepped
  /\ done \/ segment < MaxSegments[guest]
  /\ mem' = [mem EXCEPT ![SUSPEND_PC_WORD] = pc, ![SUSPEND_MODE_WORD] = mode]
  /\ pc' = 0
  /\ isTerminate' = done
  /\ Row("suspend", 0, mode, <<W(SUSPEND_PC_WORD, pc), W(SUSPEND_MODE_WORD, mode)>>)
  /\ at' = "output"
  /\ IF pc = 0 THEN Gap("pc zero") ELSE UNCHANGED gap
  /\ UNCHANGED <<guest, segment, done, todo, p2, s, call, stepped, why, entry>>

\* writePaging says what to page out: what was paged in and written.  The
\* page of the words suspend stores always is.
Output ==
  /\ at = "output"
  /\ \E pages \in PageSets :
       todo' = Descending({Leaf(p) : p \in pages}) \o Descending(Inner(pages))
  /\ Row("poseidon entry", 0, 3, ReadDigest(OUTPUT_WORD))
  /\ at' = "page out"
  /\ UNCHANGED <<guest, segment, mem, pc, done, p2, s, call, isTerminate, stepped, gap, why, entry>>

WriteRoot ==
  /\ at = "write root"
  /\ Row("control table", 0, 0, ReadDigest(RootWord))
  /\ at' = "tables"
  /\ UNCHANGED <<guest, segment, mem, pc, done, todo, p2, s, call, isTerminate, stepped, gap, why, entry>>

\* doTables, row by row: row.pc counts the entries.  The byte table's last row
\* hands on mode 1, the other table's mode 0.
Table ==
  /\ at = "tables"
  /\ LET next == row.pc + TABLE_STEP
     IN  CASE mode = 0 /\ next < BYTE_VALUES  -> Row("control table", next, 0, <<>>)
           [] mode = 0 /\ next >= BYTE_VALUES -> Row("control table", 0, 1, <<>>)
           [] mode = 1 /\ next < SHORT_VALUES -> Row("control table", next, 1, <<>>)
           [] OTHER                           -> Row("control done", 0, 0, <<>>)
  /\ at' = IF row'.state = "control done" THEN "done" ELSE at
  /\ UNCHANGED <<guest, segment, mem, pc, done, todo, p2, s, call, isTerminate, stepped, gap, why, entry>>

\* The rows that fill the segment up.
Done ==
  /\ at = "done"
  /\ Row("control done", 0, 1, <<>>)
  /\ at' = IF done THEN "ended" ELSE "start"
  /\ segment' = IF done THEN segment ELSE segment + 1
  /\ UNCHANGED <<guest, mem, pc, done, todo, p2, s, call, isTerminate, stepped, gap, why, entry>>

-----------------------------------------------------------------------------
Init ==
  /\ guest \in Guests
  /\ IF guest = "kernel" THEN mem = KernelImage(UserEntry)
     ELSE \E regs \in RawRegs, trapEntry \in {0, 4 * KERNEL_START_WORD} :
            mem = RawImage(4 * KERNEL_START_WORD, regs, trapEntry)
  /\ pc = 0 /\ mode = 1 /\ done = FALSE
  /\ at = "start" /\ todo = <<>>
  /\ p2 = Hash(0, 0, FALSE, FALSE, TxRead, 0, 0, 0)
  /\ s = <<0, 0, 0>>
  /\ call = [ptr |-> 0, rlen |-> 0]
  /\ isTerminate = FALSE
  /\ row = [state |-> "control done", pc |-> 0, mode |-> 1]
  /\ io = <<>>
  /\ segment = 1
  /\ stepped = FALSE
  /\ gap = "" /\ why = ""
  /\ entry = NoEntry

Running ==
  \/ Step \/ DoTerminate \/ DoHostReadSetup \/ DoHostReadWords \/ DoHostWrite
  \/ P2ECall \/ P2Rest

Segment ==
  \/ ReadRoot \/ PagingEntry \/ PagingHash \/ PagingDone \/ Resume \/ Input
  \/ Suspend \/ Output \/ WriteRoot \/ Table \/ Done

\* After a throw, or the terminating segment, nothing happens any more.
Next == Running \/ Segment

Spec == Init /\ [][Next]_vars /\ WF_vars(Next)

-----------------------------------------------------------------------------
(* Properties                                                              *)

HasKernel == guest = "kernel"

\* The dispatch table start leaves.
Dispatch ==
  [id \in 0 .. MAX_ECALL - 1 |-> CASE id = SYS_READ  -> 4 * ReadWord
                                   [] id = SYS_WRITE -> 4 * WriteWord
                                   [] id = SYS_EXIT  -> 4 * ExitWord
                                   [] OTHER          -> 0]

\* The circuit the rows are for.
C == INSTANCE Circuit WITH state <- row.state, pc <- row.pc, mode <- row.mode

\* Every row the preflight lays down is one the circuit accepts after the row
\* before it, with the memory accesses of the emulator in the order the
\* circuit makes them: until the guest does one of the things gap names, for
\* which the circuit has no row, a host read of more than one word at a time
\* among them (r0vm.h, preflight.cpp and p2.h against dsl/*.zir; rv32im.h:18
\* "matches circuit very accurately").
RowsFollowCircuit ==
  C!Init /\ [][UNCHANGED trace \/ gap' # "" \/ C!Next]_<<trace, isTerminate>>

\* Nothing the user asks for, host data included, reaches the kernel's code
\* or changes a dispatch entry after start set it (kernel.cpp, sys_read).
KernelUntouched ==
  HasKernel =>
    /\ \A k \in DOMAIN io : io[k].op = "write" => io[k].word \notin DOMAIN Text
    /\ mode = 0 /\ at = "run" =>
         /\ \A id \in DOMAIN Dispatch : mem[ECALL_DISPATCH_WORD + id] = Dispatch[id]
         /\ \A cause \in 0 .. 8 : mem[TRAP_DISPATCH_WORD + cause] = 0

\* A system call comes back to the instruction after its ecall, in user mode,
\* with the user's registers as they were, a0 apart, which holds an error or
\* at most the length asked for (kernel.cpp, SYSCALL_WRAP_3; r0vm.h:271).
SyscallReturns ==
  [][HasKernel /\ gap' \in Harmless /\ at = "run" /\ at' = "run" /\ mode = 1 /\ mode' = 0 /\ entry.pc # 0
       => /\ pc' = (entry.pc + 4) % U32
          /\ \A r \in 1 .. REGS - 1 :
               r # REG_A0 => mem'[USER_REGS_WORD + r] = entry.regs[r]
          /\ mem'[USER_REGS_WORD + REG_A0]
               \in {Error(e) : e \in {EBADF, EFAULT, EINVAL}} \cup 0 .. entry.regs[REG_A2]]_vars

\* In machine mode the processor runs the kernel's code and nothing else,
\* whatever the user does to its registers and memory, and in spite of
\* segments that end in the middle of the kernel; and there the emulator throws
\* only for a length the kernel hands on unchecked: the kernel itself never
\* traps, and never calls the host with a buffer that wraps (r0vm.h:83, 168).
MachineModeInKernel ==
  HasKernel /\ mode = 1 =>
    /\ at = "run" /\ ~done => InText(pc)
    /\ why # "" => why \in {"large host read", "large host write"}

\* The kernel gives the processor back, or the run ends: no segment boundary
\* loses its place (exec.cpp steps as long as the guest is not done).
KernelReturns ==
  (HasKernel /\ at = "run" /\ mode = 1)
    ~> ((at = "run" /\ mode = 0) \/ at \in {"ended", "threw"} \/ gap \notin Harmless)
=============================================================================
