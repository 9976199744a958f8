------------------------------ MODULE Circuit -------------------------------
(***************************************************************************)
(* The rv32im-v2 circuit (dsl/top.zir) as a relation between a row and the *)
(* one before it: which rows may follow a row, given the registers that    *)
(* carry over (next_state, next_pc, next_machine_mode, the ecall's s0..s2, *)
(* the Poseidon2 state and the global isTerminate) and the memory          *)
(* arguments the row makes.  A trace the circuit accepts is a behaviour of *)
(* this specification that ends as it began; the memory and cycle          *)
(* arguments themselves are the subject of PreflightTrace.                 *)
(*                                                                         *)
(* What an ordinary instruction computes is in Alu; a word fetched as an   *)
(* instruction is a record here, [op, rd, rs1, rs2, imm].  Values hashed   *)
(* are left out.                                                           *)
(***************************************************************************)
EXTENDS Platform

CONSTANTS
  TABLE_STEP, BYTE_VALUES, SHORT_VALUES   \* 16, 2^8, 2^16

VARIABLES
  state, pc, mode,   \* next_state, next_pc, next_machine_mode
  s,                 \* <<s0, s1, s2>> of the ecall rows
  p2,                \* PoseidonState
  isTerminate,       \* the global
  io                 \* the memory arguments of the row, in order

vars == <<state, pc, mode, s, p2, isTerminate, io>>

Out(p, st, m) == pc' = p /\ state' = st /\ mode' = m

\* AddrDecompose, AddrDecomposeBits: the zero page is out of reach, and the
\* system's words are out of the user's.
Addressable(addr, m) ==
  /\ addr \div 4 >= ZERO_PAGE_END_WORD
  /\ m = 0 => addr \div 4 < KERNEL_START_WORD

Fetchable == Addressable(pc, mode) /\ pc % 4 = 0

Plus4(addr) == (addr + 4) % U32

-----------------------------------------------------------------------------
(* Ordinary instructions                                                   *)

\* The register WriteRd writes.
Destination(inst, write) ==
  IF write /\ inst.rd # REG_ZERO THEN Register(mode, inst.rd)
  ELSE Register(mode, 0) + 2 * REGS

Fetched(op) ==
  /\ state = "decode"
  /\ Fetchable
  /\ io' # <<>>
  /\ io'[1].op = "read" /\ io'[1].word = pc \div 4
  /\ io'[1].val.op \in op

Taken(inst, rs1, rs2) ==
  CASE inst.op = "bne"  -> rs1 # rs2
    [] inst.op = "bltu" -> rs1 < rs2
    [] inst.op = "bgeu" -> rs1 >= rs2

\* Misc0, Misc1, Misc2, Mul0, Div0.
Misc ==
  /\ Fetched({"li", "add", "any", "bne", "bltu", "bgeu", "jalr"})
  /\ LET inst == io'[1].val
         rs1  == io'[2].val
         rs2  == io'[3].val
         branch == inst.op \in {"bne", "bltu", "bgeu"}
     IN  /\ Shape(Tail(io')) =
              Reads(<<Register(mode, inst.rs1), Register(mode, inst.rs2)>>)
                \o Writes(<<Destination(inst, ~branch)>>)
         /\ CASE inst.op = "li"   -> io'[4].val = inst.imm
              [] inst.op = "add"  -> io'[4].val = (rs1 + rs2) % U32
              [] inst.op = "jalr" -> io'[4].val = Plus4(pc)
              [] OTHER            -> TRUE
         /\ CASE inst.op = "jalr"                   -> Out((rs1 + inst.imm) % U32, "decode", mode)
              [] branch /\ Taken(inst, rs1, rs2)    -> Out((pc + inst.imm) % U32, "decode", mode)
              [] OTHER                              -> Out(Plus4(pc), "decode", mode)
  /\ UNCHANGED <<s, p2, isTerminate>>

\* Mem0 and Mem1.
Mem ==
  /\ Fetched({"lw", "sw"})
  /\ LET inst == io'[1].val
         addr == (io'[2].val + inst.imm) % U32
         data == <<addr \div 4>>
     IN  /\ Addressable(addr, mode) /\ addr % 4 = 0
         /\ IF inst.op = "lw"
            THEN /\ Shape(Tail(io')) =
                      Reads(<<Register(mode, inst.rs1)>> \o data)
                        \o Writes(<<Destination(inst, TRUE)>>)
                 /\ io'[4].val = io'[3].val
            ELSE /\ Shape(Tail(io')) =
                      Reads(<<Register(mode, inst.rs1), Register(mode, inst.rs2)>> \o data)
                        \o Writes(data)
                 /\ io'[5].val = io'[3].val
  /\ Out(Plus4(pc), "decode", mode)
  /\ UNCHANGED <<s, p2, isTerminate>>

-----------------------------------------------------------------------------
(* Control0 (dsl/inst_control.zir)                                         *)

\* The first row: the row before it is the last of the trace.
ControlLoadRoot ==
  /\ state = "control done"
  /\ Shape(io') = Reads(From(RootWord, DIGEST_WORDS))
  /\ Out(0, "poseidon entry", 0)
  /\ UNCHANGED <<s, p2, isTerminate>>

ControlResume ==
  /\ state = "resume"
  /\ IF pc = 0
     THEN /\ Shape(io') = Reads(<<SUSPEND_PC_WORD, SUSPEND_MODE_WORD>>)
          /\ Out(io'[1].val, "resume", io'[2].val)
     ELSE /\ Shape(io') = Writes(From(INPUT_WORD, DIGEST_WORDS))
          /\ Out(pc, "decode", mode)
  /\ UNCHANGED <<s, p2, isTerminate>>

ControlUserECALL ==
  /\ mode = 0
  /\ Fetched({"ecall"})
  /\ LET dispatch == io'[2].val
     IN  /\ dispatch < MAX_ECALL
         /\ Shape(Tail(io')) =
              Reads(<<Register(0, REG_A7), ECALL_DISPATCH_WORD + dispatch>>)
                \o Writes(<<MEPC_WORD>>)
         /\ io'[4].val = pc
         /\ Out(io'[3].val, "decode", 1)
  /\ UNCHANGED <<s, p2, isTerminate>>

ControlMRET ==
  /\ mode = 1
  /\ Fetched({"mret"})
  /\ Shape(Tail(io')) = Reads(<<MEPC_WORD>>)
  /\ Out(Plus4(io'[2].val), "decode", 0)
  /\ UNCHANGED <<s, p2, isTerminate>>

ControlSuspend ==
  \/ /\ state \in {"decode", "suspend"} /\ pc # 0
     /\ Shape(io') = Writes(<<SUSPEND_PC_WORD, SUSPEND_MODE_WORD>>)
     /\ io'[1].val = pc /\ io'[2].val = mode
     /\ isTerminate' = (state = "suspend")
     /\ Out(0, "suspend", mode)
     /\ UNCHANGED <<s, p2>>
  \/ /\ state = "suspend" /\ pc = 0
     /\ Shape(io') = Reads(From(OUTPUT_WORD, DIGEST_WORDS))
     /\ Out(0, "poseidon entry", 3)
     /\ UNCHANGED <<s, p2, isTerminate>>

ControlStoreRoot ==
  /\ state = "store root"
  /\ Shape(io') = Reads(From(RootWord, DIGEST_WORDS))
  /\ Out(0, "control table", 0)
  /\ UNCHANGED <<s, p2, isTerminate>>

ControlTable ==
  /\ state = "control table"
  /\ io' = <<>>
  /\ LET next == pc + TABLE_STEP
     IN  CASE mode = 1 /\ next = SHORT_VALUES -> Out(0, "control done", 0)
           [] mode = 0 /\ next = BYTE_VALUES  -> Out(0, "control table", 1)
           [] OTHER                           -> Out(next, "control table", mode)
  /\ UNCHANGED <<s, p2, isTerminate>>

ControlDone ==
  /\ state = "control done"
  /\ io' = <<>>
  /\ Out(0, "control done", 1)
  /\ UNCHANGED <<s, p2, isTerminate>>

-----------------------------------------------------------------------------
(* ECall0 (dsl/inst_ecall.zir)                                             *)

ECallOutput(next, regs) ==
  /\ Out(IF next \in {"decode", "poseidon entry"} THEN Plus4(pc) ELSE pc, next, 1)
  /\ s' = regs
  /\ UNCHANGED <<p2, isTerminate>>

MachineECall ==
  /\ mode = 1
  /\ Fetched({"ecall"})
  /\ Shape(Tail(io')) = Reads(<<Register(1, REG_A7)>>)
  /\ \E call \in 0 .. 3 :
       /\ io'[2].val = call
       /\ ECallOutput(<<"terminate", "host read setup", "host write",
                        "poseidon entry">>[call + 1], <<0, 0, 0>>)

ECallTerminate ==
  /\ state = "terminate" /\ Fetchable
  /\ Shape(io') = Reads(<<Register(0, REG_A0), Register(0, REG_A1)>>)
  /\ ECallOutput("suspend", <<0, 0, 0>>)

\* Reading descriptor, buffer and length, and answering with a length.
HostCall ==
  /\ Fetchable
  /\ Shape(io') = Reads(<<Register(1, REG_A0), Register(1, REG_A1), Register(1, REG_A2)>>)
                    \o Writes(<<Register(1, REG_A0)>>)
  /\ io'[4].val \in 0 .. io'[3].val

ECallHostReadSetup ==
  /\ state = "host read setup"
  /\ HostCall
  /\ LET ptr    == io'[2].val
         newLen == io'[4].val
         uneven == newLen \in 1 .. 3 /\ ptr % 4 # 0
     IN  ECallOutput(CASE newLen = 0            -> "decode"
                       [] newLen # 0 /\ uneven -> "host read bytes"
                       [] OTHER                 -> "host read words",
                     <<ptr \div 4, ptr % 4, newLen>>)

ECallHostWrite ==
  /\ state = "host write"
  /\ HostCall
  /\ ECallOutput("decode", <<0, 0, 0>>)

\* doWord is one-hot: of up to four words only the last one's slot writes, the
\* others go to the safe word, and count is one word, if there is any.
\* There is no row for the bytes left over (0 = 1).
ECallHostReadWords ==
  /\ state = "host read words" /\ Fetchable
  /\ LET len   == s[3]
         slot  == IF len \div 4 < 4 THEN len \div 4 ELSE 4
         count == IF slot = 0 THEN 0 ELSE 1
         left  == len - 4 * count
     IN  /\ Shape(io') = Writes([k \in 1 .. 4 |-> IF k = slot THEN s[1] + k - 1
                                                 ELSE SAFE_WRITE_WORD])
         /\ ECallOutput(CASE left = 0                    -> "decode"
                           [] left # 0 /\ len % 4 # 0    -> "host read bytes"
                           [] OTHER                       -> "host read words",
                         <<s[1] + count, 0, left>>)

-----------------------------------------------------------------------------
(* Poseidon0 and Poseidon1 (dsl/inst_p2.zir)                               *)

\* What a row leaves in its PoseidonState besides the definition of the hash.
Go(def, next, sub, in, count, m) ==
  /\ p2' = [def EXCEPT !.nextState = next, !.subState = sub, !.bufInAddr = in,
                       !.count = count, !.mode = m]
  /\ Out(pc, next, m)
  /\ UNCHANGED <<s, isTerminate>>

OpDef(hasState, stateAddr, bufOutAddr, isElem, checkOut, loadTxType) ==
  [hasState |-> hasState, stateAddr |-> stateAddr, bufOutAddr |-> bufOutAddr,
   isElem |-> isElem, checkOut |-> checkOut, loadTxType |-> loadTxType,
   nextState |-> "", subState |-> 0, bufInAddr |-> 0, count |-> 0, mode |-> 0]

PoseidonEcall ==
  /\ state = "poseidon entry" /\ pc # 0
  /\ Shape(io') = Reads([k \in 1 .. 4 |-> Register(1, <<REG_A0, REG_A1, REG_A2, REG_A3>>[k])])
  /\ LET addr(k) == io'[k].val \div 4
         bits    == io'[4].val
         count   == bits % COUNT_RANGE
         hasState == addr(1) # 0
     IN  /\ \A k \in 1 .. 3 : io'[k].val % 4 = 0
         /\ bits < 4 * COUNT_RANGE
         /\ Go(OpDef(hasState, addr(1), addr(3), bits \div PFLAG_IS_ELEM % 2 = 1,
                     bits \div PFLAG_CHECK_OUT % 2 = 1, TxRead),
               CASE count = 0               -> "decode"
                 [] count # 0 /\ hasState   -> "poseidon load state"
                 [] count # 0 /\ ~hasState  -> "poseidon load in",
               0, addr(2), count, mode)

PoseidonPagingEntry ==
  /\ state = "poseidon entry" /\ pc = 0 /\ mode \in {0, 3}
  /\ io' = <<>>
  /\ Go(OpDef(FALSE, 0, IF mode = 3 THEN MEMORY_SIZE_WORDS ELSE NODES_END_WORD,
              TRUE, TRUE, TxPageIn),
        "poseidon paging", 0, 0, 0, mode)

PoseidonLoadState ==
  /\ state = "poseidon load state"
  /\ Shape(io') = Reads(From(p2.stateAddr, DIGEST_WORDS))
  /\ Go(p2, "poseidon load in", 0, p2.bufInAddr, p2.count, p2.mode)

\* Words in one row, elements in two.
PoseidonLoadIn ==
  /\ state = "poseidon load in"
  /\ Shape(io') = Reads(From(p2.bufInAddr, DIGEST_WORDS))
  /\ IF p2.isElem /\ p2.subState = 0
     THEN Go(p2, "poseidon load in", 1, p2.bufInAddr + DIGEST_WORDS, p2.count, p2.mode)
     ELSE Go(p2, "poseidon ext round", 0, p2.bufInAddr + DIGEST_WORDS, p2.count, p2.mode)

PoseidonExtRound ==
  /\ state = "poseidon ext round"
  /\ io' = <<>>
  /\ CASE p2.subState = HALF_ROUNDS - 1 ->
            Go(p2, "poseidon int round", 0, p2.bufInAddr, p2.count, p2.mode)
       [] p2.subState = 2 * HALF_ROUNDS - 1 ->
            Go(p2, IF p2.count = 1 THEN "poseidon do out" ELSE "poseidon load in",
               0, p2.bufInAddr, p2.count - 1, p2.mode)
       [] OTHER ->
            Go(p2, "poseidon ext round", p2.subState + 1, p2.bufInAddr, p2.count, p2.mode)

PoseidonIntRounds ==
  /\ state = "poseidon int round"
  /\ io' = <<>>
  /\ Go(p2, "poseidon ext round", HALF_ROUNDS, p2.bufInAddr, p2.count, p2.mode)

PoseidonDoOut ==
  /\ state = "poseidon do out"
  /\ LET words == From(p2.bufOutAddr, DIGEST_WORDS)
     IN  Shape(io') = IF p2.checkOut THEN Reads(words) ELSE Writes(words)
  /\ Go(p2, CASE p2.hasState                                -> "poseidon store state"
              [] ~p2.hasState /\ p2.loadTxType = TxRead      -> "decode"
              [] OTHER                                       -> "poseidon paging",
        0, 0, 0, p2.mode)

PoseidonStoreState ==
  /\ state = "poseidon store state"
  /\ Shape(io') = Writes(From(p2.stateAddr, DIGEST_WORDS))
  /\ Go(p2, "decode", 0, 0, 0, p2.mode)

\* The node or page whose hash comes next: upwards while paging in, downwards
\* while paging out, the mode moving on by at most one.
PoseidonPaging ==
  /\ state = "poseidon paging"
  /\ io' = <<>>
  /\ \E idx \in 0 .. 2 * PAGES, m \in {mode, mode + 1} :
       LET prevIdx == NodeAddrToIdx(p2.bufOutAddr)
           isLoad  == m <= 2
           page    == (idx - PAGES) * PAGE_WORDS
           hash(isElem, tx) == OpDef(FALSE, 0, NodeIdxToAddr(idx), isElem, isLoad, tx)
       IN  /\ m \in 0 .. 5
           /\ IF isLoad THEN idx > prevIdx ELSE idx < prevIdx
           /\ CASE m = 0 -> Go(hash(TRUE, TxPageIn), "poseidon load in", 0,
                               NodeIdxToAddr(2 * idx + 1), 1, 0)
                [] m = 1 -> Go(hash(FALSE, TxPageIn), "poseidon load in", 0, page, BLOCKS, 1)
                [] m = 2 -> Go(OpDef(FALSE, 0, MEMORY_SIZE_WORDS, FALSE, FALSE, TxRead),
                               "resume", 0, 0, 0, 2)
                [] m = 3 -> Go(hash(FALSE, TxPageOut), "poseidon load in", 0, page, BLOCKS, 3)
                [] m = 4 -> Go(hash(TRUE, TxPageOut), "poseidon load in", 0,
                               NodeIdxToAddr(2 * idx + 1), 1, 4)
                [] m = 5 -> Go(OpDef(FALSE, 0, NODES_END_WORD, FALSE, FALSE, TxRead),
                               "store root", 0, 0, 0, 5)

-----------------------------------------------------------------------------
Init ==
  /\ state = "control done" /\ pc = 0 /\ mode = 1
  /\ s = <<0, 0, 0>>
  /\ p2 = OpDef(FALSE, 0, 0, FALSE, FALSE, TxRead)
  /\ isTerminate = FALSE
  /\ io = <<>>

Next ==
  \/ Misc \/ Mem
  \/ ControlLoadRoot \/ ControlResume \/ ControlUserECALL \/ ControlMRET
  \/ ControlSuspend \/ ControlStoreRoot \/ ControlTable \/ ControlDone
  \/ MachineECall \/ ECallTerminate \/ ECallHostReadSetup \/ ECallHostWrite
  \/ ECallHostReadWords
  \/ PoseidonEcall \/ PoseidonPagingEntry \/ PoseidonLoadState \/ PoseidonLoadIn
  \/ PoseidonExtRound \/ PoseidonIntRounds \/ PoseidonDoOut \/ PoseidonStoreState
  \/ PoseidonPaging

Spec == Init /\ [][Next]_vars
=============================================================================
