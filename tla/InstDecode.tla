----------------------------- MODULE InstDecode -----------------------------
(***************************************************************************)
(* Which instruction a word is, and its immediates: DecodedInst and        *)
(* FastDecodeTable (shared/rv32im.h), and the arms of the circuit          *)
(* (dsl/inst_*.zir) with its Decoder (dsl/decode.zir).  A word is the set  *)
(* of its bits that are 1.                                                 *)
(***************************************************************************)
EXTENDS Integers, Sequences, FiniteSetsExt

\* Bits first .. last of the word, as a number, and moved to start at bit at.
Field(w, first, last) == MapThenSumSet(LAMBDA k : 2^(k - first), w \cap (first .. last))
Move(w, first, last, at) == {k - first + at : k \in w \cap (first .. last)}
Fill(w, first) == IF 31 \in w THEN first .. 31 ELSE {}

Opcode(w) == Field(w, 0, 6)
Rd(w)     == Field(w, 7, 11)
Func3(w)  == Field(w, 12, 14)
Rs1(w)    == Field(w, 15, 19)
Rs2(w)    == Field(w, 20, 24)
Func7(w)  == Field(w, 25, 31)

ImmI(w) == Fill(w, 12) \cup Move(w, 25, 31, 5) \cup Move(w, 20, 24, 0)
ImmS(w) == Fill(w, 12) \cup Move(w, 25, 31, 5) \cup Move(w, 7, 11, 0)
ImmB(w) == Fill(w, 12) \cup Move(w, 7, 7, 11) \cup Move(w, 25, 30, 5) \cup Move(w, 8, 11, 1)
ImmU(w) == Move(w, 12, 31, 12)
ImmJ(w) == Fill(w, 20) \cup Move(w, 15, 19, 15) \cup Move(w, 12, 14, 12)
             \cup Move(w, 20, 20, 11) \cup Move(w, 25, 30, 5) \cup Move(w, 21, 24, 1)

-----------------------------------------------------------------------------
(* The emulator's table                                                    *)

ANY == -1      \* "don't care"

Inst(name, opcode, func3, func7) == [name |-> name, opcode |-> opcode, func3 |-> func3, func7 |-> func7]

\* ALL_INSTS: by major and minor.
AllInsts == <<
  <<Inst("ADD", 51, 0, 0), Inst("SUB", 51, 0, 32), Inst("XOR", 51, 4, 0), Inst("OR", 51, 6, 0),
    Inst("AND", 51, 7, 0), Inst("SLT", 51, 2, 0), Inst("SLTU", 51, 3, 0), Inst("ADDI", 19, 0, ANY)>>,
  <<Inst("XORI", 19, 4, ANY), Inst("ORI", 19, 6, ANY), Inst("ANDI", 19, 7, ANY), Inst("SLTI", 19, 2, ANY),
    Inst("SLTIU", 19, 3, ANY), Inst("BEQ", 99, 0, ANY), Inst("BNE", 99, 1, ANY), Inst("BLT", 99, 4, ANY)>>,
  <<Inst("BGE", 99, 5, ANY), Inst("BLTU", 99, 6, ANY), Inst("BGEU", 99, 7, ANY), Inst("JAL", 111, ANY, ANY),
    Inst("JALR", 103, 0, ANY), Inst("LUI", 55, ANY, ANY), Inst("AUIPC", 23, ANY, ANY)>>,
  <<Inst("SLL", 51, 1, 0), Inst("SLLI", 19, 1, 0), Inst("MUL", 51, 0, 1), Inst("MULH", 51, 1, 1),
    Inst("MULHSU", 51, 2, 1), Inst("MULHU", 51, 3, 1)>>,
  <<Inst("SRL", 51, 5, 0), Inst("SRA", 51, 5, 32), Inst("SRLI", 19, 5, 0), Inst("SRAI", 19, 5, 32),
    Inst("DIV", 51, 4, 1), Inst("DIVU", 51, 5, 1), Inst("REM", 51, 6, 1), Inst("REMU", 51, 7, 1)>>,
  <<Inst("LB", 3, 0, ANY), Inst("LH", 3, 1, ANY), Inst("LW", 3, 2, ANY), Inst("LBU", 3, 4, ANY), Inst("LHU", 3, 5, ANY)>>,
  <<Inst("SB", 35, 0, ANY), Inst("SH", 35, 1, ANY), Inst("SW", 35, 2, ANY)>>,
  <<Inst("EANY", 115, 0, 0), Inst("MRET", 115, 0, 24)>> >>

Entries == {<<major, minor>> \in (1 .. 8) \X (1 .. 8) : minor <= Len(AllInsts[major])}
EntryOf(e) == AllInsts[e[1]][e[2]]

\* Mutant: 0x20 is not told from the rest.
Func72BitsCoarse(func7) == IF func7 <= 1 THEN func7 ELSE 3

Func72Bits(func7) == IF func7 <= 1 THEN func7 ELSE IF func7 = 32 THEN 2 ELSE 3

Map10(opcode, func3, func7) == <<opcode \div 4, Func72Bits(func7), func3>>

\* addInst: the cells an instruction takes; the last to take one has it.
Cells(i) ==
  {<<i.opcode \div 4, f7b, f3>> :
     f7b \in IF i.func3 = ANY \/ i.func7 = ANY THEN 0 .. 3 ELSE {Func72Bits(i.func7)},
     f3  \in IF i.func3 = ANY THEN 0 .. 7 ELSE {i.func3}}

\* lookup, for a word that step() takes to be an instruction: the entry, or
\* nothing for INVALID.
Lookup(opcode, func3, func7) ==
  LET cell == Map10(opcode, func3, func7)
      of   == {e \in Entries : cell \in Cells(EntryOf(e))}
  IN  {e \in of : \A d \in of : <<d[1], d[2]>> = e \/ d[1] < e[1] \/ (d[1] = e[1] /\ d[2] < e[2])}

-----------------------------------------------------------------------------
(* The circuit                                                             *)

VerifyOpcode(opcode)                == Inst("", opcode, ANY, ANY)
VerifyOpcodeF3(opcode, func3)       == Inst("", opcode, func3, ANY)
VerifyOpcodeF3F7(op, func3, func7)  == Inst("", op, func3, func7)

\* Misc0 .. Mem1: what the arm for a minor asks of the instruction.  Arm 7 of
\* Misc2 is OpECALL, a busy loop no emulator row uses.
Arms == <<
  <<VerifyOpcodeF3F7(51, 0, 0), VerifyOpcodeF3F7(51, 0, 32), VerifyOpcodeF3F7(51, 4, 0), VerifyOpcodeF3F7(51, 6, 0),
    VerifyOpcodeF3F7(51, 7, 0), VerifyOpcodeF3F7(51, 2, 0), VerifyOpcodeF3F7(51, 3, 0), VerifyOpcodeF3(19, 0)>>,
  <<VerifyOpcodeF3(19, 4), VerifyOpcodeF3(19, 6), VerifyOpcodeF3(19, 7), VerifyOpcodeF3(19, 2),
    VerifyOpcodeF3(19, 3), VerifyOpcodeF3(99, 0), VerifyOpcodeF3(99, 1), VerifyOpcodeF3(99, 4)>>,
  <<VerifyOpcodeF3(99, 5), VerifyOpcodeF3(99, 6), VerifyOpcodeF3(99, 7), VerifyOpcode(111),
    VerifyOpcodeF3(103, 0), VerifyOpcode(55), VerifyOpcode(23), VerifyOpcodeF3F7(115, 0, 0)>>,
  <<VerifyOpcodeF3F7(51, 1, 0), VerifyOpcodeF3F7(19, 1, 0), VerifyOpcodeF3F7(51, 0, 1),
    VerifyOpcodeF3F7(51, 1, 1), VerifyOpcodeF3F7(51, 2, 1), VerifyOpcodeF3F7(51, 3, 1)>>,
  <<VerifyOpcodeF3F7(51, 5, 0), VerifyOpcodeF3F7(51, 5, 32), VerifyOpcodeF3F7(19, 5, 0), VerifyOpcodeF3F7(19, 5, 32),
    VerifyOpcodeF3F7(51, 4, 1), VerifyOpcodeF3F7(51, 5, 1), VerifyOpcodeF3F7(51, 6, 1), VerifyOpcodeF3F7(51, 7, 1)>>,
  <<VerifyOpcodeF3(3, 0), VerifyOpcodeF3(3, 1), VerifyOpcodeF3(3, 2), VerifyOpcodeF3(3, 4), VerifyOpcodeF3(3, 5)>>,
  <<VerifyOpcodeF3(35, 0), VerifyOpcodeF3(35, 1), VerifyOpcodeF3(35, 2)>> >>

Accepts(arm, opcode, func3, func7) ==
  /\ arm.opcode = opcode
  /\ arm.func3 \in {ANY, func3}
  /\ arm.func7 \in {ANY, func7}

ArmsFor(opcode, func3, func7) ==
  {e \in (1 .. 7) \X (1 .. 8) : e[2] <= Len(Arms[e[1]]) /\ Accepts(Arms[e[1]][e[2]], opcode, func3, func7)}

OpECALL == <<3, 8>>

\* Decoder: the immediates as <<low, high>>, from fields of one or two bits.
CircuitImm(w) ==
  LET high == [f7_6 |-> Field(w, 31, 31), f7_45 |-> Field(w, 29, 30), f7_23 |-> Field(w, 27, 28), f7_01 |-> Field(w, 25, 26),
               rs2_34 |-> Field(w, 23, 24), rs2_12 |-> Field(w, 21, 22), rs2_0 |-> Field(w, 20, 20),
               rs1_34 |-> Field(w, 18, 19), rs1_12 |-> Field(w, 16, 17)]
      low  == [rs1_0 |-> Field(w, 15, 15), f3_2 |-> Field(w, 14, 14), f3_01 |-> Field(w, 12, 13),
               rd_34 |-> Field(w, 10, 11), rd_12 |-> Field(w, 8, 9), rd_0 |-> Field(w, 7, 7)]
      sign == high.f7_6
      func7low == high.f7_45 * 16 + high.f7_23 * 4 + high.f7_01
      func7 == sign * 64 + func7low
      func3 == low.f3_2 * 4 + low.f3_01
      rs2 == high.rs2_34 * 8 + high.rs2_12 * 2 + high.rs2_0
      rd  == low.rd_34 * 8 + low.rd_12 * 2 + low.rd_0
  IN  [I |-> <<sign * 61440 + func7 * 32 + rs2, sign * 65535>>,
       S |-> <<sign * 61440 + func7 * 32 + rd, sign * 65535>>,
       B |-> <<sign * 61440 + low.rd_0 * 2048 + func7low * 32 + low.rd_34 * 8 + low.rd_12 * 2, sign * 65535>>,
       U |-> <<low.rs1_0 * 32768 + low.f3_2 * 16384 + low.f3_01 * 4096, Field(w, 16, 31)>>,
       J |-> <<low.rs1_0 * 32768 + func3 * 4096 + high.rs2_0 * 2048 + func7low * 32 + high.rs2_34 * 8 + high.rs2_12 * 2,
               sign * 65520 + high.rs1_34 * 4 + high.rs1_12>>]

Halves(w) == <<Field(w, 0, 15), Field(w, 16, 31)>>

ImmediatesAgree(w) ==
  LET c == CircuitImm(w)
  IN  /\ c.I = Halves(ImmI(w)) /\ c.S = Halves(ImmS(w)) /\ c.B = Halves(ImmB(w))
      /\ c.U = Halves(ImmU(w)) /\ c.J = Halves(ImmJ(w))

\* The circuit's arm is the emulator's entry, and there is no other.
DecodeAgrees(opcode) ==
  \A func3 \in 0 .. 7, func7 \in 0 .. 127 :
    ArmsFor(opcode, func3, func7) \ {OpECALL}
      = {e \in Lookup(opcode, func3, func7) : e[1] <= 7}
=============================================================================
