-------------------------------- MODULE Alu ---------------------------------
(***************************************************************************)
(* What an rv32im instruction computes: RV32Emulator (shared/rv32im.h), in *)
(* integer arithmetic, and the circuit (dsl/u32.zir, mult.zir, inst_*.zir),*)
(* as the set of results its constraints leave a prover.  A word has two   *)
(* limbs of two bytes; a register that is looked up ranges over a byte or  *)
(* a limb, and sums of limbs stay below the field's prime.                 *)
(***************************************************************************)
EXTENDS Integers, FiniteSets, FiniteSetsExt

CONSTANT BYTE      \* bits in a byte, 8

WORD_BITS == 4 * BYTE
B == 2^BYTE        \* 0x100
L == B * B         \* 0x10000
N == L * L         \* 2^32
Bit   == 0 .. 1
U8    == 0 .. B - 1
U16   == 0 .. L - 1
Words == 0 .. N - 1

Low(x)    == x % L
High(x)   == x \div L
Val(l, h) == l + L * h
ByteAt(x, k) == x \div B^k % B
ONES == N - 1

Bits(x) == {k \in 0 .. WORD_BITS - 1 : x \div 2^k % 2 = 1}
FromBits(bits) == MapThenSumSet(LAMBDA k : 2^k, bits)

-----------------------------------------------------------------------------
(* The emulator                                                            *)

Int32(x) == IF x >= N \div 2 THEN x - N ELSE x

EmuMisc(op, x, y) ==
  CASE op = "add"  -> (x + y) % N
    [] op = "sub"  -> (x - y) % N
    [] op = "xor"  -> FromBits((Bits(x) \ Bits(y)) \cup (Bits(y) \ Bits(x)))
    [] op = "or"   -> FromBits(Bits(x) \cup Bits(y))
    [] op = "and"  -> FromBits(Bits(x) \cap Bits(y))
    [] op \in {"slt", "blt"}   -> IF Int32(x) < Int32(y) THEN 1 ELSE 0
    [] op \in {"sltu", "bltu"} -> IF x < y THEN 1 ELSE 0
    [] op = "bge"  -> IF Int32(x) >= Int32(y) THEN 1 ELSE 0
    [] op = "bgeu" -> IF x >= y THEN 1 ELSE 0
    [] op = "beq"  -> IF x = y THEN 1 ELSE 0
    [] op = "bne"  -> IF x # y THEN 1 ELSE 0

EmuMul(op, x, y) ==
  CASE op = "sll"    -> (x * 2^(y % WORD_BITS)) % N
    [] op = "mul"    -> (x * y) % N
    [] op = "mulh"   -> ((Int32(x) * Int32(y)) \div N) % N
    [] op = "mulhsu" -> ((Int32(x) * y) \div N) % N
    [] op = "mulhu"  -> (x * y) \div N

\* C's division, towards zero.
Abs(a) == IF a < 0 THEN -a ELSE a
Quot(a, b) == LET q == Abs(a) \div Abs(b) IN IF (a < 0) # (b < 0) THEN -q ELSE q

EmuDiv(op, x, y) ==
  LET a == Int32(x)
      b == Int32(y)
  IN  CASE op = "srl"  -> x \div 2^(y % WORD_BITS)
        [] op = "sra"  -> (a \div 2^(y % WORD_BITS)) % N
        [] op = "divu" -> IF y = 0 THEN ONES ELSE x \div y
        [] op = "remu" -> IF y = 0 THEN x ELSE x % y
        [] op = "div"  -> CASE y = 0                        -> ONES
                            [] x = N \div 2 /\ y = ONES      -> x
                            [] OTHER                         -> Quot(a, b) % N
        [] op = "rem"  -> CASE y = 0                        -> x
                            [] x = N \div 2 /\ y = ONES      -> 0
                            [] OTHER                         -> (a - b * Quot(a, b)) % N

\* {} is a trap.  low2 is addr & 3.
EmuLoad(op, data, low2) ==
  LET byte == ByteAt(data, low2)
      half == (data \div B^low2) % L
  IN  CASE op = "lb"  -> {IF byte >= B \div 2 THEN N - B + byte ELSE byte}
        [] op = "lbu" -> {byte}
        [] op = "lh"  /\ low2 % 2 = 0 -> {IF half >= L \div 2 THEN N - L + half ELSE half}
        [] op = "lhu" /\ low2 % 2 = 0 -> {half}
        [] op = "lw"  /\ low2 = 0     -> {data}
        [] OTHER -> {}

EmuStore(op, data, y, low2) ==
  LET put(size) == {data - ((data \div B^low2) % size) * B^low2 + (y % size) * B^low2}
  IN  CASE op = "sb" -> put(B)
        [] op = "sh" /\ low2 % 2 = 0 -> put(L)
        [] op = "sw" /\ low2 = 0     -> {y}
        [] OTHER -> {}

-----------------------------------------------------------------------------
(* The circuit: sums of limbs, normalized                                  *)

\* NormalizeU32, all the ways to satisfy it.
Normalize(low, high) ==
  {n \in [low : U16, lowCarry : Bit, high : U16, carry : Bit] :
     /\ low = n.lowCarry * L + n.low
     /\ high + n.lowCarry = n.carry * L + n.high}

Normed(low, high) == {Val(n.low, n.high) : n \in Normalize(low, high)}

AddU32(x, y) == <<Low(x) + Low(y), High(x) + High(y)>>

\* Mutant: no borrow is set aside for the low limb.
SubU32NoBorrow(x, y) == <<L + Low(x) - Low(y), L + High(x) - High(y)>>

\* SubU32: both limbs are kept from underflowing.
SubU32(x, y) == <<L + Low(x) - Low(y), L - 1 + High(x) - High(y)>>

Sign(x) == High(x) \div (L \div 2)

LessUnsigned(x, y) ==
  {1 - n.carry : n \in Normalize(SubU32(x, y)[1], SubU32(x, y)[2])}

\* CmpLessThan: the sign of the difference, unless it overflowed.
Less(x, y) ==
  {LET s1 == Sign(x)
       s2 == Sign(y)
       s3 == Sign(Val(n.low, n.high))
       overflow == s1 * (1 - s2) * (1 - s3) + (1 - s1) * s2 * s3
   IN  overflow + s3 - 2 * overflow * s3 : n \in Normalize(SubU32(x, y)[1], SubU32(x, y)[2])}

Equal(x, y) == {(IF Low(x) = Low(y) THEN 1 ELSE 0) * (IF High(x) = High(y) THEN 1 ELSE 0)}

AndU16(x, y) == MapThenSumSet(LAMBDA k : 2^k * (x \div 2^k % 2) * (y \div 2^k % 2), 0 .. 2 * BYTE - 1)

\* BitwiseAnd, BitwiseOr, BitwiseXor: the conjunction is taken off as often.
Bitwise(op, x, y) ==
  LET limb(a, b) == CASE op = "and" -> AndU16(a, b)
                      [] op = "or"  -> a + b - AndU16(a, b)
                      [] op = "xor" -> a + b - 2 * AndU16(a, b)
  IN  Normed(limb(Low(x), Low(y)), limb(High(x), High(y)))

CirMisc(op, x, y) ==
  CASE op = "add"                 -> Normed(AddU32(x, y)[1], AddU32(x, y)[2])
    [] op = "sub"                 -> Normed(SubU32(x, y)[1], SubU32(x, y)[2])
    [] op \in {"xor", "or", "and"} -> Bitwise(op, x, y)
    [] op \in {"slt", "blt"}      -> Less(x, y)
    [] op \in {"sltu", "bltu"}    -> LessUnsigned(x, y)
    [] op = "bge"                 -> {1 - c : c \in Less(x, y)}
    [] op = "bgeu"                -> {1 - c : c \in LessUnsigned(x, y)}
    [] op = "beq"                 -> Equal(x, y)
    [] op = "bne"                 -> {1 - c : c \in Equal(x, y)}

-----------------------------------------------------------------------------
(* The circuit: products                                                   *)

\* SplitTotal: a limb, and a carry of a byte and two bits.
Splits(total) == total \in 0 .. 4 * B * L - 1
Carry(total)  == total \div L

\* MultiplyAccumulate, a * b + c: at most one <<outLow, outHigh>>.  Negative
\* factors are subtracted from the upper limbs, which borrow from the next.
MultiplyAccumulate(a, b, c, aSigned, bSigned, cSigned) ==
  LET x(k) == ByteAt(a, k)
      y(k) == ByteAt(b, k)
      aNeg == Sign(a) * aSigned
      bNeg == Sign(b) * bSigned
      fill == (L - 1) * Sign(c) * cSigned
      t0 == Low(c) + x(0) * y(0) + B * (x(0) * y(1) + x(1) * y(0))
      t1 == High(c) + Carry(t0) + x(0) * y(2) + x(1) * y(1) + x(2) * y(0)
              + B * (x(0) * y(3) + x(1) * y(2) + x(2) * y(1) + x(3) * y(0))
      t2 == Carry(t1) + fill + 2 * L - Low(a) * bNeg - Low(b) * aNeg
              + x(1) * y(3) + x(2) * y(2) + x(3) * y(1) + B * (x(2) * y(3) + x(3) * y(2))
      t3 == Carry(t2) + fill + 2 * L - 2 - High(a) * bNeg - High(b) * aNeg + x(3) * y(3)
  IN  IF Splits(t0) /\ Splits(t1) /\ Splits(t2) /\ t3 \in 0 .. 4 * L - 1
      THEN {<<Val(t0 % L, t1 % L), Val(t2 % L, t3 % L)>>}
      ELSE {}

DynPo2(y) == 2^(Low(y) % WORD_BITS)

CirMul(op, x, y) ==
  LET do(b, s1, s2) == MultiplyAccumulate(x, b, 0, s1, s2, 0)
      low(m)  == {p[1] : p \in m}
      high(m) == {p[2] : p \in m}
  IN  CASE op = "sll"    -> low(do(DynPo2(y), 0, 0))
        [] op = "mul"    -> low(do(y, 0, 0))
        [] op = "mulh"   -> high(do(y, 1, 1))
        [] op = "mulhsu" -> high(do(y, 1, 0))
        [] op = "mulhu"  -> high(do(y, 0, 0))

\* DoDiv: a quotient and a remainder, guessed.
DoDiv(numer, denom, signed) ==
  {qr \in Words \X Words :
     /\ \E m \in MultiplyAccumulate(qr[1], denom, qr[2], signed, signed, signed) :
          m[1] = numer /\ m[2] \in {0, ONES}
     /\ IF denom = 0 THEN qr[2] = numer ELSE LessUnsigned(qr[2], denom) = {1}}

FlipU32(flip, x) == IF flip = 1 THEN ONES - x ELSE x

CirDiv(op, x, y) ==
  LET quot(qrs) == {qr[1] : qr \in qrs}
      rem(qrs)  == {qr[2] : qr \in qrs}
  IN  CASE op = "srl"  -> quot(DoDiv(x, DynPo2(y), 0))
        [] op = "sra"  -> {FlipU32(Sign(x), q) :
                             q \in quot(DoDiv(FlipU32(Sign(x), x), DynPo2(y), 0))}
        [] op = "div"  -> quot(DoDiv(x, y, 1))
        [] op = "divu" -> quot(DoDiv(x, y, 0))
        [] op = "rem"  -> rem(DoDiv(x, y, 1))
        [] op = "remu" -> rem(DoDiv(x, y, 0))

-----------------------------------------------------------------------------
(* The circuit: parts of words                                             *)

\* With low0 and low1 the two bits of low2.
CirLoad(op, data, low2) ==
  LET low16 == IF low2 \div 2 = 1 THEN High(data) ELSE Low(data)
      low8  == IF low2 % 2 = 1 THEN low16 \div B ELSE low16 % B
      sign8  == low8 \div (B \div 2)
      sign16 == low16 \div (L \div 2)
  IN  CASE op = "lb"  -> {Val(low8 + (L - B) * sign8, (L - 1) * sign8)}
        [] op = "lbu" -> {Val(low8, 0)}
        [] op = "lh"  /\ low2 % 2 = 0 -> {Val(low16, (L - 1) * sign16)}
        [] op = "lhu" /\ low2 % 2 = 0 -> {Val(low16, 0)}
        [] op = "lw"  /\ low2 = 0     -> {data}
        [] OTHER -> {}

CirStore(op, data, y, low2) ==
  LET b0 == low2 % 2
      b1 == low2 \div 2
      low16 == IF b1 = 1 THEN High(data) ELSE Low(data)
      newByte == Low(y) % B
      word == CASE op = "sb" -> b0 * (low16 % B) + (1 - b0) * newByte
                                 + B * ((1 - b0) * (low16 \div B) + b0 * newByte)
                [] op = "sh" -> Low(y)
                [] OTHER     -> 0
      placed == Val(b1 * Low(data) + (1 - b1) * word, (1 - b1) * High(data) + b1 * word)
  IN  CASE op = "sb"            -> {placed}
        [] op = "sh" /\ b0 = 0  -> {placed}
        [] op = "sw" /\ low2 = 0 -> {y}
        [] OTHER -> {}

-----------------------------------------------------------------------------
MiscOps  == {"add", "sub", "xor", "or", "and", "slt", "sltu", "blt", "bge", "bltu", "bgeu", "beq", "bne"}
MulOps   == {"sll", "mul", "mulh", "mulhsu", "mulhu"}
DivOps   == {"srl", "sra", "div", "divu", "rem", "remu"}
LoadOps  == {"lb", "lh", "lw", "lbu", "lhu"}
StoreOps == {"sb", "sh", "sw"}

Computes(op, x, y) ==
  CASE op \in MiscOps -> CirMisc(op, x, y) = {EmuMisc(op, x, y)}
    [] op \in MulOps  -> CirMul(op, x, y) = {EmuMul(op, x, y)}
    [] op \in DivOps  -> CirDiv(op, x, y) = {EmuDiv(op, x, y)}

Allows(op, x, y) == EmuDiv(op, x, y) \in CirDiv(op, x, y)
=============================================================================
