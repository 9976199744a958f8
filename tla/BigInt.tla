------------------------------- MODULE BigInt -------------------------------
(***************************************************************************)
(* The BigInt dialect (Dialect/BigInt): the types inferred for its values, *)
(* the evaluation that computes a witness, the passes that expand reduce   *)
(* and inv, the lowering that checks the witness at a point z, and the     *)
(* bytecode of a program.  An evaluation at z is modelled as the           *)
(* polynomial it is the value of.                                          *)
(*                                                                         *)
(* A program is a sequence of ops, an operand the index of the op that     *)
(* gives it.  A polynomial is the sequence of its coefficients.            *)
(***************************************************************************)
EXTENDS Folding, SequencesExt, FiniteSetsExt

CONSTANTS
  BITS,       \* kBitsPerCoeff, 8
  PER_POLY,   \* kCoeffsPerPoly, 16
  MARGIN,     \* the bits toAPInt adds to a polynomial's, 32
  P           \* Fp::P, 15 * 2^27 + 1

BASE == 2^BITS
CeilDiv(a, b) == (a + b - 1) \div b
Larger(a, b)  == IF a >= b THEN a ELSE b
Smaller(a, b) == IF a <= b THEN a ELSE b
Log2Ceil(x)   == CHOOSE k \in 0 .. 31 : 2^k >= x /\ \A j \in 0 .. k - 1 : 2^j < x

-----------------------------------------------------------------------------
(* Types                                                                   *)

BigIntType(coeffs, maxPos, maxNeg, minBits) ==
  [coeffs |-> coeffs, maxPos |-> maxPos, maxNeg |-> maxNeg, minBits |-> minBits]
NoType == BigIntType(0, 0, 0, 0)

Verified(t) == (t.maxNeg > 0 => t.minBits = 0) /\ t.maxPos + t.maxNeg < P

\* getMaxPosBits: the bits a value can have.
MaxPosBits(t) ==
  LET bits  == Log2Ceil(t.maxPos + 1)
      extra == IF bits <= BITS THEN 0 ELSE bits - BITS + (IF t.coeffs > 1 THEN 1 ELSE 0)
  IN  BITS * t.coeffs + extra

CarryOffset(t) == (Larger(t.maxPos, t.maxNeg) + 3 * BITS) \div BITS

CarryBytes(t) ==
  LET maxCarry == CarryOffset(t) * 2
  IN  CASE maxCarry < BASE -> 1 [] maxCarry \div BASE < BASE -> 2 [] OTHER -> 4
NormalWitnessSize(t) == CeilDiv(t.coeffs, PER_POLY)
\* The carries the checked bytes can hold: the third is below BASE \div 4.
CarryCapacity(t) == CASE CarryBytes(t) = 1 -> BASE [] CarryBytes(t) = 2 -> BASE^2 [] OTHER -> BASE^2 * (BASE \div 4)
CarriesFit(t) ==
  LET most == Larger(t.maxPos, t.maxNeg) \div (BASE - 1)
  IN  CarryOffset(t) - most >= 0 /\ CarryOffset(t) + most < CarryCapacity(t)
CarryWitnessSize(t)  == NormalWitnessSize(t) * CarryBytes(t)

Bytes(bits, minBits) == BigIntType(CeilDiv(bits, BITS), BASE - 1, 0, minBits)

ActiveBits(n) == Log2Ceil(n + 1)

AddType(s, t) ==
  LET maxNeg == s.maxNeg + t.maxNeg
  IN  BigIntType(Larger(s.coeffs, t.coeffs), s.maxPos + t.maxPos, maxNeg,
                 IF maxNeg > 0 THEN 0 ELSE Larger(s.minBits, t.minBits))

SubType(s, t) == BigIntType(Larger(s.coeffs, t.coeffs), s.maxPos + t.maxNeg, s.maxNeg + t.maxPos, 0)

MulType(s, t) ==
  LET pairs == Smaller(s.coeffs, t.coeffs)
  IN  BigIntType(s.coeffs + t.coeffs - 1,
                 pairs * Larger(s.maxPos * t.maxPos, s.maxNeg * t.maxNeg),
                 pairs * Larger(s.maxPos * t.maxNeg, s.maxNeg * t.maxPos),
                 IF s.minBits = 0 \/ t.minBits = 0 THEN 0 ELSE s.minBits + t.minBits - 1)

RemType(s, t) == Bytes(Smaller(MaxPosBits(s), MaxPosBits(t)), 0)

QuotType(s, t) == Bytes(MaxPosBits(s) - (IF t.minBits > 0 THEN t.minBits - 1 ELSE 0), 0)

InvType(s, t) == Bytes(MaxPosBits(t), 0)

Def(width, label, isPublic, minBits) ==
  [code |-> "def", width |-> width, label |-> label, isPublic |-> isPublic, minBits |-> minBits]
Const(width, value)        == [code |-> "const", width |-> width, value |-> value]
Load(width, at, minBits)   == [code |-> "load", width |-> width, at |-> at, minBits |-> minBits]
Store(a, at)               == [code |-> "store", a |-> a, at |-> at]
Bin(code, a, b)            == [code |-> code, a |-> a, b |-> b]
Eqz(a)                     == [code |-> "eqz", a |-> a]

\* inferReturnTypes, given the types of the ops before.
Infer(op, types) ==
  CASE op.code \in {"def", "load"} -> Bytes(op.width, op.minBits)
    [] op.code = "const"           -> Bytes(op.width, ActiveBits(op.value))
    [] op.code = "add"             -> AddType(types[op.a], types[op.b])
    [] op.code = "sub"             -> SubType(types[op.a], types[op.b])
    [] op.code = "mul"             -> MulType(types[op.a], types[op.b])
    [] op.code \in {"rem", "reduce"} -> RemType(types[op.a], types[op.b])
    [] op.code = "quot"            -> QuotType(types[op.a], types[op.b])
    [] op.code \in {"inv", "nondet_inv"} -> InvType(types[op.a], types[op.b])
    [] OTHER                       -> NoType

Types(program) == LongFold(LAMBDA types, i : Append(types, Infer(program[i], types)), <<>>, Len(program))

-----------------------------------------------------------------------------
(* Polynomials                                                             *)

Coeff(p, i) == IF i \in DOMAIN p THEN p[i] ELSE 0
Poly(n, F(_)) == [i \in 1 .. n |-> F(i)]

Value(p) == MapThenSumSet(LAMBDA i : p[i] * BASE^(i - 1), DOMAIN p)
Width(p) == Len(p) * BITS + MARGIN
ToAPInt(p) == Value(p) % 2^Width(p)
FromAPInt(n, coeffs) == Poly(coeffs, LAMBDA i : n \div BASE^(i - 1) % BASE)

Plus(p, q)  == Poly(Larger(Len(p), Len(q)), LAMBDA i : Coeff(p, i) + Coeff(q, i))
Minus(p, q) == Poly(Larger(Len(p), Len(q)), LAMBDA i : Coeff(p, i) - Coeff(q, i))
Times(p, q) ==
  Poly(Len(p) + Len(q) - 1,
       LAMBDA k : MapThenSumSet(LAMBDA i : Coeff(p, i) * Coeff(q, k + 1 - i), DOMAIN p))
SamePoly(p, q) == \A i \in 1 .. Larger(Len(p), Len(q)) : Coeff(p, i) = Coeff(q, i)

\* nondetInv: a ^ (m - 2) by squaring, in twice the modulus's width.
InverseOf(p, q) ==
  LET m    == ToAPInt(q)
      bits == Width(q)
      wide == 2^(2 * bits)
      go[k \in 0 .. bits] ==
        IF k = 0 THEN [inv |-> 1, sqr |-> ToAPInt(p)]
        ELSE LET last == go[k - 1]
             IN  [inv |-> IF (m - 2) \div 2^(k - 1) % 2 = 1 THEN ((last.inv * last.sqr) % wide) % m ELSE last.inv,
                  sqr |-> ((last.sqr * last.sqr) % wide) % m]
  IN  go[bits].inv

-----------------------------------------------------------------------------
(* Evaluation                                                              *)

\* The carries of a polynomial that is zero at BASE: C's division is exact.
Quot256(a) == IF a >= 0 THEN a \div BASE ELSE -((-a) \div BASE)
Carries(p) ==
  FoldLeft(LAMBDA carries, c : Append(carries, Quot256(c + Coeff(carries, Len(carries)))), <<>>, p)

\* The polynomials of the bytes of the carries, each moved up by the offset.
CarryPolys(p, t) ==
  LET cs   == Carries(p)
      u    == Poly(t.coeffs, LAMBDA i : cs[i] + CarryOffset(t))
      byte(k) == Poly(t.coeffs, LAMBDA i : u[i] \div BASE^k % BASE)
  IN  CASE CarryBytes(t) = 1 -> <<byte(0)>>
        [] CarryBytes(t) = 2 -> <<byte(0), byte(1)>>
        [] CarryBytes(t) = 4 -> <<byte(0), byte(1), byte(2), Poly(t.coeffs, LAMBDA i : 4 * byte(2)[i])>>

\* "Build the 'full width' version of the carry polynomial", less the offset.
BigCarry(parts, t) ==
  Minus(FoldLeftDomain(LAMBDA sum, k : Plus(sum, Times(parts[k], <<BASE^(k - 1)>>)), <<0>>,
                       SubSeq(parts, 1, Smaller(Len(parts), 3))),
        Poly(t.coeffs, LAMBDA i : CarryOffset(t)))

CarryHolds(p, parts, t) ==
  LET big == BigCarry(parts, t)
  IN  \A i \in 1 .. t.coeffs : Coeff(p, i) - BASE * Coeff(big, i) + Coeff(big, i - 1) = 0

Started == [polys |-> <<>>, public |-> <<>>, private |-> <<>>, const |-> <<>>, stored |-> {}, error |-> ""]

\* One op: what it gives, and the witness it adds to.  A zero divisor is a
\* failure of APInt's own.
EvalOp(s, op, t, io) ==
  LET arg(i)  == s.polys[i]
      give(p) == [s EXCEPT !.polys = Append(@, p)]
      hint(n) == LET p == FromAPInt(n, t.coeffs)
                 IN  [s EXCEPT !.polys = Append(@, p), !.private = Append(@, p)]
      fail(e) == [s EXCEPT !.polys = Append(@, <<0>>), !.error = e]
  IN  IF s.error # "" THEN s
      ELSE CASE op.code = "def" ->
                  LET p == FromAPInt(io[op.label], t.coeffs)
                  IN  IF op.isPublic
                      THEN [s EXCEPT !.polys = Append(@, p), !.public = Append(@, p)]
                      ELSE [s EXCEPT !.polys = Append(@, p), !.private = Append(@, p)]
             [] op.code = "const" ->
                  LET p == FromAPInt(op.value, t.coeffs)
                  IN  [s EXCEPT !.polys = Append(@, p), !.const = Append(@, p)]
             [] op.code = "load"  -> give(FromAPInt(io[op.at], t.coeffs))
             [] op.code = "store" ->
                  [s EXCEPT !.polys = Append(@, <<0>>),
                            !.stored = @ \cup {<<op.at, Value(arg(op.a)) % BASE^Len(arg(op.a))>>}]
             [] op.code = "add" -> give(Plus(arg(op.a), arg(op.b)))
             [] op.code = "sub" -> give(Minus(arg(op.a), arg(op.b)))
             [] op.code = "mul" -> give(Times(arg(op.a), arg(op.b)))
             [] op.code \in {"rem", "quot", "nondet_inv"} ->
                  LET n == ToAPInt(arg(op.a))
                      d == ToAPInt(arg(op.b))
                  IN  CASE d = 0            -> fail("division by zero")
                        [] d # 0 /\ op.code = "rem"  -> hint(n % d)
                        [] d # 0 /\ op.code = "quot" -> hint(n \div d)
                        [] OTHER                     -> hint(InverseOf(arg(op.a), arg(op.b)))
             [] op.code = "eqz" ->
                  LET p  == arg(op.a)
                      cs == CarryPolys(p, t)
                  IN  CASE ToAPInt(p) # 0            -> fail("NONZERO")
                        [] ToAPInt(p) = 0 /\ ~CarryHolds(p, cs, t) -> fail("CARRY")
                        [] OTHER -> [s EXCEPT !.polys = Append(@, <<0>>), !.private = @ \o cs]
             [] OTHER -> fail("Unknown op in eval")

\* eval: an eqz is evaluated at the type of its operand.
Eval(program, types, io) ==
  LongFold(LAMBDA s, i : EvalOp(s, program[i],
                                IF program[i].code = "eqz" THEN types[program[i].a] ELSE types[i], io),
           Started, Len(program))

-----------------------------------------------------------------------------
(* LowerInv and LowerReduce                                                *)

\* The program so far, and where each op of the old program now is.
Emit(s, ops, result) == [program |-> s.program \o ops, at |-> Append(s.at, Len(s.program) + result)]
Moved(op, at) ==
  CASE op.code \in {"def", "const", "load"} -> op
    [] op.code \in {"store", "eqz"}         -> [op EXCEPT !.a = at[@]]
    [] OTHER                                -> [op EXCEPT !.a = at[@], !.b = at[@]]

Rewrite(code, Ops(_, _, _), result, program) ==
  LongFold(LAMBDA s, i :
             LET op == program[i]
             IN  IF op.code = code THEN Emit(s, Ops(Len(s.program), s.at[op.a], s.at[op.b]), result)
                 ELSE Emit(s, <<Moved(op, s.at)>>, 1),
           [program |-> <<>>, at |-> <<>>], Len(program)).program

\* n is the number of ops before.
LowerInv(program) ==
  Rewrite("inv", LAMBDA n, a, b : <<Const(1, 1), Bin("nondet_inv", a, b), Bin("mul", a, n + 2),
                                    Bin("reduce", n + 3, b), Bin("sub", n + 4, n + 1), Eqz(n + 5)>>, 2, program)

LowerReduce(program) ==
  Rewrite("reduce", LAMBDA n, a, b : <<Bin("quot", a, b), Bin("rem", a, b), Bin("mul", n + 1, b),
                                       Bin("add", n + 3, n + 2), Bin("sub", n + 4, a), Eqz(n + 5)>>, 2, program)

Lowered(program) == LowerReduce(LowerInv(program))

-----------------------------------------------------------------------------
(* LowerZll: the check of a witness                                        *)

\* computeDigest and hash_checked_bytes: a witness, polynomial by polynomial,
\* in chunks.
Chunks(p) == [k \in 1 .. CeilDiv(Len(p), PER_POLY) |-> Poly(PER_POLY, LAMBDA i : Coeff(p, (k - 1) * PER_POLY + i))]
AllChunks(polys) == FoldLeft(LAMBDA all, p : all \o Chunks(p), <<>>, polys)
AreBytes(chunks) == \A k \in DOMAIN chunks : \A i \in 1 .. PER_POLY : chunks[k][i] \in 0 .. BASE - 1

\* How many evaluations the check asks for.
Counts(program, types, public) ==
  MapThenSumSet(LAMBDA i : IF public THEN NormalWitnessSize(types[i])
                           ELSE IF program[i].code = "eqz" THEN CarryWitnessSize(types[program[i].a])
                           ELSE NormalWitnessSize(types[i]),
    {i \in DOMAIN program :
       CASE program[i].code = "def" -> program[i].isPublic = public
         [] OTHER -> ~public /\ program[i].code \in {"rem", "quot", "nondet_inv", "eqz"}})

\* Mutant: a polynomial takes one chunk.
ExtractOne(chunks, at, t) == SubSeq(chunks, at + 1, at + 1)[1]
\* extractPoly
Extract(chunks, at, t) == FlattenSeq(SubSeq(chunks, at + 1, at + NormalWitnessSize(t)))
CanExtract(chunks, at, t) == at + NormalWitnessSize(t) <= Len(chunks)

\* An op of the check.  w has the evaluations of the three witnesses, s where
\* the next polynomial is in each.  A private def is read from the public ones.
CheckOp(s, op, t, w) ==
  LET arg(i)  == s.vals[i]
      give(p) == [s EXCEPT !.vals = Append(@, p)]
      take(chunks, cur) ==
        IF ~CanExtract(chunks, s[cur], t) THEN [s EXCEPT !.vals = Append(@, <<0>>), !.ok = FALSE]
        ELSE [s EXCEPT !.vals = Append(@, Extract(chunks, s[cur], t)), ![cur] = @ + NormalWitnessSize(t)]
  IN  CASE op.code = "def"   -> take(w.public, IF op.isPublic THEN "curPublic" ELSE "curPrivate")
        [] op.code = "const" -> take(w.const, "curConst")
        [] op.code = "add"   -> give(Plus(arg(op.a), arg(op.b)))
        [] op.code = "sub"   -> give(Minus(arg(op.a), arg(op.b)))
        [] op.code = "mul"   -> give(Times(arg(op.a), arg(op.b)))
        [] op.code \in {"rem", "quot", "nondet_inv"} -> take(w.private, "curPrivate")
        [] op.code = "eqz" ->
             LET size  == NormalWitnessSize(t)
                 parts == [k \in 1 .. CarryBytes(t) |-> Extract(w.private, s.curPrivate + (k - 1) * size, t)]
                 tot   == BigCarry(parts, t)
             IN  [s EXCEPT !.vals = Append(@, <<0>>), !.curPrivate = @ + CarryWitnessSize(t),
                           !.ok = /\ @
                                  /\ Len(parts) = 4 => SamePoly(Times(parts[3], <<4>>), parts[4])
                                  /\ SamePoly(Times(tot, <<BASE, -1>>), arg(op.a))]
        [] OTHER -> [s EXCEPT !.ok = FALSE]

\* Is the witness accepted?
Check(program, types, witness) ==
  LET w == [public |-> AllChunks(witness.public), private |-> AllChunks(witness.private), const |-> AllChunks(witness.const)]
      s == FoldLeftDomain(LAMBDA s, i : CheckOp(s, program[i],
                                                IF program[i].code = "eqz" THEN types[program[i].a] ELSE types[i], w),
                          [vals |-> <<>>, curPublic |-> 0, curPrivate |-> 0, curConst |-> 0, ok |-> TRUE], program)
  IN  /\ Len(w.public) = Counts(program, types, TRUE)
      /\ Len(w.private) = Counts(program, types, FALSE)
      /\ AreBytes(w.public) /\ AreBytes(w.private)
      /\ s.ok

-----------------------------------------------------------------------------
(* The bytecode (Dialect/BigInt/Bytecode): a program of the dialect as     *)
(* tables and operations (encode.cpp), the file of them (file.cpp), and    *)
(* back (decode.cpp).  Indices in the tables count from 0.                 *)

Codes == [eqz |-> 0, def |-> 1, const |-> 2, load |-> 3, store |-> 4,
          add |-> 8, sub |-> 9, mul |-> 10, rem |-> 11, quot |-> 12, nondet_inv |-> 14]
CodeOf(n) == CHOOSE c \in DOMAIN Codes : Codes[c] = n
Binary == {"add", "sub", "mul", "rem", "quot", "nondet_inv"}

NoProgram == [inputs |-> <<>>, types |-> <<>>, constants |-> <<>>, ops |-> <<>>]
At(table, i) == table[i + 1]

\* lookup: the index of the type, or of a new one.
LookupType(types, t) ==
  LET same == {i \in DOMAIN types : types[i] = t}
  IN  IF same = {} THEN Len(types) ELSE Min(same) - 1

WithType(types, t) == IF LookupType(types, t) = Len(types) THEN Append(types, t) ELSE types

\* An op, its type t, and in: the operand's for a store.
EncodeOp(p, op, t) ==
  LET typed == IF op.code = "eqz" THEN p ELSE [p EXCEPT !.types = WithType(@, t)]
      out(a, b) == [code |-> Codes[op.code], type |-> IF op.code = "eqz" THEN 0 ELSE LookupType(p.types, t),
                    operandA |-> a, operandB |-> b]
      emit(q, a, b) == [q EXCEPT !.ops = Append(@, out(a, b))]
  IN  CASE op.code = "def" ->
             emit([typed EXCEPT !.inputs = Append(@, [label |-> op.label, bitWidth |-> op.width,
                                                      minBits |-> op.minBits, isPublic |-> op.isPublic])],
                  Len(p.inputs), 0)
        [] op.code = "const" -> emit([typed EXCEPT !.constants = Append(@, op.value)], Len(p.constants), 1)
        [] op.code = "load"  -> emit(typed, op.at, 0)
        [] op.code = "store" -> emit(typed, op.at, op.a - 1)
        [] op.code \in Binary -> emit(typed, op.a - 1, op.b - 1)
        [] op.code = "eqz"   -> emit(typed, op.a - 1, 0)

Encode(program, types) ==
  FoldLeftDomain(LAMBDA p, i : EncodeOp(p, program[i], IF program[i].code = "store" THEN types[program[i].a] ELSE types[i]),
                 NoProgram, program)

-----------------------------------------------------------------------------
(* The file                                                                *)

WriteU(n, size) == [k \in 1 .. size |-> (IF 8 * (k - 1) > 30 THEN 0 ELSE n \div 2^(8 * (k - 1))) % 256]
ReadU(bytes, at, size) == MapThenSumSet(LAMBDA k : IF k > 4 THEN 0 ELSE bytes[at + k] * 256^(k - 1), 1 .. size)

MAGIC == 1667392866     \* 0x63626962
BoolAs(b) == IF b THEN 1 ELSE 0

WriteHeader(p) == WriteU(MAGIC, 4) \o WriteU(1, 4) \o WriteU(Len(p.inputs), 4) \o WriteU(Len(p.types), 4)
                    \o WriteU(Len(p.constants), 4) \o WriteU(Len(p.ops), 4)
WriteInput(i) == WriteU(i.label, 8) \o WriteU(i.bitWidth, 4) \o WriteU(i.minBits, 2) \o WriteU(BoolAs(i.isPublic), 2)
WriteType(t)  == WriteU(t.coeffs, 8) \o WriteU(t.maxPos, 8) \o WriteU(t.maxNeg, 8) \o WriteU(t.minBits, 8)
\* Mutant: the type's four bits are put where the code's are.
WriteOpSwapped(o) == <<(o.type % 16) + 16 * o.code, o.type \div 16>> \o WriteU(o.operandA, 3) \o WriteU(o.operandB, 3)
\* Four bits of code, twelve of type, and 24 of each operand.
WriteOp(o)    == <<o.code + 16 * (o.type % 16), o.type \div 16>> \o WriteU(o.operandA, 3) \o WriteU(o.operandB, 3)
Writable(p) ==
  /\ \A k \in DOMAIN p.ops : /\ p.ops[k].code < 16 /\ p.ops[k].type < 4096
                             /\ p.ops[k].operandA < 16777216 /\ p.ops[k].operandB < 16777216
  /\ Len(p.types) <= 4095

Flat(F(_), table) == FlattenSeq([k \in DOMAIN table |-> F(table[k])])
Write(p) == WriteHeader(p) \o Flat(WriteInput, p.inputs) \o Flat(WriteType, p.types)
              \o Flat(LAMBDA c : WriteU(c, 8), p.constants) \o Flat(WriteOp, p.ops)

ReadInput(f, at) == [label |-> ReadU(f, at, 8), bitWidth |-> ReadU(f, at + 8, 4),
                     minBits |-> ReadU(f, at + 12, 2), isPublic |-> ReadU(f, at + 14, 2) # 0]
ReadType(f, at)  == BigIntType(ReadU(f, at, 8), ReadU(f, at + 8, 8), ReadU(f, at + 16, 8), ReadU(f, at + 24, 8))
ReadOp(f, at)    == [code |-> f[at + 1] % 16, type |-> (f[at + 1] \div 16) + 16 * f[at + 2],
                     operandA |-> ReadU(f, at + 2, 3), operandB |-> ReadU(f, at + 5, 3)]

Read(f) ==
  LET count(k) == ReadU(f, 4 + 4 * k, 4)
      inputs    == 24
      types     == inputs + 16 * count(1)
      constants == types + 32 * count(2)
      ops       == constants + 8 * count(3)
  IN  [inputs    |-> [k \in 1 .. count(1) |-> ReadInput(f, inputs + 16 * (k - 1))],
       types     |-> [k \in 1 .. count(2) |-> ReadType(f, types + 32 * (k - 1))],
       constants |-> [k \in 1 .. count(3) |-> ReadU(f, constants + 8 * (k - 1), 8)],
       ops       |-> [k \in 1 .. count(4) |-> ReadOp(f, ops + 8 * (k - 1))]]

-----------------------------------------------------------------------------
(* Decoding: the program, and the types it is built with                   *)

\* "reference to undefined value"
Defined(p) ==
  \A k \in DOMAIN p.ops :
    LET code == CodeOf(p.ops[k].code)
    IN  /\ (code \in Binary \cup {"eqz"}) => p.ops[k].operandA < k - 1
        /\ (code \in Binary \cup {"store"}) => p.ops[k].operandB < k - 1

\* A load is built from its width, which leaves its least bits at 0.
DecodeOp(p, o) ==
  LET code == CodeOf(o.code)
      wire == At(p.inputs, o.operandA)
  IN  CASE code = "def"   -> Def(wire.bitWidth, wire.label, wire.isPublic, wire.minBits)
        [] code = "const" -> Const(64 * o.operandB, At(p.constants, o.operandA))
        [] code = "load"  -> Load(BITS * At(p.types, o.type).coeffs, o.operandA, 0)
        [] code = "store" -> Store(o.operandB + 1, o.operandA)
        [] code = "eqz"   -> Eqz(o.operandA + 1)
        [] OTHER          -> Bin(code, o.operandA + 1, o.operandB + 1)

DecodedType(p, o) ==
  CASE CodeOf(o.code) \in {"eqz", "store"} -> NoType
    [] CodeOf(o.code) = "load"             -> Infer(DecodeOp(p, o), <<>>)
    [] OTHER                               -> At(p.types, o.type)

Decode(p) == [k \in DOMAIN p.ops |-> DecodeOp(p, p.ops[k])]
DecodedTypes(p) == [k \in DOMAIN p.ops |-> DecodedType(p, p.ops[k])]

=============================================================================
