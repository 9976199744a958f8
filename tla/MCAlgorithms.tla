---------------------------- MODULE MCAlgorithms ----------------------------
(***************************************************************************)
(* Algorithms without a state of their own, on chosen inputs: a behaviour  *)
(* picks one input, and the invariants say what is computed from it.       *)
(***************************************************************************)
EXTENDS Integers, Sequences, FiniteSets, FiniteSetsExt, TLC

VARIABLES
  input,      \* <<topic, ...>>
  result      \* what is computed from it, where it takes long

A4 == INSTANCE Alu WITH BYTE <- 1                \* words of 4 bits, every pair
A8 == INSTANCE Alu WITH BYTE <- 2                \* words of 8 bits
Dec == INSTANCE InstDecode
Bc == INSTANCE BigInt   WITH BITS <- 3, PER_POLY <- 2, MARGIN <- 4, P <- 65521
Real == INSTANCE BigInt2 WITH BITS <- 8, PER_POLY <- 16, MARGIN <- 32, P <- 2013265921
Ec == INSTANCE BigInt2 WITH BITS <- 4, PER_POLY <- 1, MARGIN <- 6, P <- 2013265921
Two == INSTANCE BigInt2 WITH BITS <- 4, PER_POLY <- 2, MARGIN <- 6, P <- 2013265921

Is(topic) == Len(input) > 1 /\ input[1] = topic

-----------------------------------------------------------------------------
(* Instructions                                                            *)

ByteEdges == {0, 1, 2, 3, 85, 127, 128, 129, 170, 252, 253, 254, 255}
AluInputs == ({"alu4"} \X A4!Words \X A4!Words) \cup ({"alu8"} \X ByteEdges \X A8!Words)

\* A load and a store of a part of a word, at every alignment, is the
\* emulator's, and what traps there has no row.
PartsMatch ==
  /\ Is("alu4") => \A op \in A4!LoadOps, low2 \in 0 .. 3 :
                     A4!CirLoad(op, input[2], low2) = A4!EmuLoad(op, input[2], low2)
  /\ Is("alu4") => \A op \in A4!StoreOps, low2 \in 0 .. 3 :
                     A4!CirStore(op, input[2], input[3], low2) = A4!EmuStore(op, input[2], input[3], low2)

\* Division of signed numbers apart, the circuit leaves one result for each
\* instruction, the emulator's, and stores it where the emulator does.  A
\* quotient by 0 is the emulator's or another.  A signed quotient and remainder
\* of a numerator that is not negative can be proved, whatever the denominator.
CircuitComputes ==
  /\ PartsMatch
  /\ Is("alu4") =>
       /\ \A op \in A4!MiscOps \cup A4!MulOps \cup {"srl", "sra", "remu"} : A4!Computes(op, input[2], input[3])
       /\ A4!Allows("divu", input[2], input[3])
       /\ input[3] # 0 => A4!Computes("divu", input[2], input[3])
       /\ A4!Int32(input[2]) >= 0 => \A op \in {"div", "rem"} : A4!Allows(op, input[2], input[3])
  /\ Is("alu8") => \A op \in A8!MiscOps \cup A8!MulOps : A8!Computes(op, input[2], input[3])

DecodeInputs == ({"opcode"} \X {k \in 0 .. 127 : k % 4 = 3})
                  \cup ({"word"} \X ({{a, b} : a, b \in 0 .. 31} \cup {{}, 0 .. 31}))

\* The row the emulator chooses for an instruction is the only one the circuit
\* takes it in, and a word that is none has no row; and the immediates are the
\* same.  Each bit of a word goes to its own places, so words of one bit are all
\* that matters, and of two to see they do not meet.
DecodeMatches ==
  /\ Is("opcode") => Dec!DecodeAgrees(input[2])
  /\ Is("word") => Dec!ImmediatesAgree(input[2])

-----------------------------------------------------------------------------
(* BigInt programs                                                         *)

Firsts  == {Bc!Def(3, 0, TRUE, 0), Bc!Def(6, 0, TRUE, 0), Bc!Const(6, 37)}
Seconds == {Bc!Def(3, 1, TRUE, 0), Bc!Def(6, 1, TRUE, 0), Bc!Def(6, 1, TRUE, 5), Bc!Load(6, 1, 0), Bc!Load(6, 1, 5)}
Thirds  == {Bc!Bin(code, 1, 2) : code \in {"add", "sub", "mul", "reduce", "inv"}} \cup {Bc!Bin("sub", 2, 1)}
Fourths == {Bc!Bin("add", 3, 1), Bc!Bin("sub", 3, 1), Bc!Bin("sub", 3, 2), Bc!Bin("mul", 3, 2),
            Bc!Bin("reduce", 3, 1), Bc!Bin("reduce", 3, 2), Bc!Eqz(3), Bc!Store(3, 5)}

Samples(op) ==
  IF op.code = "const" THEN {op.value}
  ELSE {v \in {0, 1, 7, 37, 63} : v < 2^op.width /\ (op.minBits > 0 => v >= 2^(op.minBits - 1))}
BigIntInputs ==
  UNION {{<<"bigint", <<a, b, c, d>>, <<x, y>> >> : c \in Thirds, d \in Fourths, x \in Samples(a), y \in Samples(b)} :
           a \in Firsts, b \in Seconds}

\* Expanded, with its types, and evaluated.
Evaluated(program, values) ==
  LET expanded == Bc!Lowered(program)
      types    == Bc!Types(expanded)
  IN  [program |-> expanded, types |-> types, io |-> values,
       eval |-> Bc!Eval(expanded, types, [label \in {0, 1} |-> values[label + 1]])]

Code(i) == result.program[i].code
EqzTypes == {result.types[result.program[i].a] : i \in {j \in DOMAIN result.program : Code(j) = "eqz"}}
Last == input[2][4].code

InType(p, t) ==
  /\ Len(p) = t.coeffs
  /\ \A i \in DOMAIN p : p[i] \in -t.maxNeg .. t.maxPos
  /\ t.minBits > 0 => Bc!Value(p) >= 2^(t.minBits - 1)
  /\ t.maxNeg = 0 => Bc!Value(p) < 2^Bc!MaxPosBits(t)

\* The divisions of an expanded program that are meant to work: a numerator
\* that cannot be negative, a divisor that is not 0, and a check whose carries
\* fit their bytes; an inverse is of a unit, modulo a prime.
Proper ==
  /\ \A i \in DOMAIN result.program :
       Code(i) \in {"rem", "quot"} =>
         LET s == result.types[result.program[i].a]
             t == result.types[result.program[i].b]
         IN  s.maxNeg = 0 /\ t.maxNeg = 0 /\ Bc!Value(result.eval.polys[result.program[i].b]) > 0
  /\ \A t \in EqzTypes : Bc!CarriesFit(t)
  /\ \A i \in DOMAIN result.program :
       Code(i) = "nondet_inv" =>
         result.io[2] \in {3, 7, 37} /\ result.io[1] % result.io[2] # 0 /\ result.types[1].coeffs <= result.types[2].coeffs

\* What is evaluated is within the bounds inferred for it, however the bounds
\* of the operands came about.  A reduce or an inv, expanded, evaluates: the
\* quotient and the remainder fit the widths inferred for them and the check
\* they end in holds.
InTypes ==
  /\ Is("bigint") /\ result.eval.error = "" =>
       \A i \in DOMAIN result.program :
         Code(i) \in {"eqz", "store"} \/ InType(result.eval.polys[i], result.types[i])
  /\ Is("bigint") /\ Last # "eqz" /\ result.eval.error # "" => ~Proper

\* The programs built into the zkVM
Shipped == {Real!genModPow65537(4096), Real!genECDouble(256), Real!genECAdd(256), Real!genModAdd(256),
            Real!genModInv(256), Real!genModMul(256), Real!genModSub(256)}

CarryInputs == {"carry"} \X (0 .. 2100 \cup 262000 .. 262300 \cup {100000, 1000000, 16646400, 16646655})

\* The witness of an evaluation, which keeps to the bounds its types give, is
\* one the check at z accepts, taken apart as it was put together; and the
\* carries of a check fit their bytes, for coefficients up to those of a
\* product of numbers of 2048 bits and a remainder.  No type of the programs that
\* are built into the zkVM is too large to be one.
WitnessAccepted ==
  /\ InTypes
  /\ Is("bigint") /\ Last # "store" /\ (\A i \in DOMAIN result.program : Code(i) # "load")
     /\ result.eval.error = "" /\ (\A t \in EqzTypes : Bc!CarriesFit(t))
     => Bc!Check(result.program, result.types, result.eval)
  /\ Is("carry") => Real!CarriesFit(Real!BigIntType(4, input[2], 0, 0))
  /\ Is("shipped") => LET types == Real!Types(Real!Lowered(input[2].program))
                      IN  \A i \in DOMAIN types : Real!Verified(types[i])

ReadBack == Bc!Read(Bc!Write(Bc!Encode(result.program, result.types)))

\* A program read back from its bytecode evaluates to the same witness and
\* stores the same values.
BytecodeKeepsMeaning ==
  Is("bigint") =>
    LET back == ReadBack
    IN  /\ Bc!Writable(back) /\ Bc!Defined(back)
        /\ Bc!Eval(Bc!Decode(back), Bc!DecodedTypes(back), [label \in {0, 1} |-> result.io[label + 1]]) = result.eval
        /\ (\A i \in DOMAIN result.program : Code(i) = "load" => result.program[i].minBits = 0) =>
              Bc!DecodedTypes(back) = result.types

-----------------------------------------------------------------------------
(* Programs on big integers                                                *)

\* Curves y^2 = x^3 + a x + b, one with 12 points besides 0, one with a point
\* of order 2.
Curves == {[p |-> 11, a |-> 1, b |-> 6], [p |-> 13, a |-> 1, b |-> 0]}
OnCurve(c, x, y) == (y * y) % c.p = (x * x * x + c.a * x + c.b) % c.p
Points(c) == {<<x, y>> \in (0 .. c.p - 1) \X (0 .. c.p - 1) : OnCurve(c, x, y)}
\* The same points, with any numbers that can be given for them
Forms(c) == {<<x, y>> \in (0 .. 15) \X (0 .. 15) : OnCurve(c, x, y)}

\* The group law: the line of slope m through two points, or the tangent at
\* one, meets the curve at a third, whose negation is the sum.  <<>> is 0.
Slopes(c, s, t) ==
  {m \in 0 .. c.p - 1 :
     IF (s[1] - t[1]) % c.p # 0 THEN (m * (t[1] - s[1]) - (t[2] - s[2])) % c.p = 0
     ELSE (s[2] - t[2]) % c.p = 0 /\ s[2] % c.p # 0 /\ (m * 2 * s[2] - 3 * s[1] * s[1] - c.a) % c.p = 0}
Sums(c, s, t) ==
  {LET x == (m * m - s[1] - t[1]) % c.p IN <<x, (m * (s[1] - x) - s[2]) % c.p>> : m \in Slopes(c, s, t)}
PointSum(c, s, t) ==
  CASE s = <<>> -> t [] t = <<>> -> s
    [] OTHER -> IF Sums(c, s, t) = {} THEN <<>> ELSE CHOOSE q \in Sums(c, s, t) : TRUE
PointTimes(c, n, s) == LET mult[i \in 0 .. n] == IF i = 0 THEN <<>> ELSE PointSum(c, mult[i - 1], s) IN mult[n]
Negated(c, s) == <<s[1], (c.p - s[2]) % c.p>>
Congruent(c, s, t) == (s[1] - t[1]) % c.p = 0 /\ (s[2] - t[2]) % c.p = 0

CurveInputs ==
  UNION {({"ecadd"} \X {c} \X Points(c) \X Points(c)) \cup ({"ecmul"} \X {c} \X Points(c) \X (0 .. 15)) : c \in Curves}
FormInputs ==
  UNION {{f \in {"ecforms"} \X {c} \X Forms(c) \X Forms(c) :
            f[3] = f[4] \/ (c.p = 11 /\ {f[3], f[4]} \cap Points(c) # {})} : c \in Curves}
PointInputs == UNION {{"ecpoint"} \X {c} \X (0 .. c.p - 1) \X (0 .. c.p - 1) : c \in Curves}
Residues(p) == {0, 1, 2, p \div 2, p - 2, p - 1}
ModInputs == UNION {{"mod"} \X {p} \X Residues(p) \X Residues(p) : p \in {7, 11, 13, 197, 251}}

\* Lowered, with types; each program is built once.
Ready(built) == Ec!Of(LAMBDA low : [program |-> low, types |-> Ec!Types(low)], Ec!Lowered(built.program))
ECAdd        == Ready(Ec!genECAdd(4))
ECDouble     == Ready(Ec!genECDouble(4))
ECAddTest    == Ready(Ec!makeECAddTest(4))
ECTwiceTest  == Ready(Ec!makeRepeatedECAddTest(4, 2))
ECDoubleTest == Ready(Ec!makeECDoubleTest(4))
ECAgainTest  == Ready(Ec!makeRepeatedECDoubleTest(4, 2))
ECEqualTest  == Ready(Ec!makeECValidatePointsEqualTest(4))
ECNegateTest == Ready(Ec!makeECNegateTest(4))
ECOnCurve    == Ready(Ec!makeECValidatePointOnCurveTest(4))
ECMultiply   == Ready(Ec!makeECMultiplyTest(4))
Widths       == {4, 8}
ModAdd       == [bits \in Widths |-> Ready(Ec!genModAdd(bits))]
ModSub       == [bits \in Widths |-> Ready(Ec!genModSub(bits))]
ModMul       == [bits \in Widths |-> Ready(Ec!genModMul(bits))]
ModInv       == [bits \in Widths |-> Ready(Ec!genModInv(bits))]
ModPow65537  == [bits \in Widths |-> Ready(Ec!genModPow65537(bits))]
RSAChecker   == [bits \in Widths |-> Ready(Ec!makeRSAChecker(bits))]
Run(ready, io) == Ec!Of(LAMBDA r : Ec!Eval(r.program, r.types, io), ready)
PointAt(arena, s) == (<<arena, 0>> :> s[1]) @@ (<<arena, 1>> :> s[2])
CurveAt(arena, c) == (<<arena, 0>> :> c.p) @@ (<<arena, 1>> :> c.a) @@ (<<arena, 2>> :> c.b)
Labels(values) == [label \in 0 .. Len(values) - 1 |-> values[label + 1]]

AddLoads(c, s, t) == PointAt(11, s) @@ PointAt(12, t) @@ CurveAt(13, c)
DoubleLoads(c, s) == PointAt(11, s) @@ CurveAt(12, c)
Stored(eval, arena) == {w[2] : w \in {v \in eval.stored : v[1] = <<arena, 0>>}}

\* Is q what the program stores?
StoresPoint(eval, arena, q) ==
  IF q = <<>> THEN eval.error # "" ELSE eval.error = "" /\ eval.stored = {<<<<arena, 0>>, q[1]>>, <<<<arena, 1>>, q[2]>>}
Passes(built, io, yes) == (Run(built, io).error = "") = yes

Added(c, s, t) == IF s[1] = t[1] THEN <<>> ELSE PointSum(c, s, t)
CurveParameters(c) == <<c.p, c.a, c.b>>

\* mul works by adding the doubled points to 1 * pt, whether or not their bit is
\* set, and by subtracting pt whether or not n is even: each sum must be of
\* points of different x.
TimesWorks(c, n, s) ==
  LET double(i)  == PointTimes(c, 2^i, s)
      partial(i) == PointTimes(c, 1 + 2 * ((n % 2^i) \div 2), s)
  IN  /\ \A i \in 0 .. 3 : double(i) # <<>> /\ double(i)[2] # 0
      /\ \A i \in 1 .. 3 : partial(i) # <<>> /\ partial(i)[1] # double(i)[1]
      /\ partial(4) # <<>> /\ partial(4)[1] # s[1]

AddComputes(c, s, t) ==
  LET sum  == Added(c, s, t)
      sum2 == IF sum = <<>> THEN <<>> ELSE Added(c, sum, t)
  IN  /\ StoresPoint(Run(ECAdd, AddLoads(c, s, t)), 14, sum)
      /\ Passes(ECEqualTest, Labels(s \o t \o CurveParameters(c)), s = t)
      /\ Passes(ECAddTest, Labels(s \o t \o (IF sum = <<>> THEN s ELSE sum) \o CurveParameters(c)), sum # <<>>)
      /\ Passes(ECTwiceTest, Labels(s \o t \o (IF sum2 = <<>> THEN s ELSE sum2) \o CurveParameters(c)),
                sum2 # <<>>)
DoubleComputes(c, s) ==
  LET sum == PointSum(c, s, s)
  IN  /\ StoresPoint(Run(ECDouble, DoubleLoads(c, s)), 13, sum)
      /\ Passes(ECDoubleTest, Labels(s \o (IF sum = <<>> THEN s ELSE sum) \o CurveParameters(c)), sum # <<>>)
      /\ Passes(ECAgainTest, Labels(s \o (IF sum = <<>> THEN s ELSE sum) \o CurveParameters(c)), sum # <<>>)
      /\ Passes(ECNegateTest, Labels(s \o <<s[1], c.p - s[2]>> \o CurveParameters(c)), TRUE)
Gives(e, arena, n) == e.error = "" /\ Stored(e, arena) = {n}
Ternary(p, x, y) == (<<11, 0>> :> x) @@ (<<12, 0>> :> y) @@ (<<13, 0>> :> p)
Pair(p, x)       == (<<11, 0>> :> x) @@ (<<12, 0>> :> p)
Binary(ready, p, x, y) == Run(ready, Ternary(p, x, y))
Unary(ready, p, x)     == Run(ready, Pair(p, x))
Power(p, x, n) == LET f[i \in 0 .. n] == IF i = 0 THEN 1 ELSE (f[i - 1] * x) % p IN f[n]
ModComputes(p, bits, x, y) ==
  /\ Gives(Binary(ModAdd[bits], p, x, y), 14, (x + y) % p)
  /\ Gives(Binary(ModSub[bits], p, x, y), 14, (x - y) % p)
  /\ Gives(Binary(ModMul[bits], p, x, y), 14, (x * y) % p)
  /\ Passes(RSAChecker[bits], Labels(<<p, x, y>>), y = Ec!RSA(p, x))
\* The power of x other than 0, by Fermat's theorem
UnaryComputes(p, bits, x) ==
  /\ Ec!RSA(p, x) = (IF x = 0 THEN 0 ELSE Power(p, x, 65537 % (p - 1)))
  /\ Gives(Unary(ModPow65537[bits], p, x), 13, Ec!RSA(p, x))
  /\ IF x = 0 THEN Unary(ModInv[bits], p, x).error # ""
     ELSE Gives(Unary(ModInv[bits], p, x), 13, Power(p, x, p - 2))

\* An honest prover: the programs compute what they are named for, on every
\* point of a curve and every scalar, and fail exactly where affine
\* coordinates have no answer or mul's fixed sequence of sums meets one.
CurveComputes ==
  /\ Is("mod") => ModComputes(input[2], IF input[2] < 16 THEN 4 ELSE 8, input[3], input[4])
  /\ Is("mod") /\ input[4] = 0 => UnaryComputes(input[2], IF input[2] < 16 THEN 4 ELSE 8, input[3])
  /\ Is("ecpoint") => Passes(ECOnCurve,
                             Labels(<<input[3], input[4]>> \o CurveParameters(input[2])),
                             OnCurve(input[2], input[3], input[4]))
  /\ Is("ecadd") => /\ AddComputes(input[2], input[3], input[4])
                    /\ input[3] = input[4] => DoubleComputes(input[2], input[3])
  /\ Is("ecmul") =>
       LET c == input[2]
           s == input[3]
           n == input[4]
       IN  Ec!Of(LAMBDA works : Passes(ECMultiply,
                                       Labels(s \o <<n>> \o (IF works THEN PointTimes(c, n, s) ELSE s) \o CurveParameters(c)),
                                       works),
                 TimesWorks(c, n, s))

\* The same programs on the accelerator, and with chunks of two coefficients,
\* where bytes are read past the carries.
AccAdd    == Ec!Splits(ECAdd)
AccDouble == Ec!Splits(ECDouble)
AccModAdd == [bits \in Widths |-> Ec!Splits(ModAdd[bits])]
AccModSub == [bits \in Widths |-> Ec!Splits(ModSub[bits])]
AccModMul == [bits \in Widths |-> Ec!Splits(ModMul[bits])]
AccModInv == [bits \in Widths |-> Ec!Splits(ModInv[bits])]
AccPower  == [bits \in Widths |-> Ec!Splits(ModPow65537[bits])]
ReadyTwo(built) == Two!Of(LAMBDA low : [program |-> low, types |-> Two!Types(low)], Two!Lowered(built.program))
TwoModMul == Two!Splits(ReadyTwo(Two!genModMul(8)))
TwoModInv == Two!Splits(ReadyTwo(Two!genModInv(8)))
Accelerates(g, io) == Ec!Proves(g, io) /\ Ec!Binds(g, io)
AcceleratesTwo(g, io) == Two!Proves(g, io) /\ Two!Binds(g, io)
AcceleratesMod(p, bits, x, y) ==
  /\ \A g \in {AccModAdd[bits], AccModSub[bits], AccModMul[bits]} : Accelerates(g, Ternary(p, x, y))
  /\ AcceleratesTwo(TwoModMul, Ternary(p, x, y))
  /\ y = 0 => /\ \A g \in {AccModInv[bits], AccPower[bits]} : Accelerates(g, Pair(p, x))
              /\ AcceleratesTwo(TwoModInv, Pair(p, x))

\* A program split into hints and a check of rows proves what the program
\* computes; other hints are accepted just where its equations hold; and the
\* carries of the programs built into the zkVM fit the rows.
AcceleratorHolds ==
  /\ Is("mod") => AcceleratesMod(input[2], IF input[2] < 16 THEN 4 ELSE 8, input[3], input[4])
  /\ Is("ecadd") /\ input[2].p = 11 => /\ Accelerates(AccAdd, AddLoads(input[2], input[3], input[4]))
                                         /\ input[3] = input[4] => Accelerates(AccDouble, DoubleLoads(input[2], input[3]))
  /\ Is("shipped") => Real!Of(LAMBDA low : Real!Fits(Real!Splits([program |-> low, types |-> Real!Types(low)])),
                              Real!Lowered(input[2].program))

\* A dishonest one.  The ops an eqz rests on, those of earlier ones apart, and
\* all values their hints may have; a quotient enters its equation linearly and
\* is solved for.
Rests(program) ==
  LET rests[i \in 1 .. Len(program)] ==
        LET op == program[i]
        IN  CASE op.code \in {"def", "const", "load"} -> {i}
              [] op.code \in {"eqz", "store"} -> {i} \cup rests[op.a]
              [] OTHER -> {i} \cup rests[op.a] \cup rests[op.b]
  IN  rests
Ascending(S) == SelectSeq([i \in 1 .. Max(S) |-> i], LAMBDA i : i \in S)
Groups(program) ==
  LET rests == Rests(program)
      eqz   == SelectSeq([i \in DOMAIN program |-> i], LAMBDA i : program[i].code = "eqz")
      upTo[k \in 0 .. Len(eqz)] == IF k = 0 THEN {} ELSE upTo[k - 1] \cup rests[eqz[k]]
  IN  [k \in DOMAIN eqz |-> Ascending(upTo[k] \ upTo[k - 1])]

Integer(vals, op, io) ==
  CASE op.code = "load"  -> io[op.at]
    [] op.code = "const" -> op.value
    [] op.code = "add"   -> vals[op.a] + vals[op.b]
    [] op.code = "sub"   -> vals[op.a] - vals[op.b]
    [] op.code = "mul"   -> vals[op.a] * vals[op.b]
    [] op.code = "eqz"   -> vals[op.a]
Values(program, group, vals, hints, io) ==
  Ec!LongFold(LAMBDA v, k : (group[k] :> IF group[k] \in DOMAIN hints THEN hints[group[k]]
                                         ELSE Integer(v, program[group[k]], io)) @@ v, vals, Len(group))
Hinted(program, group, codes) == {i \in {group[k] : k \in DOMAIN group} : program[i].code \in codes}
Solve(program, types, group, vals, io) ==
  LET quot == Hinted(program, group, {"quot"})
      With(h, k) == Values(program, group, vals, h @@ [q \in quot |-> k], io)
      Missing(v) == v[group[Len(group)]]
      Solved(h) ==
        LET at0 == Missing(With(h, 0))
            d   == Missing(With(h, 1)) - at0
        IN  IF d = 0 THEN (IF at0 = 0 THEN {With(h, 0)} ELSE {})
            ELSE {With(h, k) : k \in {j \in {(-at0) \div d} : /\ at0 + j * d = 0
                                                           /\ \A q \in quot : j \in 0 .. 16^types[q].coeffs - 1}}
  IN  UNION {Solved(h) : h \in [Hinted(program, group, {"rem", "nondet_inv"}) -> 0 .. 15]}
Grouped(ready) == [groups |-> Groups(ready.program)] @@ ready
GroupedAdd    == Grouped(ECAdd)
GroupedDouble == Grouped(ECDouble)
\* The points stored
Proved(g, io) ==
  LET at == SelectSeq(g.program, LAMBDA op : op.code = "store")
      solutions == Ec!LongFold(LAMBDA all, k : UNION {Solve(g.program, g.types, g.groups[k], v, io) : v \in all},
                               {<<>>}, Len(g.groups))
  IN  {<<v[at[1].a], v[at[2].a]>> : v \in solutions}

\* Whatever hints are given, a sum or a double proved is the point's, modulo p,
\* for every form of the points; and none is proved where there is none.
CurveSound ==
  Is("ecforms") =>
    LET c == input[2]
        s == input[3]
        t == input[4]
    IN  /\ \A q \in Proved(GroupedAdd, AddLoads(c, s, t)) :
             (s[1] - t[1]) % c.p # 0 /\ Congruent(c, q, PointSum(c, s, t))
        /\ s = t => \A q \in Proved(GroupedDouble, DoubleLoads(c, s)) :
                     s[2] % c.p # 0 /\ Congruent(c, q, PointSum(c, s, s))

-----------------------------------------------------------------------------
Init == input = <<>> /\ result = <<>>

ChooseTopic == input = <<>> /\ input' \in {<<"instruction">>, <<"program">>, <<"bound">>, <<"curve">>, <<"forms">>} /\ UNCHANGED result
ChooseInstruction == input = <<"instruction">> /\ input' \in AluInputs \cup DecodeInputs /\ UNCHANGED result
ChooseProgram ==
  /\ input = <<"program">>
  /\ \E i \in BigIntInputs : input' = i /\ result' = Evaluated(i[2], i[3])
ChooseBound == input = <<"bound">> /\ input' \in CarryInputs \cup {"shipped"} \X Shipped /\ UNCHANGED result
ChooseCurve == input = <<"curve">> /\ input' \in CurveInputs \cup PointInputs \cup ModInputs /\ UNCHANGED result
ChooseForms == input = <<"forms">> /\ input' \in FormInputs /\ UNCHANGED result

Next == ChooseTopic \/ ChooseInstruction \/ ChooseProgram \/ ChooseBound \/ ChooseCurve \/ ChooseForms
=============================================================================
