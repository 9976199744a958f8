------------------------------- MODULE Curve --------------------------------
(***************************************************************************)
(* The big-integer programs of circuit/bigint: arithmetic modulo a prime   *)
(* (field.cpp), a modular power (rsa.cpp) and points of an elliptic curve  *)
(* in affine coordinates (elliptic_curve.cpp).                             *)
(*                                                                         *)
(* The C++ functions append ops through a builder.  Here a builder is the  *)
(* program so far and the op each name stands for, and a step              *)
(* <<name, code, a, b>> appends one op; a name may be given anew.          *)
(***************************************************************************)
EXTENDS BigInt

Empty == [program |-> <<>>, at |-> [name \in {} |-> 0]]

Append1(s, name, op) == [program |-> Append(s.program, op), at |-> (name :> Len(s.program) + 1) @@ s.at]
Create(s, step) ==
  Append1(s, step[1],
          CASE step[2] = "eqz"   -> Eqz(s.at[step[3]])
            [] step[2] = "const" -> Const(step[3], step[4])
            [] OTHER             -> Bin(step[2], s.at[step[3]], s.at[step[4]]))
Build(s, steps) == LongFold(LAMBDA t, i : Create(t, steps[i]), s, Len(steps))

Loads(s, ops)  == LongFold(LAMBDA t, i : Append1(t, ops[i][1], Load(ops[i][2], ops[i][3], ops[i][4])), s, Len(ops))
Stores(s, ops) == LongFold(LAMBDA t, i : Append1(t, "stored", Store(t.at[ops[i][1]], ops[i][2])), s, Len(ops))
Defs(s, ops)   == LongFold(LAMBDA t, i : Append1(t, ops[i][1], Def(ops[i][2], ops[i][3], TRUE, ops[i][4])), s, Len(ops))

\* s where the names in to stand for the ops given.
Name(s, to) == [s EXCEPT !.at = to @@ @]

-----------------------------------------------------------------------------
(* field.cpp                                                               *)

modAdd == <<<<"sum", "add", "lhs", "rhs">>, <<"result", "reduce", "sum", "prime">>>>
modInv == <<<<"result", "inv", "inp", "prime">>>>
modMul == <<<<"prod", "mul", "lhs", "rhs">>, <<"result", "reduce", "prod", "prime">>>>
\* Mutant: the difference is reduced as it is.
modSubNegative == <<<<"diff", "sub", "lhs", "rhs">>, <<"result", "reduce", "diff", "prime">>>>
modSub == <<<<"diff", "sub", "lhs", "rhs">>, <<"diff", "add", "diff", "prime">>,
            <<"result", "reduce", "diff", "prime">>>>

ModLoads(bits) == <<<<"lhs", bits, <<11, 0>>, 0>>, <<"rhs", bits, <<12, 0>>, 0>>, <<"prime", bits, <<13, 0>>, 0>>>>
genModBinary(bits, steps) == Stores(Build(Loads(Empty, ModLoads(bits)), steps), <<<<"result", <<14, 0>>>>>>)
genModAdd(bits) == genModBinary(bits, modAdd)
genModMul(bits) == genModBinary(bits, modMul)
genModSub(bits) == genModBinary(bits, modSub)
genModInv(bits) ==
  Stores(Build(Loads(Empty, <<<<"inp", bits, <<11, 0>>, 0>>, <<"prime", bits, <<12, 0>>, 0>>>>), modInv),
         <<<<"result", <<13, 0>>>>>>)

-----------------------------------------------------------------------------
(* rsa.cpp                                                                 *)

Power65537(s) ==
  Build(LongFold(LAMBDA t, i : Build(t, <<<<"xm", "mul", "x", "x">>, <<"x", "reduce", "xm", "N">>>>),
                 Name(s, "x" :> s.at["S"]), 16),
        <<<<"xm", "mul", "x", "S">>, <<"x", "reduce", "xm", "N">>>>)

genModPow65537(bits) ==
  Stores(Power65537(Loads(Empty, <<<<"S", bits, <<11, 0>>, 0>>, <<"N", bits, <<12, 0>>, 0>>>>)),
         <<<<"x", <<13, 0>>>>>>)

makeRSAChecker(bits) ==
  Build(Power65537(Defs(Empty, <<<<"N", bits, 0, bits - 1>>, <<"S", bits, 1, 0>>, <<"M", bits, 2, 0>>>>)),
        <<<<"diff", "sub", "x", "M">>, <<"checked", "eqz", "diff">>>>)

\* RSA: in twice the width.
RSA(N, S) ==
  LET sqr[i \in 0 .. 16] == IF i = 0 THEN S ELSE (sqr[i - 1] * sqr[i - 1]) % N
  IN  (sqr[16] * S) % N

-----------------------------------------------------------------------------
(* elliptic_curve.cpp.  A point is a pair of ops; curve parameters are     *)
(* the names prime, a and b.                                               *)

\* P + Q for points with different x: the inverse of x_diff, the slope lambda,
\* and the point where the line meets the curve again.
InverseSteps == <<
  <<"one", "const", 8, 1>>,
  <<"y_diff", "sub", "yQ", "yP">>, <<"y_diff", "add", "y_diff", "prime">>,
  <<"x_diff", "sub", "xQ", "xP">>, <<"x_diff", "add", "x_diff", "prime">>,
  <<"inv", "nondet_inv", "x_diff", "prime">>,
  <<"check", "mul", "x_diff", "inv">>, <<"quot", "quot", "check", "prime">>, <<"quot", "mul", "quot", "prime">>,
  <<"check", "sub", "check", "quot">>, <<"check", "sub", "check", "one">>, <<"checked", "eqz", "check">>>>

\* Mutant: the slope is taken as it is given.
SlopeStepsUnchecked == <<<<"lambda", "mul", "y_diff", "inv">>, <<"lambda", "rem", "lambda", "prime">>>>
SlopeSteps == <<
  <<"lambda", "mul", "y_diff", "inv">>, <<"lambda", "rem", "lambda", "prime">>,
  <<"check", "mul", "lambda", "x_diff">>, <<"check", "sub", "check", "y_diff">>,
  <<"check", "add", "check", "prime">>, <<"check", "add", "check", "prime">>,
  <<"k_lambda", "quot", "check", "prime">>,
  <<"kp", "mul", "k_lambda", "prime">>, <<"check", "sub", "check", "kp">>, <<"checked", "eqz", "check">>>>

MeetSteps == <<
  <<"nu", "mul", "lambda", "xP">>, <<"nu", "sub", "yP", "nu">>,
  <<"lambda_sqr", "mul", "lambda", "lambda">>,
  <<"xN", "sub", "lambda_sqr", "xP">>, <<"xN", "sub", "xN", "xQ">>,
  <<"xN", "add", "xN", "prime">>, <<"xN", "add", "xN", "prime">>,
  <<"k_x", "quot", "xN", "prime">>, <<"xR", "rem", "xN", "prime">>,
  <<"yN", "mul", "lambda", "xR">>, <<"yN", "add", "yN", "nu">>, <<"yN", "sub", "prime", "yN">>,
  <<"prime_sqr", "mul", "prime", "prime">>, <<"yN", "add", "yN", "prime_sqr">>,
  <<"k_y", "quot", "yN", "prime">>, <<"yR", "rem", "yN", "prime">>,
  <<"check", "sub", "lambda_sqr", "xP">>, <<"check", "sub", "check", "xQ">>,
  <<"check", "add", "check", "prime">>, <<"check", "add", "check", "prime">>,
  <<"kp", "mul", "k_x", "prime">>, <<"check", "sub", "check", "kp">>, <<"check", "sub", "check", "xR">>,
  <<"checked", "eqz", "check">>,
  <<"check", "mul", "k_y", "prime">>, <<"check", "add", "check", "yR">>,
  <<"other", "sub", "xP", "xR">>, <<"other", "mul", "lambda", "other">>, <<"other", "sub", "other", "yP">>,
  <<"other", "add", "other", "prime">>, <<"other", "add", "other", "prime_sqr">>,
  <<"check", "sub", "check", "other">>, <<"checked", "eqz", "check">>>>

\* P + P where yP is not 0: lambda is the slope of the tangent.
doubSteps == <<
  <<"x_sqr", "mul", "xP", "xP">>, <<"num", "add", "x_sqr", "x_sqr">>, <<"num", "add", "num", "x_sqr">>,
  <<"num", "add", "num", "a">>,
  <<"prime_sqr", "mul", "prime", "prime">>, <<"rhs", "add", "prime_sqr", "prime_sqr">>, <<"rhs", "add", "rhs", "num">>,
  <<"two_y", "add", "yP", "yP">>, <<"two_y_inv", "nondet_inv", "two_y", "prime">>,
  <<"one", "const", 1, 1>>, <<"normal", "quot", "num", "one">>,
  <<"check", "sub", "normal", "num">>, <<"checked", "eqz", "check">>,
  <<"lambda", "mul", "normal", "two_y_inv">>, <<"lambda", "rem", "lambda", "prime">>,
  <<"two_y_lambda", "mul", "yP", "lambda">>, <<"two_y_lambda", "add", "two_y_lambda", "two_y_lambda">>,
  <<"diff", "sub", "rhs", "two_y_lambda">>, <<"k_lambda", "quot", "diff", "prime">>,
  <<"check", "mul", "k_lambda", "prime">>, <<"check", "add", "check", "two_y_lambda">>,
  <<"check", "sub", "check", "rhs">>, <<"checked", "eqz", "check">>,
  <<"num", "mul", "lambda", "lambda">>, <<"num", "add", "num", "prime">>, <<"num", "add", "num", "prime">>,
  <<"num", "sub", "num", "xP">>, <<"num", "sub", "num", "xP">>, <<"xR", "reduce", "num", "prime">>,
  <<"num", "mul", "lambda", "xR">>, <<"num", "sub", "prime_sqr", "num">>, <<"num", "add", "num", "prime">>,
  <<"num", "sub", "num", "yP">>, <<"x_in", "mul", "lambda", "xP">>, <<"num", "add", "num", "x_in">>,
  <<"yR", "reduce", "num", "prime">>>>

\* An op takes points p and q and leaves its result in xR and yR.
Point(x, y)   == [x |-> x, y |-> y]
Pt(s, n, m)   == Point(s.at[n], s.at[m])
Args(s, p, q) == Name(s, [xP |-> p.x, yP |-> p.y, xQ |-> q.x, yQ |-> q.y])
Result(s)     == Pt(s, "xR", "yR")

add(s, p, q) == Build(Args(s, p, q), InverseSteps \o SlopeSteps \o MeetSteps)
doub(s, p)   == Build(Args(s, p, p), doubSteps)
neg(s, p)    == Name(Build(Args(s, p, p), <<<<"yR", "sub", "prime", "yP">>>>), "xR" :> p.x)
sub(s, p, q) == LET t == neg(s, q) IN add(t, p, Result(t))

validate_equal(s, p, q) ==
  Build(Args(s, p, q), <<<<"diff", "sub", "xP", "xQ">>, <<"checked", "eqz", "diff">>,
                         <<"diff", "sub", "yP", "yQ">>, <<"checked", "eqz", "diff">>>>)

validate_contains(s, p) ==
  Build(Args(s, p, p), <<
    <<"y_sqr", "mul", "yP", "yP">>,
    <<"x_cube", "mul", "xP", "xP">>, <<"x_cube", "reduce", "x_cube", "prime">>, <<"x_cube", "mul", "xP", "x_cube">>,
    <<"ax", "mul", "a", "xP">>, <<"rhs", "add", "x_cube", "ax">>, <<"rhs", "add", "rhs", "b">>,
    <<"diff", "sub", "rhs", "y_sqr">>, <<"prime_sqr", "mul", "prime", "prime">>, <<"diff", "add", "diff", "prime_sqr">>,
    <<"diff", "reduce", "diff", "prime">>, <<"checked", "eqz", "diff">>>>)

\* If yes then p, else q, for a bit and the bit one less it.
Merge(s, yes, no, p, q) ==
  Build(Name(Args(s, p, q), [yes |-> yes, no |-> no]), <<
    <<"xYes", "mul", "xP", "yes">>, <<"yYes", "mul", "yP", "yes">>,
    <<"xNo", "mul", "xQ", "no">>, <<"yNo", "mul", "yQ", "no">>,
    <<"x", "add", "xYes", "xNo">>, <<"y", "add", "yYes", "yNo">>,
    <<"xR", "reduce", "x", "prime">>, <<"yR", "reduce", "y", "prime">>>>)

\* The lowest bit of scalar: exactly 0 or 1, and not only modulo 2.
BitSteps == <<
  <<"rem", "rem", "scalar", "two">>, <<"half", "quot", "scalar", "two">>,
  <<"prod", "mul", "two", "half">>, <<"resum", "add", "prod", "rem">>,
  <<"check", "sub", "resum", "scalar">>, <<"checked", "eqz", "check">>,
  <<"one_minus_rem", "sub", "one", "rem">>, <<"check", "mul", "rem", "one_minus_rem">>, <<"checked", "eqz", "check">>>>

\* One turn of mul: t has the builder s, the result so far, the doubled point
\* and the type of the scalar left.  The lowest bit is put by: from 1 * pt, pt is
\* subtracted at the end when the scalar is even.
MulBit(t, it) ==
  LET split == Build(Name(t.s, [one |-> t.one, scalar |-> t.scalar]), BitSteps)
      added(s) == Of(LAMBDA u : Merge(u, u.at["rem"], u.at["one_minus_rem"], Result(u), t.result), add(s, t.result, t.doubled))
      first(s) == Name(s, [subtract_pt |-> s.at["one_minus_rem"], dont_subtract_pt |-> s.at["rem"]])
      turned(u) == Of(LAMBDA v : [t EXCEPT !.s = v, !.result = IF it = 0 THEN @ ELSE Result(u), !.doubled = Result(v),
                                           !.scalar = u.at["half"], !.type = QuotType(@, Bytes(3, ActiveBits(2)))],
                      doub(u, t.doubled))
  IN  Of(turned, Of(LAMBDA s : IF it = 0 THEN first(s) ELSE added(s), split))

MulEnd(t, pt) ==
  Of(LAMBDA u : Merge(u, u.at["subtract_pt"], u.at["dont_subtract_pt"], Result(u), t.result), sub(t.s, t.result, pt))
mul(s, scalar, type, pt) ==
  Of(LAMBDA t :
       Of(LAMBDA end : MulEnd(end, pt),
          Fold(LAMBDA u, i : IF i - 1 < MaxPosBits(u.type) THEN MulBit(u, i - 1) ELSE u,
               [s |-> t, one |-> t.at["one"], result |-> pt, doubled |-> pt, scalar |-> scalar, type |-> type],
               MaxPosBits(type))),
     Build(s, <<<<"one", "const", 1, 1>>, <<"two", "const", 3, 2>>>>))

-----------------------------------------------------------------------------
(* Full programs: with loads and stores, and the tests' with defs           *)

\* The number of 128-bit chunks
Chunkwidth(bits) == bits \div (BITS * PER_POLY)
PointLoad(n, m, bits, arena) == <<<<n, bits, <<arena, 0>>, 0>>, <<m, bits, <<arena, Chunkwidth(bits)>>, 0>>>>
CurveLoads(bits, arena) == <<
  <<"prime", bits, <<arena, 0>>, bits - 1>>, <<"a", bits, <<arena, Chunkwidth(bits)>>, 0>>,
  <<"b", bits, <<arena, 2 * Chunkwidth(bits)>>, 0>>>>
PointStore(bits, arena) == <<<<"xR", <<arena, 0>>>>, <<"yR", <<arena, Chunkwidth(bits)>>>>>>

genECAdd(bits) ==
  LET s == Loads(Empty, PointLoad("x0", "y0", bits, 11) \o PointLoad("x1", "y1", bits, 12) \o CurveLoads(bits, 13))
  IN  Stores(add(s, Pt(s, "x0", "y0"), Pt(s, "x1", "y1")), PointStore(bits, 14))
genECDouble(bits) ==
  LET s == Loads(Empty, PointLoad("x0", "y0", bits, 11) \o CurveLoads(bits, 12))
  IN  Stores(doub(s, Pt(s, "x0", "y0")), PointStore(bits, 13))

\* names are labelled in order; the last three are the curve's.
TestDefs(names, bits) ==
  Defs(Empty, [i \in DOMAIN names |-> <<names[i], bits, i - 1, IF names[i] = "prime" THEN bits - 1 ELSE 0>>])
CurveNames == <<"prime", "a", "b">>
Expect(s, t) == validate_equal(t, Result(t), Pt(s, "x2", "y2"))

makeECAddTest(bits) ==
  LET s == TestDefs(<<"x0", "y0", "x1", "y1", "x2", "y2">> \o CurveNames, bits)
  IN  Expect(s, add(s, Pt(s, "x0", "y0"), Pt(s, "x1", "y1")))
makeECDoubleTest(bits) ==
  LET s == TestDefs(<<"x0", "y0", "x2", "y2">> \o CurveNames, bits)
  IN  Expect(s, doub(s, Pt(s, "x0", "y0")))
makeECMultiplyTest(bits) ==
  LET s == TestDefs(<<"x0", "y0", "scale", "x2", "y2">> \o CurveNames, bits)
  IN  Expect(s, mul(s, s.at["scale"], Bytes(bits, 0), Pt(s, "x0", "y0")))
makeECNegateTest(bits) ==
  LET s == TestDefs(<<"x0", "y0", "x2", "y2">> \o CurveNames, bits)
  IN  Expect(s, neg(s, Pt(s, "x0", "y0")))
\* The expected point has the labels of the prime and of a: they are the same.
makeECSubtractTest(bits) ==
  LET s == Defs(Empty, <<<<"x0", bits, 0, 0>>, <<"y0", bits, 1, 0>>, <<"x1", bits, 2, 0>>, <<"y1", bits, 3, 0>>,
                         <<"x2", bits, 4, 0>>, <<"y2", bits, 5, 0>>,
                         <<"prime", bits, 4, bits - 1>>, <<"a", bits, 5, 0>>, <<"b", bits, 6, 0>>>>)
  IN  Expect(s, sub(s, Pt(s, "x0", "y0"), Pt(s, "x1", "y1")))
makeECValidatePointsEqualTest(bits) ==
  LET s == TestDefs(<<"x0", "y0", "x1", "y1">> \o CurveNames, bits)
  IN  validate_equal(s, Pt(s, "x0", "y0"), Pt(s, "x1", "y1"))
makeECValidatePointOnCurveTest(bits) ==
  LET s == TestDefs(<<"x0", "y0">> \o CurveNames, bits) IN validate_contains(s, Pt(s, "x0", "y0"))
makeRepeatedECAddTest(bits, reps) ==
  LET s == TestDefs(<<"x0", "y0", "x1", "y1", "x2", "y2">> \o CurveNames, bits)
  IN  Expect(s, LongFold(LAMBDA t, i : add(t, Result(t), Pt(s, "x1", "y1")),
                         add(s, Pt(s, "x0", "y0"), Pt(s, "x1", "y1")), reps - 1))
\* Every repetition doubles the point given anew.
makeRepeatedECDoubleTest(bits, reps) ==
  LET s == TestDefs(<<"x0", "y0", "x2", "y2">> \o CurveNames, bits)
      p == Pt(s, "x0", "y0")
  IN  Expect(s, LongFold(LAMBDA t, i : doub(t, p), doub(s, p), reps - 1))
=============================================================================
