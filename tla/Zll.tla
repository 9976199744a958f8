-------------------------------- MODULE Zll --------------------------------
(***************************************************************************)
(* The values the interpreter of Zll computes with: field elements as      *)
(* polynomials of degree below 4 over the field of HashSuites, and digests *)
(* (Dialect/Zll/IR/Field.cpp, Ops.cpp).  A polynomial has all four         *)
(* coefficients here, also that of an element of the base field.           *)
(***************************************************************************)
EXTENDS HashSuites

NBETA == P - 11

FInv(x) == IF x = 0 THEN 0 ELSE CHOOSE y \in 1 .. P - 1 : (x * y) % P = 1

\* Polynomials as tuples from the lowest coefficient
Degree(a) == LET ds == {i \in DOMAIN a : a[i] # 0} IN IF ds = {} THEN 0 ELSE (CHOOSE d \in ds : \A i \in ds : i <= d) - 1
At(a, i) == IF i + 1 \in DOMAIN a THEN a[i + 1] ELSE 0
FAdd(a, b) == Tuple(LAMBDA i : (a[i] + b[i]) % P, 4)
FSub(a, b) == Tuple(LAMBDA i : (a[i] + (P - At(b, i - 1))) % P, Len(a))
NaiveMul(a, b) ==
  Tuple(LAMBDA d : Sum(LAMBDA i : (At(a, i) * At(b, d - 1 - i)) % P, d) % P, Len(a) + Len(b) - 1)
FMul(a, b) == Of(LAMBDA c : Tuple(LAMBDA i : (c[i] + NBETA * At(c, i + 3)) % P, 4), NaiveMul(a, b))

\* Long division, and the inverse by Euclid's algorithm from the irreducible
\* polynomial x^4 + 11
FDiv(a, b) ==
  LET quot[q \in Seq(0 .. P - 1)] ==
        LET r == FSub(a, NaiveMul(q, b))
            d == Degree(r) - Degree(b)
        IN  IF d < 0 THEN q ELSE quot[[q EXCEPT ![d + 1] = (At(r, Degree(r)) * FInv(At(b, Degree(b)))) % P]]
  IN  quot[<<0, 0, 0, 0, 0>>]
Euclid(t0, t1, r0, r1) == [t0 |-> t0, t1 |-> t1, r0 |-> r0, r1 |-> r1]
PolyInv(a) ==
  LET next(s) ==
        LET q == FDiv(s.r0, s.r1)
        IN  Euclid(s.t1, FSub(s.t0, NaiveMul(q, s.t1)), s.r1, FSub(s.r0, NaiveMul(q, s.r1)))
      turn(s, i) == IF Degree(s.r1) = 0 THEN s ELSE Of(next, s)
      start == Euclid(<<0, 0, 0, 0, 0>>, <<1, 0, 0, 0, 0>>, <<NBETA, 0, 0, 0, P - 1>>, a \o <<0>>)
  IN  Of(LAMBDA s : Tuple(LAMBDA i : (FInv(s.r1[1]) * s.t1[i]) % P, 4), Fold(turn, start, 4))

-----------------------------------------------------------------------------
(* Values.  Val(k, v) has k coefficients, a digest is of a kind.           *)

Val(k, v) == [type |-> "val", k |-> k, v |-> v]
Base(x) == Val(1, <<x % P, 0, 0, 0>>)
DigestVal(kind, words) == [type |-> "digest", kind |-> kind, words |-> words]
IsVal(x) == x.type = "val"
IsDigest(x) == x.type = "digest"

\* The arithmetic operations on values
Wider(x, y) == IF x.k > y.k THEN x.k ELSE y.k
AddOp(x, y) == Val(Wider(x, y), FAdd(x.v, y.v))
SubOp(x, y) == Val(Wider(x, y), FSub(x.v, y.v))
MulOp(x, y) == Val(Wider(x, y), FMul(x.v, y.v))
NegOp(x) == Val(x.k, FSub(<<0, 0, 0, 0>>, x.v))
InvOp(x) == Val(x.k, PolyInv(x.v))
IsZero(x) == \A i \in 1 .. 4 : x.v[i] = 0
IsZeroOp(x) == Base(IF IsZero(x) THEN 1 ELSE 0)
BitAndOp(x, y) == Val(Wider(x, y), Tuple(LAMBDA i : BitAnd(x.v[i], y.v[i]), 4))

\* HashOp: the coefficients of one value after the other, or (not flipped) of
\* all values' lowest ones first
Coefficients(xs, flip) ==
  LET k == xs[1].k
      n == Len(xs)
      at(i) == IF flip THEN xs[((i - 1) \div k) + 1].v[((i - 1) % k) + 1]
               ELSE xs[((i - 1) % n) + 1].v[((i - 1) \div n) + 1]
  IN  IF xs = <<>> THEN <<>> ELSE Tuple(at, k * n)
HashOp(suite, xs, flip) == DigestVal("default", HashOf(suite, Coefficients(xs, flip)))
HashFoldOp(suite, x, y) == DigestVal("default", HashPair(suite, x.words, y.words))

IntoDigestOp(suite, kind, xs) == DigestVal(kind, decode(KindOf(suite, kind), Tuple(LAMBDA i : xs[i].v[1], Len(xs))))
FromDigestOp(suite, x) == LET vals == encode(KindOf(suite, x.kind), x.words) IN Tuple(LAMBDA i : Base(vals[i]), 16)

\* The tag, the digests' words, the values, the number of digests in two
\* bytes, and the padding of SHA-256 with the number of bits
TaggedStructOp(tag, digests, vals) ==
  LET n == Len(digests)
      data == Fold(LAMBDA ws, i : ws \o digests[i].words, TagDigest(tag), n) \o Tuple(LAMBDA i : vals[i].v[1], Len(vals))
      counted == Append(data, 256 + n)
      zeros == IF Len(counted) % 16 = 15 THEN 16 ELSE 15 - (Len(counted) % 16)
      bitCount == Len(data) * WORD_BITS + WORD_BITS \div 2
  IN  DigestVal("sha", shaHash(Append(counted \o Tuple(LAMBDA i : 0, zeros), SwapBytes(bitCount))))

-----------------------------------------------------------------------------
(* Checked bytes: groups of 16 coefficients, each below BYTE, of a         *)
(* polynomial each evaluated at evalPt; three at a time hashed in one      *)

InRange(groups) == \A i \in DOMAIN groups : \A j \in 1 .. 16 : groups[i][j] < BYTE
Evaluated(groups, evalPt) ==
  LET at(g, v) == Fold(LAMBDA r, j : FAdd(FMul(r, v), <<g[17 - j], 0, 0, 0>>), <<0, 0, 0, 0>>, 16)
  IN  Tuple(LAMBDA i : Val(4, at(groups[i], evalPt.v)), Len(groups))

Threes(groups) ==
  LET n == Len(groups)
      accum(i, j) == Fold(LAMBDA a, k : IF 3 * i + k > n THEN a ELSE BYTE * a + groups[3 * i + k][j], 0, 3)
  IN  Fold(LAMBDA s, i : s \o Tuple(LAMBDA j : accum(i - 1, j), 16), <<>>, (n + 2) \div 3)
HashCheckedBytesOp(groups) == DigestVal("poseidon2", poseidon2Hash(Threes(groups)))

\* The public ones are hashed one by one, and once more as words of four bytes
HashCheckedBytesPublicOp(groups) ==
  LET coeffs == Fold(LAMBDA s, i : s \o groups[i], <<>>, Len(groups))
      word(i) == Sum(LAMBDA j : coeffs[4 * (i - 1) + j + 1] * BYTE^j, 4)
      words == Tuple(word, Len(coeffs) \div 4)
      pad == (16 - (Len(words) % 16)) % 16
  IN  <<DigestVal("poseidon2", poseidon2Hash(coeffs)), DigestVal("sha", shaHash(words \o Tuple(LAMBDA i : 0, pad)))>>

-----------------------------------------------------------------------------
(* Reading the proof: n values of k coefficients, or n digests             *)

ReadVals(proof, n, k, flip) ==
  LET arr(i) == fromMontgomery(proof[i])
      poly(i) == Tuple(LAMBDA j : IF j > k THEN 0 ELSE arr(IF flip THEN k * (i - 1) + j ELSE n * (j - 1) + i), 4)
  IN  Tuple(LAMBDA i : Val(k, poly(i)), n)
ReadDigests(proof, n) == Tuple(LAMBDA i : DigestVal("default", SubSeq(proof, 8 * i - 7, 8 * i)), n)

\* RngValOp: k draws
RngValOp(rng, k) ==
  LET draw(d, i) == Of(LAMBDA g : [rng |-> g.rng, poly |-> [d.poly EXCEPT ![i] = g.out]], generateFp(d.rng))
  IN  Fold(draw, [rng |-> rng, poly |-> <<0, 0, 0, 0>>], k)

=============================================================================
