-------------------------------- MODULE Seal --------------------------------
(***************************************************************************)
(* What a verifier is given, for the circuit of circuit/fib/fib.cpp.       *)
(*                                                                         *)
(* First the verifier's Merkle trees (circuit/verify/merkle.cpp) and FRI   *)
(* (circuit/verify/fri.cpp): that a function on the domain is a polynomial *)
(* of degree less than size, by folding it FRI_FOLD times smaller a round  *)
(* until MIN_DEGREE.  A digest is the value it is the digest of: hash and  *)
(* fold are injective.                                                     *)
(*                                                                         *)
(* Then what a prover puts in a seal: the trace as polynomials, the taps'  *)
(* values at the point drawn, the check polynomial and the polynomial      *)
(* given to FRI.  The prover is not part of the repository: this is what   *)
(* verify.cpp expects of it.                                               *)
(***************************************************************************)
EXTENDS FiniteSetsExt, SequencesExt, Folding

CONSTANTS
  QUERIES,        \* kQueries
  FRI_FOLD,       \* kFriFold
  INV_RATE,       \* kInvRate
  MIN_DEGREE      \* kFriMinDegree

(* A prime field of P elements, P = 449 where the code has 15 * 2^27 + 1:  *)
(* what the code takes from the field is that every power of two up to the *)
(* largest domain has a root of unity.  3 generates the multiplicative     *)
(* group here, and Exp[i] is 3^i.  The extension of degree 4 the verifier  *)
(* computes in is left out: one field stands for both.                     *)

P == 449
Field == 0 .. P - 1

Exp ==
  LET power[i \in 0 .. P - 2] ==
        IF i = 0 THEN 1 ELSE LET half == power[i \div 2] IN (half * ((half * (IF i % 2 = 1 THEN 3 ELSE 1)) % P)) % P
  IN  [i \in 0 .. P - 2 |-> power[i]]
Log == [x \in 1 .. P - 1 |-> CHOOSE i \in 0 .. P - 2 : Exp[i] = x]

Raise(x, n) == IF n = 0 THEN 1 ELSE IF x = 0 THEN 0 ELSE Exp[(Log[x] * n) % (P - 1)]
Inv(x) == IF x = 0 THEN 0 ELSE Exp[(P - 1 - Log[x]) % (P - 1)]

\* kRouFwd[po2], kRouRev[po2]: a root of unity of order 2^po2 and its inverse
RouFwd(po2) == Exp[((P - 1) \div 2^po2) % (P - 1)]
RouRev(po2) == Inv(RouFwd(po2))

Log2Ceil(n) == CHOOSE k \in 0 .. 8 : 2^k >= n /\ \A j \in 0 .. k - 1 : 2^j < n

\* poly_eval: the coefficients from the lowest
poly_eval(coeffs, x) ==
  LET at(y) == Sum(LAMBDA i : coeffs[i] * Raise(y, i), Cardinality(DOMAIN coeffs)) % P
  IN  Of(at, x)

-----------------------------------------------------------------------------
(* Merkle trees                                                            *)

hash(row) == <<"row", row>>
fold(lhs, rhs) == <<"pair", lhs, rhs>>

\* topLayer: the layer the verifier is given whole, the largest with no more
\* nodes than queries, never the leaves
TopLayer(layers) ==
  LET fits == {i \in 1 .. layers - 1 : \A j \in 1 .. i : 2^j <= QUERIES}
  IN  Max(fits \cup {0})

-----------------------------------------------------------------------------
(* What a prover commits to, built as the verifier reads it: node 1 is the *)
(* root, the rows are nodes rowSize .. 2 * rowSize - 1.                    *)

Tree(rows) ==
  LET n == Cardinality(DOMAIN rows)
      step(t, i) == [t EXCEPT ![i] = fold(t[2 * i], t[2 * i + 1])]
      leaves == [i \in 1 .. 2 * n - 1 |-> IF i >= n THEN hash(rows[i - n]) ELSE <<>>]
  IN  LongFold(LAMBDA t, k : step(t, n - k), leaves, n - 1)

\* The digests a row is opened with: the siblings on its way up to topLayer
Path(tree, size, idx) ==
  LET layers == Log2Ceil(size)
      node(k) == (size + idx) \div 2^(k - 1)
  IN  [k \in 1 .. layers - TopLayer(layers) |->
         tree[IF node(k) % 2 = 0 THEN node(k) + 1 ELSE node(k) - 1]]

-----------------------------------------------------------------------------

\* MerkleTreeVerifier(): reads the top layer, folds it up to the root
Verifier(read, size) ==
  LET topSize == 2^TopLayer(Log2Ceil(size))
      given == [i \in 1 .. 2 * topSize - 1 |-> IF i >= topSize THEN read[i] ELSE <<>>]
      step(t, i) == [t EXCEPT ![i] = fold(t[2 * i], t[2 * i + 1])]
  IN  [size |-> size, topSize |-> topSize,
       top |-> Fold(LAMBDA t, k : step(t, topSize - k), given, topSize - 1)]

Root(merkle) == merkle.top[1]

\* verify: climbs from the row to the top layer, on the side the low bit says
Climb(digest, idx, path) ==
  LET step(at, other) ==
        LET lowBit == at.idx % 2
        IN  [idx |-> (at.idx - lowBit) \div 2,
             cur |-> IF lowBit = 0 THEN fold(at.cur, other) ELSE fold(other, at.cur)]
  IN  FoldLeft(step, [idx |-> idx, cur |-> digest], path)

Opens(merkle, idx, row, path) ==
  LET at == Climb(hash(row), idx + merkle.size, path)
  IN  /\ at.idx - merkle.topSize \in 0 .. merkle.topSize - 1
      /\ at.cur = merkle.top[at.idx]

\* calculateMerkleProofRoot, verifyMerkleGroupMember: a proof up to the root,
\* and no bits of the index may be left
GroupMember(member, idx, proof, root) ==
  LET at == Climb(member, idx, proof)
  IN  at.idx = 0 /\ at.cur = root

-----------------------------------------------------------------------------
(* FRI                                                                     *)

BitReverseNot(i, bits) == i
\* bitReverse(i) >> (32 - N): the last N bits of i, last first
BitReverse(i, bits) == Sum(LAMBDA b : ((i \div 2^b) % 2) * 2^(bits - 1 - b), bits)

\* rev_butterfly: layer by layer, blocks of 2^po2, what the two calls at the
\* end of each block do to its halves
RevButterfly(io, po2s) ==
  LET layer(v, po2) ==
        LET half == 2^(po2 - 1)
            new(i) == LET k == i % half
                          at == i - (i % 2^po2)
                          a == v[at + k]
                          b == v[at + k + half]
                      IN  IF i % 2^po2 < half
                            THEN (a + b) % P
                            ELSE ((a - b) * Raise(RouRev(po2), k)) % P
        IN  Vector([i \in DOMAIN v |-> new(i)])
  IN  Fold(LAMBDA v, k : layer(v, po2s + 1 - k), io, po2s)

\* interpolate_ntt, then bit_reverse: the coefficients, from the lowest, of the
\* polynomial with these values at the powers of the root of unity
Interpolate(values) ==
  LET n == Cardinality(DOMAIN values)
      io == RevButterfly(values, Log2Ceil(n))
  IN  Vector([i \in DOMAIN values |-> (io[BitReverse(i, Log2Ceil(n))] * Inv(n)) % P])

fold_eval(values, x) == poly_eval(Interpolate(values), x)

\* dynamic_pow: in raised to pow, by the bits of pow below maxPow
dynamic_pow(in, pow, maxPow) ==
  LET step(s, i) == [out |-> (s.out * (1 + (s.mul - 1) * (s.pow % 2))) % P,
                     mul |-> (s.mul * s.mul) % P,
                     pow |-> (s.pow - (s.pow % 2)) \div 2]
  IN  Fold(step, [out |-> 1, mul |-> in, pow |-> pow], Log2Ceil(maxPow)).out

-----------------------------------------------------------------------------

\* The degrees friVerify's first loop goes through, a round for each
RoundDegrees(deg) ==
  {d \in 1 .. deg : d > MIN_DEGREE /\ \E k \in 0 .. 8 : d * FRI_FOLD^k = deg}
Rounds(deg) == Cardinality(RoundDegrees(deg))
LastDegree(deg) == deg \div FRI_FOLD^Rounds(deg)
RoundDomain(deg, r) == (deg * INV_RATE) \div FRI_FOLD^r          \* after round r

VerifyRoundNoGoal(round, opening, at) ==
  LET group == at.pos % round.domain
      invWK == dynamic_pow(RouRev(Log2Ceil(FRI_FOLD * round.domain)), group, round.domain)
  IN  [pos |-> group,
       goal |-> fold_eval(opening.row, (round.mix * invWK) % P),
       ok |-> at.ok /\ Opens(round.merkle, group, opening.row, opening.path)]

\* VerifyRoundInfo::verifyQuery: the row of the group holds the value so far, and
\* what it folds to is the next
\*   round = [domain, merkle, mix], opening = [row, path]
VerifyRound(round, opening, at) ==
  LET group == at.pos % round.domain
      qout == (at.pos - group) \div round.domain
      rootPo2 == RouRev(Log2Ceil(FRI_FOLD * round.domain))
      invWK == dynamic_pow(rootPo2, group, round.domain)
  IN  [pos |-> group,
       goal |-> fold_eval(opening.row, (round.mix * invWK) % P),
       ok |-> /\ at.ok
              /\ Opens(round.merkle, group, opening.row, opening.path)
              /\ opening.row[qout] = at.goal]

\* The rest of friVerify for one query, whose inner verification gave goal
\*   rounds: a sequence, Openings(r, group): what the prover answers in round r
FriQuery(deg, rounds, finalCoeffs, Openings(_, _), pos, goal) ==
  LET step(at, r) == VerifyRound(rounds[r], Openings(r, at.pos % rounds[r].domain), at)
      end == Fold(step, [pos |-> pos, goal |-> goal, ok |-> TRUE], Len(rounds))
      lastDomain == LastDegree(deg) * INV_RATE
      x == dynamic_pow(RouFwd(Log2Ceil(lastDomain)), end.pos, lastDomain)
  IN  end.ok /\ poly_eval(finalCoeffs, x) = end.goal

-----------------------------------------------------------------------------
(* An honest prover: the rows of a round are the values of its polynomial  *)
(* that fold together, and the next polynomial collects the coefficients   *)
(* FRI_FOLD apart.                                                         *)

RoundRows(coeffs, domain) ==
  LET w == RouFwd(Log2Ceil(FRI_FOLD * domain))
  IN  [group \in 0 .. domain - 1 |->
         Vector([q \in 0 .. FRI_FOLD - 1 |-> poly_eval(coeffs, Raise(w, group + q * domain))])]

FoldPoly(coeffs, mix) ==
  Vector([i \in 0 .. Cardinality(DOMAIN coeffs) \div FRI_FOLD - 1 |->
            Sum(LAMBDA j : coeffs[i * FRI_FOLD + j] * Raise(mix, j), FRI_FOLD) % P])

-----------------------------------------------------------------------------
(* The trace                                                               *)

CONSTANT PO2                 \* the trace has 2^PO2 rows

size == 2^PO2
domain == size * INV_RATE
CHECK_SIZE == INV_RATE       \* kCheckSize, without the extension

-----------------------------------------------------------------------------
(* TapsAnalysis: registers, the combinations of backs they are read at, and *)
(* where their coefficients are.  A tap is <<group, offset, back>>, groups  *)
(* are accum, code, data.                                                   *)

Taps == {<<0, 0, 0>>, <<1, 0, 0>>, <<1, 1, 0>>, <<1, 2, 0>>, <<2, 0, 0>>, <<2, 0, 1>>, <<2, 0, 2>>}

\* The order of std::set and std::map keys
Less(s, t) ==
  \E i \in 1 .. Len(t) : /\ SubSeq(s, 1, i - 1) = SubSeq(t, 1, i - 1)
                         /\ i > Len(s) \/ (i <= Len(s) /\ s[i] < t[i])
Sorted(S) == [i \in 1 .. Cardinality(S) |-> CHOOSE s \in S : Cardinality({t \in S : Less(t, s)}) = i - 1]

Backs(reg) == LET sorted == Sorted({<<t[3]>> : t \in {u \in Taps : <<u[1], u[2]>> = reg}})
              IN  [i \in 1 .. Len(sorted) |-> sorted[i][1]]
RegSet == {<<t[1], t[2]>> : t \in Taps}
Combos == Sorted({Backs(reg) : reg \in RegSet})

\* The registers in the order of their groups: [group, offset, combo, tapPos, backs]
Regs ==
  LET add(regs, reg) ==
        Append(regs, [group |-> reg[1], offset |-> reg[2], backs |-> Backs(reg),
                      combo |-> CHOOSE c \in 1 .. Len(Combos) : Combos[c] = Backs(reg),
                      tapPos |-> IF regs = <<>> THEN 0
                                 ELSE regs[Len(regs)].tapPos + Len(regs[Len(regs)].backs)])
  IN  FoldLeft(add, <<>>, Sorted(RegSet))
TapCount == Cardinality(Taps)
SortedTaps == Sorted(Taps)
TapIndex == [tap \in Taps |-> CHOOSE i \in 1 .. TapCount : SortedTaps[i] = tap]

-----------------------------------------------------------------------------
(* MixState of wrap.h, the constraints of fib.cpp under it.                *)

True == [tot |-> 0, mul |-> 1]
and_eqz(in, val, polyMix) ==
  [tot |-> (in.tot + in.mul * val) % P, mul |-> (in.mul * polyMix) % P]
and_cond(in, cond, inner) ==
  [tot |-> (in.tot + ((cond * inner.tot) % P) * in.mul) % P, mul |-> (in.mul * inner.mul) % P]

\* u[i]: the i-th tap's value
compute_poly(u, out, polyMix) ==
  LET at(group, offset, back) == u[TapIndex[<<group, offset, back>>]]
      only(val) == and_eqz(True, val, polyMix)
      val == at(2, 0, 0)
      first == and_cond(True, at(1, 0, 0), only(val - 1))
      step == and_cond(first, at(1, 1, 0), only(val - (at(2, 0, 1) + at(2, 0, 2))))
      last == and_cond(step, at(1, 2, 0), only(out - val))
      accum == and_cond(last, at(1, 0, 0) + at(1, 1, 0) + at(1, 2, 0), only(at(0, 0, 0) - 1))
  IN  accum.tot

-----------------------------------------------------------------------------
(* Polynomials of the trace.                                               *)

\* The coefficients, from the lowest, of the polynomial with these values at
\* the powers of the root of unity
Coefficients(values) ==
  LET n == Cardinality(DOMAIN values)
      back == RouRev(Log2Ceil(n))
      transform(v) ==
        [k \in 0 .. n - 1 |-> (Inv(n) * (Sum(LAMBDA i : v[i] * Raise(back, i * k), n) % P)) % P]
  IN  Vector(Of(transform, Vector(values)))

\* A column of the trace is committed to on the coset of 3
Column(values) == LET shift(c) == [k \in DOMAIN c |-> (c[k] * Raise(3, k)) % P]
                  IN  Vector(Of(shift, Coefficients(values)))
Points == [i \in 0 .. domain - 1 |-> Raise(RouFwd(Log2Ceil(domain)), i)]
Extend(coeffs) == Vector([i \in 0 .. domain - 1 |-> poly_eval(coeffs, Points[i])])

\* The remainder of a polynomial by the product of x - root
Remainder(coeffs, roots) ==
  LET timesRoot(d, r) == [i \in 0 .. Cardinality(DOMAIN d) |->
                            ((IF i = 0 THEN 0 ELSE d[i - 1])
                              - (IF i \in DOMAIN d THEN r * d[i] ELSE 0)) % P]
      k == Len(roots)
      n == Cardinality(DOMAIN coeffs)
      by(den) ==
        LET reduce(c, i) ==
              [j \in DOMAIN c |-> IF j \in i - k .. i THEN (c[j] - c[i] * den[j - (i - k)]) % P ELSE c[j]]
        IN  Fold(LAMBDA c, m : Vector(reduce(c, n - m)), coeffs, n - k)
      end == Of(by, Vector(FoldLeft(timesRoot, [i \in {0} |-> 1], roots)))
  IN  Of(LAMBDA c : Vector([i \in 0 .. k - 1 |-> c[i]]), end)

TapPoint(z, back) == (z * Raise(RouRev(PO2), back)) % P

\* The coefficients of the taps of one register, then of the check columns
TapCoeffs(reg, coeffs, z) ==
  Remainder(coeffs, [i \in 1 .. Len(reg.backs) |-> TapPoint(z, reg.backs[i])])

\* The check polynomial: the constraints' over the trace's zeros, on the domain
\* cols[<<group, offset>>]: coefficients
CheckValue(cols, out, polyMix, x) ==
  LET tap(t) == poly_eval(cols[<<t[1], t[2]>>], (x * Raise(RouRev(PO2), t[3])) % P)
      C(u) == compute_poly(u, out, polyMix)
  IN  (Of(C, Vector([i \in 1 .. TapCount |-> tap(SortedTaps[i])])) * Inv((Raise((3 * x) % P, size) - 1) % P)) % P
CheckColumns(cols, out, polyMix) ==
  LET order == [j \in 0 .. 3 |-> CASE j = 1 -> 2 [] j = 2 -> 1 [] OTHER -> j]
      split(c) == [j \in 0 .. CHECK_SIZE - 1 |-> Vector([k \in 0 .. size - 1 |-> c[4 * k + order[j]]])]
  IN  Vector(Of(split, Coefficients([i \in 0 .. domain - 1 |-> CheckValue(cols, out, polyMix, Points[i])])))

=============================================================================
