----------------------------- MODULE HashSuites -----------------------------
(***************************************************************************)
(* The hash suites of compiler/zkp: SHA-256 and Poseidon2, the generators  *)
(* drawn from them, and the encodings of a digest.  The numbers are small, *)
(* the structure is the code's: a word has 12 bits in four bytes of 3, and *)
(* the field has 3 * 2^8 + 1 elements where the code has 15 * 2^27 + 1.    *)
(* The constants of both functions are any.                                *)
(***************************************************************************)
EXTENDS Folding

WORD_BITS == 12
WORD == 4096
HALF == 64
BYTE == 8
P == 769
TO_MONT == 251
FROM_MONT == 144

Low(w) == w % HALF
High(w) == w \div HALF
toMontgomery(x) == (x * TO_MONT) % P
fromMontgomery(x) == (x * FROM_MONT) % P

\* htonl
SwapBytes(w) ==
  512 * (w % BYTE) + BYTE * BYTE * ((w \div BYTE) % BYTE) + BYTE * ((w \div 64) % BYTE) + w \div 512

\* The and of two halves, by its bits, and the operations on words from it
Ands ==
  LET and[a \in 0 .. HALF - 1, b \in 0 .. HALF - 1] ==
        IF a = 0 \/ b = 0 THEN 0 ELSE 2 * and[a \div 2, b \div 2] + (a % 2) * (b % 2)
  IN  Vector([a \in 0 .. HALF - 1 |-> Vector([b \in 0 .. HALF - 1 |-> and[a, b]])])
BitAnd(x, y) == HALF * Ands[High(x)][High(y)] + Ands[Low(x)][Low(y)]
BitXor(x, y) == x + y - 2 * BitAnd(x, y)
BitNot(x) == WORD - 1 - x
ROTRIGHT(x, n) == LET m == 2^(n % WORD_BITS) IN x \div m + (x % m) * (WORD \div m)

-----------------------------------------------------------------------------
(* SHA-256                                                                 *)

Scattered(i) == (149 * i * i + 521 * i + 77) % WORD
sha_init == Tuple(LAMBDA i : Scattered(i - 1), 8)
roundK == Tuple(LAMBDA i : Scattered(i + 7), 64)

\* The digests of the strings of a tag
TagDigest(tag) == Tuple(LAMBDA i : (Scattered(i) + 1031 * tag) % WORD, 8)

CH(x, y, z) == BitXor(BitAnd(x, y), BitAnd(BitNot(x), z))
MAJ(x, y, z) == BitXor(BitAnd(x, y), BitXor(BitAnd(x, z), BitAnd(y, z)))
EP0(x) == BitXor(ROTRIGHT(x, 2), BitXor(ROTRIGHT(x, 13), ROTRIGHT(x, 22)))
EP1(x) == BitXor(ROTRIGHT(x, 6), BitXor(ROTRIGHT(x, 11), ROTRIGHT(x, 25)))
SIG0(x) == BitXor(ROTRIGHT(x, 7), BitXor(ROTRIGHT(x, 18), x \div 2^3))
SIG1(x) == BitXor(ROTRIGHT(x, 17), BitXor(ROTRIGHT(x, 19), x \div 2^10))

\* ROUND_FUNC on <<a, ..., h>>
RoundFunc(s, k, w) ==
  LET t1 == s[8] + EP1(s[5]) + CH(s[5], s[6], s[7]) + k + w
      t2 == EP0(s[1]) + MAJ(s[1], s[2], s[3])
  IN  <<(t1 + t2) % WORD, s[1], s[2], s[3], (s[4] + t1) % WORD, s[5], s[6], s[7]>>

Schedule(chunk) ==
  LongFold(LAMBDA w, i : Append(w, (SIG1(w[i + 14]) + w[i + 9] + SIG0(w[i + 1]) + w[i]) % WORD), chunk, 48)

compress(state, chunk) ==
  LET rounds(w) == LongFold(LAMBDA s, i : RoundFunc(s, roundK[i], w[i]), state, 64)
      added(s) == Tuple(LAMBDA i : (state[i] + s[i]) % WORD, 8)
  IN  Of(added, Of(rounds, Schedule(chunk)))

\* shaHash of whole words, and of two digests: blocks of 16 words, filled up
\* with zeros and no length
RECURSIVE Absorbed(_, _)
Absorbed(state, words) ==
  IF words = <<>> THEN state
  ELSE Of(LAMBDA s : Absorbed(s, SubSeq(words, 17, Len(words))), compress(state, SubSeq(words, 1, 16)))
shaHash(words) ==
  LET word(j) == IF j \in DOMAIN words THEN SwapBytes(words[j]) ELSE 0
      padded == Tuple(word, 16 * ((Len(words) + 15) \div 16))
  IN  Of(LAMBDA final : Tuple(LAMBDA i : SwapBytes(final[i]), 8), Absorbed(sha_init, padded))
shaHashPair(x, y) == shaHash(x \o y)

-----------------------------------------------------------------------------
(* Poseidon2                                                               *)

CELLS == 24
ROUNDS_PARTIAL == 21
ROUNDS_HALF_FULL == 4

ROUND_CONSTANTS ==
  Tuple(LAMBDA r : Tuple(LAMBDA i : (31 * r * r + 7 * i * i + 13 * r * i + 5) % P, CELLS), ROUNDS_PARTIAL + 2 * ROUNDS_HALF_FULL)
M_INT_DIAG_HZN == Tuple(LAMBDA i : (3 * i * i + 11 * i + 2) % P, CELLS)

circulant(in, k) ==
  LET t0 == in[k + 1] + in[k + 2]
      t1 == in[k + 3] + in[k + 4]
      t2 == 2 * in[k + 2] + t1
      t3 == 2 * in[k + 4] + t0
      t4 == 4 * t1 + t3
      t5 == 4 * t0 + t2
  IN  <<t3 + t5, t5, t2 + t4, t4>>

multiply_by_m_ext(in) ==
  LET add(chunks) ==
        LET sums == Tuple(LAMBDA j : Sum(LAMBDA c : chunks[c + 1][j], CELLS \div 4), 4)
        IN  Tuple(LAMBDA i : (chunks[((i - 1) \div 4) + 1][((i - 1) % 4) + 1] + sums[((i - 1) % 4) + 1]) % P, CELLS)
  IN  Of(add, Tuple(LAMBDA c : circulant(in, 4 * (c - 1)), CELLS \div 4))

multiply_by_m_int(in) ==
  LET four(c) == in[4 * c + 1] + in[4 * c + 2] + in[4 * c + 3] + in[4 * c + 4]
  IN  Of(LAMBDA sum : Tuple(LAMBDA i : (sum + M_INT_DIAG_HZN[i] * in[i]) % P, CELLS), Sum(four, CELLS \div 4) % P)

sbox2(x) == LET x2 == (x * x) % P IN (((((x2 * x2) % P) * x2) % P) * x) % P

full_round(in, r) == multiply_by_m_ext(Tuple(LAMBDA i : sbox2((in[i] + ROUND_CONSTANTS[r][i]) % P), CELLS))
partial_round(in, r) == multiply_by_m_int([in EXCEPT ![1] = sbox2((in[1] + ROUND_CONSTANTS[r][1]) % P)])

poseidon2_mix(in) ==
  LET round(s, r) == IF r \in ROUNDS_HALF_FULL + 1 .. ROUNDS_HALF_FULL + ROUNDS_PARTIAL
                     THEN partial_round(s, r) ELSE full_round(s, r)
  IN  LongFold(round, multiply_by_m_ext(in), ROUNDS_PARTIAL + 2 * ROUNDS_HALF_FULL)

Emptied == Tuple(LAMBDA i : 0, CELLS)
Digest(cells) == Tuple(LAMBDA i : toMontgomery(cells[i]), 8)

\* Blocks of 16 values, each put over the lower cells
poseidon2Hash(vals) ==
  LET blocks == IF vals = <<>> THEN 1 ELSE (Len(vals) + 15) \div 16
      val(j) == IF j \in DOMAIN vals THEN vals[j] % P ELSE 0
      absorb(s, b) == poseidon2_mix(Tuple(LAMBDA i : IF i <= 16 THEN val(16 * (b - 1) + i) ELSE s[i], CELLS))
  IN  Digest(Fold(absorb, Emptied, blocks))
poseidon2HashPair(x, y) ==
  Digest(poseidon2_mix(Tuple(LAMBDA i : IF i <= 8 THEN fromMontgomery(x[i])
                                        ELSE IF i <= 16 THEN fromMontgomery(y[i - 8]) ELSE 0, CELLS)))

-----------------------------------------------------------------------------
(* The suites                                                              *)

Suites == {"sha", "poseidon2", "mixed"}

HashOf(suite, vals) ==
  IF suite = "sha" THEN shaHash(Tuple(LAMBDA i : toMontgomery(vals[i]), Len(vals))) ELSE poseidon2Hash(vals)
HashPair(suite, x, y) == IF suite = "sha" THEN shaHashPair(x, y) ELSE poseidon2HashPair(x, y)

\* The encoding of a default digest or one of a kind
KindOf(suite, kind) == IF kind # "default" THEN kind ELSE IF suite = "sha" THEN "sha" ELSE "poseidon2"

\* encode in 16 values, and decode of n values
encode(kind, digest) ==
  LET word(i) == digest[(i + 1) \div 2]
  IN  Tuple(LAMBDA i : IF kind = "sha" THEN IF i % 2 = 1 THEN Low(word(i)) ELSE High(word(i))
                       ELSE IF i % 2 = 1 THEN word(i) ELSE 0, 16)
decode(kind, vals) ==
  LET n == Len(vals) \div 8
      joined(i) == Sum(LAMBDA j : vals[n * (i - 1) + j + 1] * 2^(j * (WORD_BITS \div n)), n)
  IN  Tuple(LAMBDA i : IF kind = "sha" THEN joined(i) ELSE vals[n * (i - 1) + 1], 8)

-----------------------------------------------------------------------------
(* The generators: ShaRng, also of the mixed suite, and Poseidon2Rng       *)

NewRng(suite) == IF suite = "poseidon2" THEN [cells |-> Emptied, used |-> 0]
                 ELSE [pool0 |-> TagDigest(5), pool1 |-> TagDigest(6), used |-> 0]
IsSha(rng) == "pool0" \in DOMAIN rng

step(rng) ==
  Of(LAMBDA p : [pool0 |-> p, pool1 |-> shaHashPair(p, rng.pool1), used |-> 0], shaHashPair(rng.pool0, rng.pool1))
Remixed(rng) == [cells |-> poseidon2_mix(rng.cells), used |-> 0]

mix(rng, digest) ==
  LET squeezed == IF rng.used # 0 THEN Remixed(rng) ELSE rng
      added(r) == [r EXCEPT !.cells = Tuple(LAMBDA i : IF i <= 8 THEN (@[i] + fromMontgomery(digest[i])) % P ELSE @[i], CELLS)]
  IN  IF IsSha(rng) THEN step([rng EXCEPT !.pool0 = Tuple(LAMBDA i : BitXor(@[i], digest[i]), 8)])
      ELSE Remixed(Of(added, squeezed))

\* What a draw leaves and returns, and n of them
Generate(rng) ==
  LET drawn(r) == [rng |-> [r EXCEPT !.used = @ + 1],
                   out |-> IF IsSha(r) THEN r.pool0[r.used + 1] ELSE r.cells[r.used + 1]]
  IN  Of(drawn, IF IsSha(rng) /\ rng.used = 8 THEN step(rng)
                ELSE IF ~ IsSha(rng) /\ rng.used = 16 THEN Remixed(rng) ELSE rng)
RECURSIVE Generates(_, _)
Generates(rng, n) ==
  LET more(d, g) == [rng |-> g.rng, outs |-> Append(d.outs, g.out)]
  IN  IF n = 0 THEN [rng |-> rng, outs |-> <<>>]
      ELSE Of(LAMBDA d : Of(LAMBDA g : more(d, g), Generate(d.rng)), Generates(rng, n - 1))

\* A field element takes six words of a ShaRng and one cell of a Poseidon2Rng
generateFp(rng) ==
  LET element(outs) == Fold(LAMBDA v, i : (v * (WORD % P) + outs[i]) % P, 0, 6)
  IN  IF IsSha(rng) THEN Of(LAMBDA d : [rng |-> d.rng, out |-> element(d.outs)], Generates(rng, 6)) ELSE Generate(rng)
\* Bits are those of a word, or of the first of four cells that is not zero
generateBits(rng, bits) ==
  LET first(outs) == Fold(LAMBDA v, i : IF v = 0 THEN outs[i] ELSE v, 0, Len(outs))
  IN  Of(LAMBDA d : [rng |-> d.rng, out |-> BitAnd(first(d.outs), 2^bits - 1)], Generates(rng, IF IsSha(rng) THEN 1 ELSE 4))

=============================================================================
