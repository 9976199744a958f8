-------------------------- MODULE RecursionCircuit --------------------------
(***************************************************************************)
(* One row of the recursion circuit after the other, as an honest prover   *)
(* fills it in: circuit c is a record of the write-once memory, of what    *)
(* later rows look back at (the value a MIX_RNG left, the SHA rows, the    *)
(* Poseidon2 state), of the proof still to be read, of the globals, and of *)
(* whether every constraint held so far.  A row is [op, at, in]: its       *)
(* opcode, writeAddr and operands.                                         *)
(***************************************************************************)
EXTENDS HashSuites

Zeros == <<0, 0, 0, 0>>
Elem(x) == <<x % P, 0, 0, 0>>
BETA == 11

\* FpExt of components/fpext
ExtAdd(a, b) == Tuple(LAMBDA i : (a[i] + b[i]) % P, 4)
ExtSub(a, b) == Tuple(LAMBDA i : (a[i] + P - b[i]) % P, 4)
ExtMul(a, b) ==
  LET B(x) == (P - BETA) * (x % P)
  IN  <<(a[1] * b[1] + B(a[2] * b[4] + a[3] * b[3] + a[4] * b[2])) % P,
        (a[1] * b[2] + a[2] * b[1] + B(a[3] * b[4] + a[4] * b[3])) % P,
        (a[1] * b[3] + a[2] * b[2] + a[3] * b[1] + B(a[4] * b[4])) % P,
        (a[1] * b[4] + a[2] * b[3] + a[3] * b[2] + a[4] * b[1]) % P>>
Inv(x) == IF x % P = 0 THEN 0 ELSE CHOOSE y \in 1 .. P - 1 : ((x % P) * y) % P = 1
ExtInv(a) ==
  LET b0 == (a[1] * a[1] + BETA * (2 * a[2] * a[4] - a[3] * a[3])) % P
      b2 == (2 * a[1] * a[3] - a[2] * a[2] + BETA * a[4] * a[4]) % P
      scaled(ic) == LET d0 == (b0 * ic) % P
                        d2 == (b2 * ic) % P
                    IN  <<(a[1] * d0 + BETA * a[3] * d2) % P, (0 - a[2] * d0 - BETA * a[4] * d2) % P,
                          (a[3] * d0 - a[1] * d2) % P, (a[2] * d2 - a[4] * d0) % P>>
  IN  Of(scaled, Inv(b0 * b0 + BETA * b2 * b2))

NewCircuit(proof, coeffs) ==
  [wom |-> (0 :> Zeros), extra |-> 0, sha |-> <<>>, output |-> <<>>, proof |-> proof, body |-> <<>>,
   coeffs |-> coeffs, out |-> <<>>, ok |-> TRUE]

\* The row's addresses are read, its cells written, each once, and the
\* constraints hold
Cell(c, a) == IF a \in DOMAIN c.wom THEN c.wom[a] ELSE Zeros
Filled(c, reads, writes, holds) ==
  [c EXCEPT !.wom = @ @@ writes,
            !.ok = holds /\ reads \subseteq DOMAIN c.wom /\ DOMAIN writes \cap DOMAIN c.wom = {}]

-----------------------------------------------------------------------------
(* Micro operations                                                        *)

MixRng(c, r, x, y) ==
  LET tail == <<x[2], x[1], y[2], y[1]>>
  IN  Fold(LAMBDA v, i : (v * HALF + tail[i]) % P, r.in[3] * c.extra, 4)

MicroOps == {"CONST", "ADD", "SUB", "MUL", "INV", "EQ", "READ_IOP_HEADER", "READ_IOP_BODY", "MIX_RNG", "SELECT", "EXTRACT"}

\* The value written, from the cells x and y the operands name
MicroOut(c, r, x, y) ==
  CASE r.op = "CONST" -> <<r.in[1], r.in[2], r.in[3], 0>>
    [] r.op = "ADD" -> ExtAdd(x, y)
    [] r.op \in {"SUB", "EQ"} -> ExtSub(x, y)
    [] r.op = "MUL" -> ExtMul(x, y)
    [] r.op = "INV" -> IF r.in[2] = 1 THEN ExtInv(x) ELSE Elem(1 - x[1] * Inv(x[1]))
    [] r.op = "READ_IOP_HEADER" -> Zeros
    [] r.op = "READ_IOP_BODY" -> Tuple(LAMBDA i : IF r.in[3] = 1 THEN toMontgomery(Head(c.body)[i]) ELSE Head(c.body)[i], 4)
    [] r.op = "MIX_RNG" -> Elem(MixRng(c, r, x, y))
    [] r.op = "SELECT" -> Cell(c, (r.in[2] + r.in[3] * x[1]) % P)
    [] r.op = "EXTRACT" -> Elem(x[2 * r.in[2] + r.in[3] + 1])

MicroHolds(r, x, out) ==
  CASE r.op = "INV" -> IF r.in[2] = 1 THEN ExtMul(x, out) = Elem(1) ELSE x[1] * out[1] = 0
    [] r.op = "EQ" -> out = Zeros
    [] r.op = "READ_IOP_BODY" -> r.in[1] * out[2] = 0 /\ r.in[2] * out[3] = 0 /\ r.in[2] * out[4] = 0
    [] OTHER -> TRUE

MicroReads(c, r, x) ==
  CASE r.op \in {"ADD", "SUB", "MUL", "EQ", "MIX_RNG"} -> {r.in[1], r.in[2]}
    [] r.op \in {"INV", "EXTRACT"} -> {r.in[1]}
    [] r.op = "SELECT" -> {r.in[1], (r.in[2] + r.in[3] * x[1]) % P}
    [] OTHER -> {}

\* readIOPHeader: count elements of k words each, or words of two halves
IopBody(c, count, k, flip) ==
  LET value(i) == IF k = 2 THEN <<Low(c.proof[i]), High(c.proof[i]), 0, 0>>
                  ELSE Tuple(LAMBDA j : IF j > k THEN 0
                                        ELSE fromMontgomery(c.proof[IF flip = 1 THEN k * (i - 1) + j ELSE count * (j - 1) + i]), 4)
      words == IF k = 2 THEN count ELSE k * count
  IN  [c EXCEPT !.body = Tuple(value, count), !.proof = SubSeq(@, words + 1, Len(@))]

Micro(c, r) ==
  LET x == Cell(c, r.in[1])
      y == Cell(c, r.in[2])
      filled(out) == Filled(c, MicroReads(c, r, x), r.at :> out, MicroHolds(r, x, out))
      read(d) == IF r.op = "READ_IOP_HEADER" THEN IopBody(d, r.in[1], r.in[2] \div 2, r.in[2] % 2)
                 ELSE IF r.op = "READ_IOP_BODY" THEN [d EXCEPT !.body = Tail(@)]
                 ELSE IF r.op = "MIX_RNG" THEN [d EXCEPT !.extra = d.wom[r.at][1]] ELSE d
  IN  Of(read, Of(filled, MicroOut(c, r, x, y)))

-----------------------------------------------------------------------------
(* Bit operations                                                          *)

\* Of the first component, which ten bits represent, and of two halves
BIT_AND_ELEM(c, r) ==
  Filled(c, {r.in[1], r.in[2]}, r.at :> Elem(BitAnd(Cell(c, r.in[1])[1], Cell(c, r.in[2])[1])), TRUE)
BIT_OP_SHORTS(c, r) ==
  LET x == Cell(c, r.in[1])
      y == Cell(c, r.in[2])
      and(i) == BitAnd(x[i], y[i])
  IN  Filled(c, {r.in[1], r.in[2]},
             r.at :> IF r.in[3] = 1 THEN Elem(and(2) * HALF + and(1))
                     ELSE <<x[1] + y[1] - 2 * and(1), x[2] + y[2] - 2 * and(2), 0, 0>>,
             \A i \in 1 .. 2 : x[i] < HALF /\ y[i] < HALF)

-----------------------------------------------------------------------------
(* SHA rows: the words a, e and w of each row since the last other row     *)

Back(c, n) == c.sha[Len(c.sha) - n + 1]
Joined(lo, hi) == (lo + HALF * hi) % WORD
SmallCarry(lo, hi) == lo \div HALF <= 7 /\ (hi + lo \div HALF) \div HALF <= 7
Word(cell) == cell[1] + HALF * cell[2]
AsCell(word) == <<Low(word), High(word), 0, 0>>

ShaRow(c, r, a, e, w, writes, holds) ==
  Of(LAMBDA row : [Filled(c, IF r.op = "SHA_FINI" THEN {} ELSE {r.in[1], r.in[2]}, writes, holds) EXCEPT !.sha = Append(c.sha, row)],
     [a |-> a, e |-> e, w |-> w])

\* computeAE: the halves are added one by one, with carries of three bits
Sums(ws) == <<Sum(LAMBDA i : Low(ws[i + 1]), Len(ws)), Sum(LAMBDA i : High(ws[i + 1]), Len(ws))>>
ComputeAE(c, r, w, more) ==
  LET p1 == Back(c, 1)  p2 == Back(c, 2)  p3 == Back(c, 3)  p4 == Back(c, 4)
      stage1 == <<w, Word(Cell(c, r.in[2])), p4.e, CH(p1.e, p2.e, p3.e), EP1(p1.e)>>
      row(a, e) == ShaRow(c, r, Joined(a[1], a[2]), Joined(e[1], e[2]), w, <<>>,
                          more /\ SmallCarry(a[1], a[2]) /\ SmallCarry(e[1], e[2]))
  IN  row(Sums(stage1 \o <<MAJ(p1.a, p2.a, p3.a), EP0(p1.a)>>), Sums(stage1 \o <<p4.a>>))

SHA_INIT(c, r) == ShaRow(c, r, Word(Cell(c, r.in[1])), Word(Cell(c, r.in[2])), 0, <<>>, TRUE)
\* A value is loaded in Montgomery form, and shown to be below P: when its
\* highest bits are those of P, all others are zero
SHA_LOAD(c, r) ==
  LET cell == Cell(c, r.in[1])
      x == IF r.in[3] = 1 THEN Word(cell) ELSE toMontgomery(cell[1])
  IN  ComputeAE(c, r, SwapBytes(x), r.in[3] = 1 \/ x \div 256 < 3 \/ x = 3 * 256)
SHA_MIX(c, r) ==
  LET s == Sums(<<Back(c, 16).w, SIG0(Back(c, 15).w), Back(c, 7).w, SIG1(Back(c, 2).w)>>)
  IN  ComputeAE(c, r, Joined(s[1], s[2]), SmallCarry(s[1], s[2]))
SHA_FINI(c, r) ==
  LET a == (Back(c, 4).a + Back(c, 68).a) % WORD
      e == (Back(c, 4).e + Back(c, 68).e) % WORD
  IN  ShaRow(c, r, a, e, 0, (r.in[1] :> AsCell(SwapBytes(a))) @@ (r.in[2] :> AsCell(SwapBytes(e))), TRUE)

-----------------------------------------------------------------------------
(* Poseidon2 rows                                                          *)

Constants(i) == ROUND_CONSTANTS[i + 1]
Added(x, y) == Tuple(LAMBDA i : (x[i] + y[i]) % P, CELLS)
Prepared(prep, in) == IF prep = 1 THEN Added(multiply_by_m_ext(in), Constants(0)) ELSE in

\* in: doMont, keepState, keepUpperState, prepFull, group, and 8 inputs
POSEIDON2_LOAD(c, r) ==
  LET read(i) == LET v == Cell(c, r.in[6][i])[1] IN IF r.in[1] = 1 THEN fromMontgomery(v) ELSE v
      kept(i) == IF r.in[2] = 1 \/ (r.in[3] = 1 /\ i > 16) THEN c.output[i] ELSE 0
      loaded(i) == IF (i - 1) \div 8 = r.in[5] THEN read(((i - 1) % 8) + 1) ELSE 0
      state == Prepared(r.in[4], Tuple(LAMBDA i : (kept(i) + loaded(i)) % P, CELLS))
  IN  [Filled(c, {r.in[6][i] : i \in 1 .. 8}, <<>>, TRUE) EXCEPT !.output = state]

\* The constants of a round are added at the end of the row before it
FullConstants(cycle, add) ==
  LET idx == 2 * cycle + add + 1
  IN  IF idx \in {4, 8} THEN Emptied ELSE Constants(IF cycle >= 2 THEN idx + ROUNDS_PARTIAL ELSE idx)
SboxLayer(s) == multiply_by_m_ext(Tuple(LAMBDA i : sbox2(s[i]), CELLS))
POSEIDON2_FULL(c, r) ==
  LET step1 == Added(SboxLayer(c.output), FullConstants(r.in[1], 0))
  IN  [c EXCEPT !.output = Of(LAMBDA s : Added(SboxLayer(s), FullConstants(r.in[1], 1)), step1)]
POSEIDON2_PARTIAL(c, r) ==
  LET round(s, j) == multiply_by_m_int([s EXCEPT ![1] = sbox2((@ + Constants(j + 3)[1]) % P)])
  IN  [c EXCEPT !.output = Added(LongFold(round, @, ROUNDS_PARTIAL), Constants(ROUNDS_PARTIAL + ROUNDS_HALF_FULL))]

\* in: doMont and group
POSEIDON2_STORE(c, r) ==
  LET value(i) == LET v == c.output[8 * r.in[2] + i] IN IF r.in[1] = 1 THEN toMontgomery(v) ELSE v
  IN  Filled(c, {}, [a \in r.at .. r.at + 7 |-> Elem(value(a - r.at + 1))], TRUE)

-----------------------------------------------------------------------------
(* Checked bytes, globals, and the memory argument                         *)

\* in: evalPoint, keepCoeffs, keepUpperState, prepFull.  A coefficient is taken by
\* pairs of its low bits: what does not fit a byte is left out
CHECKED_BYTES(c, r) ==
  LET z == Cell(c, r.in[1])
      coeffs == Tuple(LAMBDA i : c.coeffs[1][i] % BYTE, 16)
      value == Fold(LAMBDA v, i : ExtAdd(ExtMul(v, z), Elem(coeffs[17 - i])), Zeros, 16)
      in(i) == IF i > 16 THEN IF r.in[3] = 1 THEN c.output[i] ELSE 0
               ELSE (coeffs[i] + IF r.in[2] = 1 THEN BYTE * c.output[i] ELSE 0) % P
  IN  [Filled(c, {r.in[1]}, r.at :> value, TRUE)
         EXCEPT !.coeffs = Tail(@), !.output = Prepared(r.in[4], Tuple(in, CELLS))]

\* Half a digest at a time; a global is set once
SET_GLOBAL(c, r) ==
  LET sets == [i \in 8 * r.in[2] .. 8 * r.in[2] + 7 |->
                 LET k == i - 8 * r.in[2] IN Cell(c, r.in[1] + k \div 2)[(k % 2) + 1]]
      agree == \A i \in DOMAIN sets \cap DOMAIN c.out : c.out[i] = sets[i]
  IN  [Filled(c, {r.in[1] + i : i \in 0 .. 3}, <<>>, agree) EXCEPT !.out = sets @@ @]

\* The sorted memory goes from address 0 to the last in steps of at most one
WOM_FINI(c, r) == Filled(c, {}, <<>>, DOMAIN c.wom = 0 .. r.at - 1)

-----------------------------------------------------------------------------

ShaOps == {"SHA_INIT", "SHA_LOAD", "SHA_MIX", "SHA_FINI"}
Poseidon2Ops == {"POSEIDON2_LOAD", "POSEIDON2_FULL", "POSEIDON2_PARTIAL", "POSEIDON2_STORE", "CHECKED_BYTES"}

Arm(c, r) ==
  CASE r.op \in MicroOps -> Micro(c, r)
    [] r.op = "WOM_INIT" -> c
    [] r.op = "WOM_FINI" -> WOM_FINI(c, r)
    [] r.op = "BIT_AND_ELEM" -> BIT_AND_ELEM(c, r)
    [] r.op = "BIT_OP_SHORTS" -> BIT_OP_SHORTS(c, r)
    [] r.op = "SHA_INIT" -> SHA_INIT(c, r)
    [] r.op = "SHA_LOAD" -> SHA_LOAD(c, r)
    [] r.op = "SHA_MIX" -> SHA_MIX(c, r)
    [] r.op = "SHA_FINI" -> SHA_FINI(c, r)
    [] r.op = "SET_GLOBAL" -> SET_GLOBAL(c, r)
    [] r.op = "POSEIDON2_LOAD" -> POSEIDON2_LOAD(c, r)
    [] r.op = "POSEIDON2_FULL" -> POSEIDON2_FULL(c, r)
    [] r.op = "POSEIDON2_PARTIAL" -> POSEIDON2_PARTIAL(c, r)
    [] r.op = "POSEIDON2_STORE" -> POSEIDON2_STORE(c, r)
    [] r.op = "CHECKED_BYTES" -> CHECKED_BYTES(c, r)

\* Looking back at a row of another kind finds other columns; after a failed
\* constraint nothing goes on
Garbage == Tuple(LAMBDA i : i, CELLS)
Row(c, r) ==
  LET seen == [c EXCEPT !.sha = IF r.op \in ShaOps THEN @ ELSE <<>>,
                        !.output = IF r.op \in Poseidon2Ops /\ @ # <<>> THEN @ ELSE Garbage]
  IN  IF c.ok THEN Of(LAMBDA d : Arm(d, r), seen) ELSE c
Rows(c, code) == LongFold(LAMBDA d, i : Row(d, code[i]), c, Len(code))

=============================================================================
