----------------------------- MODULE Recursion -----------------------------
(***************************************************************************)
(* A program of Zll operations that verifies a proof, run twice as in      *)
(* recursion/test/AB.h: by the interpreter, and encoded as rows that run   *)
(* in the recursion circuit.  Each action is an operation of the program:  *)
(* the interpreter evaluates it, the encoder adds its rows, and the        *)
(* circuit is filled in with these.                                        *)
(***************************************************************************)
EXTENDS Zll, Encode, RecursionCircuit

CONSTANTS
  Proof,          \* the words of the proof, whose digests are below P
  Coefficients16, \* the groups of 16 bytes that readCoefficients gives
  OPS             \* operations after the proof was read

VARIABLES
  suite,
  ops,      \* operations so far
  values,   \* the interpreter's values,
  ids,      \* and the first address of each
  ok,       \* the interpreter did not fail
  rng,      \* of the interpreter's ReadIop, and what it has still to read
  proof,
  coeffs,
  globals,
  encoder,
  circuit

vars == <<suite, ops, values, ids, ok, rng, proof, coeffs, globals, encoder, circuit>>

FirstEncoder == [Instructions.e EXCEPT !.code = <<>>]
FirstCircuit == Rows(NewCircuit(Proof, Coefficients16), Instructions.e.code)

Init ==
  /\ suite \in Suites
  /\ ops = 0 /\ values = <<>> /\ ids = <<>> /\ ok = TRUE /\ globals = <<>>
  /\ rng = NewRng(suite) /\ proof = Proof /\ coeffs = Coefficients16
  /\ encoder = [FirstEncoder EXCEPT !.suite = suite, !.rng = NewRngIds(suite)]
  /\ circuit = FirstCircuit

-----------------------------------------------------------------------------
(* Operands                                                                *)

READS == 3
Reading(n) == ok /\ ops = n
Running == ok /\ ops \in READS .. READS + OPS - 1

Vals(k) == {i \in DOMAIN values : IsVal(values[i]) /\ values[i].k = k}
AllVals == Vals(1) \cup Vals(4)
Digests(kinds) == {i \in DOMAIN values : IsDigest(values[i]) /\ KindOf(suite, values[i].kind) \in kinds}
AllDigests == Digests({"sha", "poseidon2"})
Native == Digests({KindOf(suite, "default")})
Committable == IF suite = "mixed" THEN {i \in Native : values[i].kind = "default"} ELSE Native
Newest(S) == {i \in S : \A j \in S : j <= i}
Oldest(S) == {i \in S : \A j \in S : j >= i}
Ends(S) == Newest(S) \cup Oldest(S)
ValuesAt(is) == Tuple(LAMBDA i : values[is[i]], Len(is))
Ids(is) == Tuple(LAMBDA i : ids[is[i]], Len(is))

\* The operation computed results, at the addresses at(e) the encoder gave
\* them, and the circuit runs its rows
Computes(results, encoded, at(_)) ==
  \E e \in {encoded} :
    /\ ops' = ops + 1
    /\ values' = values \o results
    /\ ids' = ids \o at(e)
    /\ encoder' = [e EXCEPT !.code = <<>>]
    /\ circuit' = Rows(circuit, e.code)
    /\ UNCHANGED suite
Computes1(result, encoded) == Computes(<<result>>, encoded, LAMBDA e : <<e.out>>)
Emits(encoded) == Computes(<<>>, encoded, LAMBDA e : <<>>)
Pure == UNCHANGED <<ok, rng, proof, coeffs, globals>>

-----------------------------------------------------------------------------
(* The proof is read first                                                 *)

ReadBase(n) ==
  /\ Reading(0)
  /\ Computes(ReadVals(proof, n, 1, FALSE), readIds(encoder, n, 1, FALSE), LAMBDA e : Tuple(LAMBDA i : e.next - n + i - 1, n))
  /\ proof' = SubSeq(proof, n + 1, Len(proof))
  /\ UNCHANGED <<ok, rng, coeffs, globals>>
ReadExt(n, flip) ==
  /\ Reading(1)
  /\ Computes(ReadVals(proof, n, 4, flip), readIds(encoder, n, 4, flip), LAMBDA e : Tuple(LAMBDA i : e.next - n + i - 1, n))
  /\ proof' = SubSeq(proof, 4 * n + 1, Len(proof))
  /\ UNCHANGED <<ok, rng, coeffs, globals>>
ReadDigest(n) ==
  /\ Reading(2)
  /\ Computes(ReadDigests(proof, n), readIds(encoder, n, 0, FALSE), LAMBDA e : Tuple(LAMBDA i : e.next - 8 * (n - i + 1), n))
  /\ proof' = SubSeq(proof, 8 * n + 1, Len(proof))
  /\ UNCHANGED <<ok, rng, coeffs, globals>>

-----------------------------------------------------------------------------
(* Values                                                                  *)

Const(k, v) ==
  /\ Running
  /\ Computes1(Val(k, v), IF k = 1 THEN addConst(encoder, v[1], 0) ELSE constIds(encoder, v))
  /\ Pure

Binary(op, compute(_, _), x, y) ==
  /\ Computes1(compute(values[x], values[y]), addMicro(encoder, Op(op, ids[x], ids[y])))
  /\ Pure
Add(x, y) == Running /\ Binary("ADD", AddOp, x, y)
Sub(x, y) == Running /\ Binary("SUB", SubOp, x, y)
Mul(x, y) == Running /\ Binary("MUL", MulOp, x, y)
Neg(x) == Running /\ Computes1(NegOp(values[x]), addMicro(encoder, Op("SUB", 0, ids[x]))) /\ Pure
\* The inverse of zero is zero for the interpreter and none for the circuit
Inverse(x) ==
  Running /\ ~ IsZero(values[x]) /\ Computes1(InvOp(values[x]), addMicro(encoder, Op("INV", ids[x], 1))) /\ Pure
IsZeroBase(x) == Running /\ Computes1(IsZeroOp(values[x]), addMicro(encoder, Op("INV", ids[x], 0))) /\ Pure
And(x, y) ==
  /\ Running
  /\ Computes1(BitAndOp(values[x], values[y]), addMacro(encoder, 1, "BIT_AND_ELEM", <<ids[x], ids[y], 0>>))
  /\ Pure
EqualZero(x) ==
  /\ Running
  /\ ok' = IsZero(values[x])
  /\ Emits(addMicro(encoder, Op("EQ", ids[x], 0)))
  /\ UNCHANGED <<rng, proof, coeffs, globals>>

\* Elements at addresses of the same distance, and an index of one of them
Select(idx, elems) ==
  LET i == values[idx].v[1]
  IN  /\ Running
      /\ i < Len(elems)
      /\ \A j \in 2 .. Len(elems) : ids[elems[j]] - ids[elems[j - 1]] = ids[elems[2]] - ids[elems[1]]
      /\ Computes1(values[elems[i + 1]], selectIds(encoder, ids[idx], Ids(elems), IsDigest(values[elems[1]])))
      /\ Pure

-----------------------------------------------------------------------------
(* Digests                                                                 *)

\* Of no values the encoder gives none under SHA-256
Hash(xs, flip) ==
  LET k == IF xs = <<>> THEN 1 ELSE values[xs[1]].k
  IN  /\ Running
      /\ suite = "sha" => xs # <<>>
      /\ Computes1(HashOp(suite, ValuesAt(xs), flip), hashIds(encoder, Ids(xs), k, flip))
      /\ Pure
HashFold(x, y) ==
  Running /\ Computes1(HashFoldOp(suite, values[x], values[y]), foldIds(encoder, ids[x], ids[y])) /\ Pure

\* From halves of words or from bytes, for SHA-256
IntoDigest(kind, xs) ==
  LET limit == IF Len(xs) = 32 THEN BYTE ELSE HALF
  IN  /\ Running
      /\ KindOf(suite, kind) = "sha" => \A i \in DOMAIN xs : values[xs[i]].v[1] < limit
      /\ Computes1(IntoDigestOp(suite, kind, ValuesAt(xs)), intoDigestIds(encoder, kind, Ids(xs)))
      /\ Pure
FromDigest(x) ==
  /\ Running
  /\ Computes(FromDigestOp(suite, values[x]), fromDigestIds(encoder, ids[x]), LAMBDA e : Tuple(LAMBDA i : e.next - 17 + i, 16))
  /\ Pure
TaggedStruct(tag, digests, vals) ==
  LET kinds == Tuple(LAMBDA i : <<values[digests[i]].kind, ids[digests[i]]>>, Len(digests))
  IN  /\ Running
      /\ Computes1(TaggedStructOp(tag, ValuesAt(digests), ValuesAt(vals)),
                   Of(LAMBDA e : doTaggedStruct(e, e.out, kinds, Ids(vals)), doShaTag(encoder, tag)))
      /\ Pure
AssertEq(x, y) ==
  /\ Running
  /\ ok' = (values[x].words = values[y].words)
  /\ Emits(assertEqIds(encoder, ids[x], ids[y]))
  /\ UNCHANGED <<rng, proof, coeffs, globals>>

\* The prover's next groups, of bytes: on another value the interpreter throws and
\* the circuit does not stop, but readCoefficients gives none
Checked(n, results, encoded, at(_)) ==
  /\ Running
  /\ n <= Len(coeffs) /\ InRange(SubSeq(coeffs, 1, n))
  /\ coeffs' = SubSeq(coeffs, n + 1, Len(coeffs))
  /\ Computes(results, encoded, at)
  /\ UNCHANGED <<ok, rng, proof, globals>>
CheckedBytes(evalPt, n) ==
  LET groups == SubSeq(coeffs, 1, n)
  IN  Checked(n, <<HashCheckedBytesOp(groups)>> \o Evaluated(groups, values[evalPt]), doHashCheckedBytes(encoder, ids[evalPt], n),
              LAMBDA e : <<e.out[1]>> \o e.out[2])
CheckedBytesPublic(evalPt, n) ==
  LET groups == SubSeq(coeffs, 1, n)
  IN  Checked(n, HashCheckedBytesPublicOp(groups) \o Evaluated(groups, values[evalPt]),
              doHashCheckedBytesPublic(encoder, ids[evalPt], n), LAMBDA e : <<e.out[1], e.out[2]>> \o e.out[3])

-----------------------------------------------------------------------------
(* The generator                                                           *)

\* A digest of another kind than the suite's own is refused by the encoder
Commit(x) ==
  /\ Running
  /\ rng' = mix(rng, values[x].words)
  /\ Emits(mixIds(encoder, ids[x]))
  /\ UNCHANGED <<ok, proof, coeffs, globals>>

\* A Poseidon2 generator draws only after a commit
Ready == suite = "poseidon2" => ~ encoder.rng.isInit
RngVal(k) ==
  /\ Running /\ Ready
  /\ \E d \in {RngValOp(rng, k)} : rng' = d.rng /\ Computes1(Val(k, d.poly), rngValIds(encoder, k))
  /\ UNCHANGED <<ok, proof, coeffs, globals>>
RngBits(bits) ==
  /\ Running /\ Ready
  /\ \E d \in {generateBits(rng, bits)} : rng' = d.rng /\ Computes1(Base(d.out), generateBitsIds(encoder, bits))
  /\ UNCHANGED <<ok, proof, coeffs, globals>>

-----------------------------------------------------------------------------
(* Globals, each set once                                                  *)

Sets(new, encoded) ==
  /\ Running
  /\ DOMAIN new \cap DOMAIN globals = {}
  /\ globals' = new @@ globals
  /\ Emits(encoded)
  /\ UNCHANGED <<ok, rng, proof, coeffs>>
\* Only a first global that is not of a digest
SetGlobal(x) == globals = <<>> /\ Sets(0 :> values[x].v[1], setGlobalIds(encoder, ids[x], 1))
SetGlobalDigest(x, offset) ==
  LET words == encode(KindOf(suite, values[x].kind), values[x].words)
  IN  /\ 0 \in DOMAIN globals => 1 \in DOMAIN globals
      /\ Sets([i \in 16 * offset .. 16 * offset + 15 |-> words[i - 16 * offset + 1]], setGlobalDigestIds(encoder, ids[x], offset))

\* The last row
Finish ==
  /\ ok /\ ops = READS + OPS
  /\ Emits(finalize(encoder))
  /\ Pure

-----------------------------------------------------------------------------
(* The program is any, with operands among the newest and oldest values    *)

\* n operands, in turns one of two
Pattern(x, y, n) == Tuple(LAMBDA i : IF i % 2 = 1 THEN x ELSE y, n)

Values ==
  \/ Const(1, <<P - 1, 0, 0, 0>>)
  \/ Const(4, <<1, 2, 0, 3>>)
  \/ \E x \in Newest(AllVals) : Neg(x) \/ Inverse(x) \/ EqualZero(x) \/ Sub(x, x)
  \/ \E x \in Newest(AllVals), y \in Oldest(AllVals) : Add(x, y) \/ Sub(x, y) \/ Mul(x, y)
  \/ \E x \in Newest(Vals(1)) : IsZeroBase(x) \/ And(x, x)
  \/ \E x \in Newest(Vals(1)), y \in Oldest(Vals(1)) : And(x, y) \/ Select(y, <<y, x>>)
  \/ \E idx \in Ends(Vals(1)), x \in Newest(AllDigests), y \in Oldest(AllDigests) : x # y /\ Select(idx, <<x, y>>)

DigestOps ==
  \/ \E x \in Newest(Vals(1)), y \in Oldest(Vals(1)), n \in {0, 2, 17} : Hash(Pattern(x, y, n), TRUE)
  \/ \E x \in Newest(Vals(4)), y \in Oldest(Vals(4)), flip \in BOOLEAN : Hash(<<x, y>>, flip)
  \/ \E x \in Newest(Native), y \in Ends(Native) : HashFold(x, y)
  \/ \E x \in Oldest(Vals(1)), y \in Newest(Vals(1)), kind \in {"default", "sha"}, n \in {16, 32} : IntoDigest(kind, Pattern(x, y, n))
  \/ \E x \in {i \in AllDigests : values[i].kind = "sha"} : FromDigest(x)
  \/ \E x \in Newest(AllDigests) : TaggedStruct(1, <<x>>, <<>>)
  \/ \E x \in Newest(AllDigests), y \in Oldest(AllDigests), z \in Newest(Vals(1)) : TaggedStruct(1, <<x, y>>, Pattern(z, z, 7))
  \/ \E x \in Newest(AllDigests), y \in Ends(AllDigests) : KindOf(suite, values[x].kind) = KindOf(suite, values[y].kind) /\ AssertEq(x, y)
  \/ \E x \in Newest(Vals(4)), n \in {0, 1, 4} : CheckedBytes(x, n)
  \/ \E x \in Newest(Vals(4)), n \in {1, 2} : CheckedBytesPublic(x, n)

GeneratorOps ==
  \/ \E x \in Newest(Committable) : Commit(x)
  \/ \E k \in {1, 4} : RngVal(k)
  \/ RngBits(9)

GlobalOps ==
  \/ \E x \in Newest(Vals(1)) : SetGlobal(x)
  \/ \E x \in Newest(AllDigests), offset \in 0 .. 1 : SetGlobalDigest(x, offset)

Next ==
  \/ \E n \in 2 .. 3 : ReadBase(n)
  \/ ReadExt(2, Len(values) = 2)
  \/ ReadDigest(6 - Len(values))
  \/ Values \/ DigestOps \/ GeneratorOps \/ GlobalOps \/ Finish

Spec == Init /\ [][Next]_vars

-----------------------------------------------------------------------------

\* What an operand's cells hold
Cells(x) ==
  IF IsVal(x) THEN <<x.v>>
  ELSE Tuple(LAMBDA i : IF KindOf(suite, x.kind) = "sha" THEN AsCell(x.words[i]) ELSE Elem(x.words[i]), 8)

\* Both run through, or neither does, as doAB expects of both; and when they
\* do, every value of the interpreter is in the circuit where the encoder says,
\* and the circuit's globals are those the program set
RunsAgree ==
  /\ ~ encoder.misplaced => ok = circuit.ok
  /\ ok /\ circuit.ok /\ ~ encoder.misplaced =>
    /\ \A i \in DOMAIN values :
         LET cells == Cells(values[i])
         IN  \A j \in DOMAIN cells : ids[i] + j - 1 \in DOMAIN circuit.wom /\ circuit.wom[ids[i] + j - 1] = cells[j]
    /\ \A i \in DOMAIN globals : i \in DOMAIN circuit.out /\ circuit.out[i] = globals[i]

=============================================================================
