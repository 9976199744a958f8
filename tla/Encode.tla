------------------------------- MODULE Encode -------------------------------
(***************************************************************************)
(* The encoder of Zll operations as rows of the recursion circuit          *)
(* (recursion/encode.cpp).  Encoder e allots the addresses of the write-   *)
(* once memory as it goes: every operation returns it with the rows it     *)
(* added to code and, as out, the address (or the addresses) of what they  *)
(* compute.  Three micro operations share a row; used counts those of the  *)
(* last one.                                                               *)
(***************************************************************************)
EXTENDS HashSuites

CONST(a, b) == <<"CONST", <<a, b, 0>>>>
Op(op, x, y) == <<op, <<x, y, 0>>>>

addMicros(e, ms) ==
  LET n == Len(ms)
      row(i) == [op |-> ms[i][1], at |-> e.next + i - 1, in |-> ms[i][2]]
  IN  [e EXCEPT !.code = @ \o Tuple(row, n), !.next = @ + n, !.used = (@ + n) % 3, !.out = e.next + n - 1]
addMicro(e, m) == addMicros(e, <<m>>)
finishMicros(e) == addMicros(e, Tuple(LAMBDA i : CONST(0, 0), (3 - e.used) % 3))

\* Rows <<i, op, in>> of their own, that fill outs addresses, each from the
\* i-th of them
addMacros(e, rows, outs) ==
  Of(LAMBDA f : [f EXCEPT !.code = @ \o Tuple(LAMBDA i : [op |-> rows[i][2], at |-> f.next + rows[i][1], in |-> rows[i][3]], Len(rows)),
                          !.next = @ + outs, !.out = f.next],
     finishMicros(e))
addMacro(e, outs, op, in) == addMacros(e, <<<<0, op, in>>>>, outs)

\* Constants are kept; their address is looked up
addConst(e, a, b) ==
  IF <<a, b>> \in DOMAIN e.consts THEN [e EXCEPT !.out = e.consts[<<a, b>>]]
  ELSE Of(LAMBDA f : [f EXCEPT !.consts = (<<a, b>> :> f.out) @@ @], addMicro(e, CONST(a, b)))
addHalfsConst(e, w) == addConst(e, Low(w), High(w))

\* One addition for each of the values, and the addresses of what they gave
Each(e, items, add(_, _)) ==
  LET one(d, v) == Of(LAMBDA f : [e |-> f, ids |-> Append(d.ids, f.out)], add(d.e, v))
  IN  Of(LAMBDA vs : LongFold(LAMBDA d, i : one(d, vs[i]), [e |-> e, ids |-> <<>>], Len(vs)), items)
\* The constants ws, and F of the encoder with their addresses
AddConsts(e, ws) == Each(e, ws, addHalfsConst)
WithConsts(e, ws, F(_, _)) == Of(LAMBDA d : F(d.e, d.ids), AddConsts(e, ws))
WithConst(e, w, F(_, _)) == Of(LAMBDA f : F(f, f.out), addHalfsConst(e, w))

\* <<f(1)>> \o ... \o <<f(n)>>, and the eight addresses from id
Joins(f(_), n) == Fold(LAMBDA s, i : s \o f(i), <<>>, n)
Eight(id) == Tuple(LAMBDA i : id + i - 1, 8)

-----------------------------------------------------------------------------
(* The first rows: constants that everything uses.  1, x, x^2 and x^3 are  *)
(* at 1 .. 3 but for 1.                                                    *)

fp4Rot1 == 1
fp4Rot2 == 2
DIV2TO16 == 757

Empty ==
  [suite |-> "sha", next |-> 1, used |-> 0, consts |-> <<>>, tags |-> <<>>, rng |-> <<>>, code |-> <<>>,
   misplaced |-> FALSE, out |-> 0]
Instructions ==
  LET rotations(e) == addMicros(addConst(e, 0, 1), <<Op("MUL", fp4Rot1, fp4Rot1), Op("MUL", fp4Rot2, fp4Rot1)>>)
      divider(e) == addConst(rotations(e), 0, DIV2TO16)
      all(f) ==
        WithConsts(f, sha_init \o roundK \o TagDigest(5) \o TagDigest(6),
          LAMBDA g, ids : [e |-> g, div |-> f.out, shaInit |-> SubSeq(ids, 1, 8), shaK |-> SubSeq(ids, 9, 72),
                           shaRngConsts |-> ids[73]])
  IN  Of(all, divider(addMacro(Empty, 0, "WOM_INIT", <<0, 0, 0>>)))
shaInit == Instructions.shaInit
shaK == Instructions.shaK
div2to16Const == Instructions.div
shaRngConsts == Instructions.shaRngConsts

-----------------------------------------------------------------------------
(* SHA-256                                                                 *)

\* Encoder e with another result, and with the sums of l and h, a digest
Out(e, out) == [e EXCEPT !.out = out]
Sums8(e, l(_), h(_)) == Out(addMicros(e, Tuple(LAMBDA i : Op("ADD", l(i), h(i)), 8)), e.next)


\* Blocks of 16 addresses; the digest of the last one, or 0
RECURSIVE ShaBlocks(_, _, _)
ShaBlocks(e, values, subtype) ==
  LET load == Tuple(LAMBDA i : <<0, "SHA_LOAD", <<values[i], shaK[i], subtype>>>>, 16)
      mixes == Tuple(LAMBDA i : <<0, "SHA_MIX", <<0, shaK[16 + i], 0>>>>, 48)
      fini == Tuple(LAMBDA i : <<0, "SHA_FINI", <<e.next + 4 - i, e.next + 8 - i, 0>>>>, 4)
  IN  IF values = <<>> THEN e
      ELSE Of(LAMBDA f : ShaBlocks(f, SubSeq(values, 17, Len(values)), subtype), addMacros(e, load \o mixes \o fini, 8))
doSha(e, values, subtype) ==
  LET init == Tuple(LAMBDA i : <<0, "SHA_INIT", <<shaInit[5 - i], shaInit[9 - i], 0>>>>, 4)
  IN  Of(LAMBDA f : ShaBlocks(Out(f, 0), values, subtype), addMacros(e, init, 0))
doShaFold(e, lhs, rhs) == doSha(e, Eight(lhs) \o Eight(rhs), 1)

\* Low halves, and high halves brought to the second component
doIntoDigestShaBytes(e, bytes) ==
  LET halves(f, c) ==
        LET s == f.next
            half(i) == <<Op("MUL", bytes[4 * i - 2], c), Op("MUL", bytes[4 * i], c),
                         Op("ADD", bytes[4 * i - 3], s + 5 * i - 5), Op("ADD", bytes[4 * i - 1], s + 5 * i - 4),
                         Op("MUL", s + 5 * i - 2, fp4Rot1)>>
            low(i) == s + 5 * i - 3
            high(i) == s + 5 * i - 1
        IN  Sums8(addMicros(f, Joins(half, 8)), low, high)
  IN  WithConst(e, BYTE, halves)
doIntoDigestShaWords(e, words) ==
  LET s == e.next
      high == addMicros(e, Tuple(LAMBDA i : Op("MUL", words[2 * i], fp4Rot1), 8))
  IN  Sums8(high, LAMBDA i : words[2 * i - 1], LAMBDA i : s + i - 1)

-----------------------------------------------------------------------------
(* Tagged structures                                                       *)

doShaTag(e, tag) ==
  IF tag \in DOMAIN e.tags THEN Out(e, e.tags[tag])
  ELSE LET word(i) == TagDigest(tag)[i]
           consts == addMicros(e, Tuple(LAMBDA i : CONST(Low(word(i)), High(word(i))), 8))
       IN  [consts EXCEPT !.tags = (tag :> e.next) @@ @, !.out = e.next]

\* The values' low halves, and then the words of two halves; out is their
\* addresses
LowHalves(e, vals) ==
  LET and(f, v) == WithConst(f, HALF - 1, LAMBDA g, c : addMacro(g, 1, "BIT_AND_ELEM", <<v, c, 0>>))
  IN  Each(e, vals, and)
taggedStructPushVals(e, vals) ==
  LET n == Len(vals)
      words(d) ==
        LET s == d.e.next
            word(i) == <<Op("SUB", vals[i], d.ids[i]), Op("MUL", s + 3 * i - 3, div2to16Const),
                         Op("ADD", d.ids[i], s + 3 * i - 2)>>
        IN  Out(addMicros(d.e, Joins(word, n)), Tuple(LAMBDA i : s + 3 * i - 1, n))
  IN  Of(words, LowHalves(e, vals))

\* digests are <<kind, address>>
doTaggedStruct(e, tag, digests, vals) ==
  LET digest(d, i) ==
        LET id == digests[i][2]
        IN  IF KindOf(e.suite, digests[i][1]) = "sha" THEN [d EXCEPT !.words = @ \o Eight(id)]
            ELSE Of(LAMBDA f : [e |-> f, words |-> d.words \o f.out], taggedStructPushVals(d.e, Eight(id)))
      pushed(d) == Of(LAMBDA f : [e |-> f, words |-> d.words \o f.out], taggedStructPushVals(d.e, vals))
      terminate(d) ==
        LET m == Len(d.words) + 1
            zeros == IF (m % 16) = 15 THEN 16 ELSE 15 - (m % 16)
            bitCount == Len(d.words) * WORD_BITS + WORD_BITS \div 2
            \* finalWord, the zeros and the number of bits
            hash(f, c) == doSha(f, d.words \o <<c[1]>> \o Tuple(LAMBDA i : c[2], zeros) \o <<c[zeros + 2]>>, 1)
        IN  WithConsts(d.e, <<256 + Len(digests)>> \o Tuple(LAMBDA i : 0, zeros) \o <<SwapBytes(bitCount)>>, hash)
  IN  Of(terminate, Of(pushed, Fold(digest, [e |-> e, words |-> Eight(tag)], Len(digests))))

-----------------------------------------------------------------------------
(* Poseidon2                                                               *)

Load(doMont, keepState, keepUpperState, prepFull, group, inputs) ==
  <<0, "POSEIDON2_LOAD", <<doMont, keepState, keepUpperState, prepFull, group, inputs>>>>
Rounds ==
  <<<<0, "POSEIDON2_FULL", <<0, 0, 0>>>>, <<0, "POSEIDON2_FULL", <<1, 0, 0>>>>, <<0, "POSEIDON2_PARTIAL", <<0, 0, 0>>>>,
    <<0, "POSEIDON2_FULL", <<2, 0, 0>>>>, <<0, "POSEIDON2_FULL", <<3, 0, 0>>>>>>
Store(i, doMont, group) == <<i, "POSEIDON2_STORE", <<doMont, group, 0>>>>

doIntoDigestPoseidon2(e, words) ==
  LET n == Len(words) \div 8 IN Sums8(e, LAMBDA i : words[n * (i - 1) + 1], LAMBDA i : 0)

doPoseidon2(e, values) ==
  LET at(i) == SubSeq(values, i + 1, i + 8)
      block(b) ==
        LET keepUpper == IF b = 1 THEN 0 ELSE 1
        IN  <<Load(0, 0, keepUpper, 0, 0, at(16 * (b - 1))), Load(0, 1, 1, 1, 1, at(16 * b - 8))>> \o Rounds
      constant(f, i) == Of(LAMBDA g : [e |-> g, ids |-> Append(f.ids, g.out)], addConst(f.e, poseidon2Hash(<<>>)[i], 0))
  IN  IF values = <<>>
      THEN Of(LAMBDA d : doIntoDigestPoseidon2(d.e, d.ids), Fold(constant, [e |-> e, ids |-> <<>>], 8))
      ELSE addMacros(e, Joins(block, Len(values) \div 16) \o <<Store(0, 1, 0)>>, 8)
doPoseidon2Fold(e, lhs, rhs) ==
  addMacros(e, <<Load(1, 0, 0, 0, 0, Eight(lhs)), Load(1, 1, 0, 1, 1, Eight(rhs))>> \o Rounds \o <<Store(0, 1, 0)>>, 8)

\* Three groups of bytes at a time; out is the digest's address and those of
\* the evaluations
doHashCheckedBytes(e, evalPt, count) ==
  LET last(i) == i % 3 = 0 \/ i = count
      group(i) == <<<<i - 1, "CHECKED_BYTES", <<evalPt, IF i % 3 = 1 THEN 0 ELSE 1, IF i = 1 THEN 0 ELSE 1,
                                               IF last(i) THEN 1 ELSE 0>>>>>> \o (IF last(i) THEN Rounds ELSE <<>>)
      named(f) == Out(f, <<f.out + count, Tuple(LAMBDA i : f.out + i - 1, count)>>)
  IN  IF count = 0 THEN Of(LAMBDA f : Out(f, <<f.out, <<>>>>), doPoseidon2(e, <<>>))
      ELSE Of(named, addMacros(e, Joins(group, count) \o <<Store(count, 1, 0)>>, count + 8))

\* Each group alone; out is both digests' addresses and the evaluations'
doHashCheckedBytesPublic(e, evalPt, count) ==
  LET zeroed(f, zero) ==
        LET group(i) == <<<<17 * i - 17, "CHECKED_BYTES", <<evalPt, 0, IF i = 1 THEN 0 ELSE 1, 0>>>>,
                          Store(17 * i - 16, 0, 0), Store(17 * i - 8, 0, 1),
                          Load(0, 1, 1, 1, 0, Tuple(LAMBDA j : zero, 8))>> \o Rounds
            g == addMacros(f, Joins(group, count) \o <<Store(17 * count, 1, 0)>>, 17 * count + 8)
            words(h, by, first) ==
              LET s == h.next
                  byte(i, j) == first + 17 * ((i - 1) \div 4) + 1 + 4 * ((i - 1) % 4) + j
                  word(i) == LET t == s + 6 * (i - 1)
                             IN  <<Op("MUL", byte(i, 1), by[2]), Op("ADD", byte(i, 0), t), Op("MUL", byte(i, 2), by[3]),
                                   Op("ADD", t + 1, t + 2), Op("MUL", byte(i, 3), by[4]), Op("ADD", t + 3, t + 4)>>
                  n == 4 * count
                  coeffs == Tuple(LAMBDA i : IF i <= n THEN s + 6 * i - 1 ELSE zero, 16 * ((n + 15) \div 16))
                  named(k) == Out(k, <<first + 17 * count, k.out, Tuple(LAMBDA i : first + 17 * (i - 1), count)>>)
              IN  Of(named, doSha(addMicros(h, Joins(word, n)), coeffs, 1))
        IN  Of(LAMBDA h : WithConsts(h, <<1, BYTE, HALF, BYTE * HALF>>, LAMBDA k, by : words(k, by, h.out)), g)
  IN  Of(LAMBDA f : zeroed(f, f.out), addConst(e, 0, 0))

-----------------------------------------------------------------------------
(* The generator of an argument, made when it is first used                *)

NewRngIds(suite) == IF suite = "poseidon2" THEN [isInit |-> TRUE, curState |-> 0, used |-> 0]
                    ELSE [pool0 |-> shaRngConsts, pool1 |-> shaRngConsts + 8, used |-> 0]
OfSha(e) == "pool0" \in DOMAIN e.rng

shaStep(e) ==
  Of(LAMBDA f : Of(LAMBDA g : [g EXCEPT !.rng = [pool0 |-> f.out, pool1 |-> g.out, used |-> 0]],
                   doShaFold(f, f.out, f.rng.pool1)),
     doShaFold(e, e.rng.pool0, e.rng.pool1))

\* The exclusive or with eight words; their address is taken before the first
\* row ends the one of the micro operations
XorPool0(e, word(_)) ==
  LET rows == Tuple(LAMBDA i : <<i - 1, "BIT_OP_SHORTS", <<word(i), e.rng.pool0 + i - 1, 0>>>>, 8)
  IN  Of(LAMBDA f : shaStep(f), [addMacros(e, rows, 8) EXCEPT !.rng.pool0 = e.next, !.misplaced = @ \/ e.used # 0])
shaMix(e, digest) == XorPool0(e, LAMBDA i : digest + i - 1)
\* A Poseidon2 digest is split into halves first
mixedMix(e, digest) == Of(LAMBDA f : XorPool0(f, LAMBDA i : f.out[i]), taggedStructPushVals(e, Eight(digest)))

poseidon2Permute(e, loads) ==
  Of(LAMBDA f : [f EXCEPT !.rng = [isInit |-> FALSE, curState |-> f.out, used |-> 0]],
     addMacros(e, loads \o Rounds \o <<Store(0, 0, 0), Store(8, 0, 1), Store(16, 0, 2)>>, 24))
\* The state's three groups, the first one over what was loaded before
Reload(e, keepState) ==
  Tuple(LAMBDA i : Load(0, IF i = 1 THEN keepState ELSE 1, 0, IF i = 3 THEN 1 ELSE 0, i - 1, Eight(e.rng.curState + 8 * (i - 1))), 3)
poseidon2Remix(e) == Of(LAMBDA f : poseidon2Permute(f, Reload(f, 0)), e)
poseidon2Mix(e, digest) ==
  Of(LAMBDA f : poseidon2Permute(f, <<Load(1, 0, 0, IF f.rng.isInit THEN 1 ELSE 0, 0, Eight(digest))>>
                                    \o (IF f.rng.isInit THEN <<>> ELSE Reload(f, 1))),
     IF e.rng.used # 0 THEN poseidon2Remix(e) ELSE e)

mixIds(e, digest) ==
  IF e.suite = "sha" THEN shaMix(e, digest) ELSE IF e.suite = "mixed" THEN mixedMix(e, digest) ELSE poseidon2Mix(e, digest)

\* The next word of the pool, or cell of the state, and n of them
generate(e) ==
  Of(LAMBDA f : [f EXCEPT !.rng.used = @ + 1, !.out = f.rng.used + IF OfSha(f) THEN f.rng.pool0 ELSE f.rng.curState],
     IF OfSha(e) /\ e.rng.used = 8 THEN shaStep(e)
     ELSE IF ~ OfSha(e) /\ e.rng.used = 16 THEN poseidon2Remix(e) ELSE e)
Generated(e, n) == Each(e, Tuple(LAMBDA i : i, n), LAMBDA f, i : generate(f))

generateFpIds(e) ==
  Of(LAMBDA d : IF OfSha(e) THEN addMicros(d.e, Tuple(LAMBDA i : <<"MIX_RNG", <<d.ids[2 * i - 1], d.ids[2 * i], IF i = 1 THEN 0 ELSE 1>>>>, 3))
                ELSE Out(d.e, d.ids[1]),
     Generated(e, IF OfSha(e) THEN 6 ELSE 1))
\* The first of n + 1 cells that is not zero
RECURSIVE FirstNonZero(_, _)
FirstNonZero(e, n) ==
  LET choose(f, val, new) ==
        addMicros(f, <<<<"INV", <<val, 0, 0>>>>, <<"SELECT", <<f.next, val, (P + new - val) % P>>>>>>)
  IN  IF n = 0 THEN Generated(e, 1).e
      ELSE Of(LAMBDA f : Of(LAMBDA d : choose(d.e, f.out, d.ids[1]), Generated(f, 1)), FirstNonZero(e, n - 1))
generateBitsIds(e, bits) ==
  IF OfSha(e)
  THEN WithConst(e, 2^bits - 1,
         LAMBDA f, mask : Of(LAMBDA d : addMacro(d.e, 1, "BIT_OP_SHORTS", <<mask, d.ids[1], 1>>), Generated(f, 1)))
  ELSE Of(LAMBDA f : Of(LAMBDA g : addMacro(g, 1, "BIT_AND_ELEM", <<f.out, g.out, 0>>), addMicro(f, CONST(2^bits - 1, 0))),
          FirstNonZero(e, 3))

-----------------------------------------------------------------------------
(* The other operations; ids are those of their operands                   *)

constIds(e, v) ==
  LET extension(f, low, high) == addMicros(f, <<Op("MUL", high, fp4Rot2), Op("ADD", f.next, low)>>)
      high(f) == Of(LAMBDA g : extension(g, f.out, g.out), addConst(f, v[3], v[4]))
  IN  Of(high, addConst(e, v[1], v[2]))

\* Mutant: the values of each degree first, also of a flipped hash
hashIdsStraight(e, ids, k, flip) ==
  LET n == Len(ids)
      extract(i) == Tuple(LAMBDA j : <<"EXTRACT", <<ids[i], (j - 1) \div 2, (j - 1) % 2>>>>, 4)
      part(f, i, j) == IF k = 1 THEN ids[i] ELSE f.next - 4 * n + 4 * (i - 1) + j - 1
      padded(f) == Tuple(LAMBDA p : IF p <= k * n THEN part(f, ((p - 1) % n) + 1, ((p - 1) \div n) + 1) ELSE 0,
                         16 * ((k * n + 15) \div 16))
  IN  Of(LAMBDA f : IF e.suite = "sha" THEN doSha(f, padded(f), 0) ELSE doPoseidon2(f, padded(f)),
         IF k = 1 THEN e ELSE addMicros(e, Joins(extract, n)))
hashIds(e, ids, k, flip) ==
  LET n == Len(ids)
      extract(i) == Tuple(LAMBDA j : <<"EXTRACT", <<ids[i], (j - 1) \div 2, (j - 1) % 2>>>>, 4)
      part(f, i, j) == IF k = 1 THEN ids[i] ELSE f.next - 4 * n + 4 * (i - 1) + j - 1
      place(f, p) == IF flip THEN part(f, ((p - 1) \div k) + 1, ((p - 1) % k) + 1)
                     ELSE part(f, ((p - 1) % n) + 1, ((p - 1) \div n) + 1)
      padded(f) == Tuple(LAMBDA p : IF p <= k * n THEN place(f, p) ELSE 0, 16 * ((k * n + 15) \div 16))
  IN  Of(LAMBDA f : IF e.suite = "sha" THEN doSha(f, padded(f), 0) ELSE doPoseidon2(f, padded(f)),
         IF k = 1 THEN e ELSE addMicros(e, Joins(extract, n)))
foldIds(e, x, y) == IF e.suite = "sha" THEN doShaFold(e, x, y) ELSE doPoseidon2Fold(e, x, y)
intoDigestIds(e, kind, ids) ==
  IF KindOf(e.suite, kind) = "poseidon2" THEN doIntoDigestPoseidon2(e, ids)
  ELSE IF Len(ids) = 32 THEN doIntoDigestShaBytes(e, ids) ELSE doIntoDigestShaWords(e, ids)
fromDigestIds(e, id) ==
  addMicros(e, Tuple(LAMBDA i : <<"EXTRACT", <<id + (i - 1) \div 2, 0, (i - 1) % 2>>>>, 16))
assertEqIds(e, x, y) == addMicros(e, Tuple(LAMBDA i : Op("EQ", x + i - 1, y + i - 1), 8))

\* n values of k coefficients, or (k = 0) n digests
readIds(e, n, k, flip) ==
  LET size == IF k # 0 THEN k ELSE IF e.suite = "sha" THEN 2 ELSE 1
      count == IF k # 0 THEN n ELSE 8 * n
      demont == IF k = 0 /\ e.suite # "sha" THEN 1 ELSE 0
      body == <<"READ_IOP_BODY", <<IF size = 1 THEN 1 ELSE 0, IF size = 4 THEN 0 ELSE 1, demont>>>>
      header == <<"READ_IOP_HEADER", <<count, 2 * size + IF flip THEN 1 ELSE 0, 0>>>>
  IN  addMicros(e, <<header>> \o Tuple(LAMBDA i : body, count))
RECURSIVE rngValIds(_, _)
rngValIds(e, k) ==
  LET add(f, g) == addMicros(g, <<Op("MUL", g.out, k - 1), Op("ADD", f.out, g.next)>>)
  IN  IF k = 1 THEN generateFpIds(e)
      ELSE Of(LAMBDA f : Of(LAMBDA g : add(f, g), generateFpIds(f)), rngValIds(e, k - 1))

setGlobalIds(e, id, k) ==
  LET copy(i) == IF i > k THEN CONST(0, 0) ELSE Op("ADD", e.next, id + i - 1)
      padded == addMicros(e, <<CONST(0, 0)>> \o Tuple(copy, 4))
  IN  addMacro(padded, 0, "SET_GLOBAL", <<e.next + 1, 0, 0>>)
setGlobalDigestIds(e, id, offset) ==
  addMacros(e, <<<<0, "SET_GLOBAL", <<id, 2 * offset, 0>>>>, <<0, "SET_GLOBAL", <<id + 4, 2 * offset + 1, 0>>>>>>, 0)
selectIds(e, idx, elems, digests) ==
  LET n == IF digests THEN 8 ELSE 1
      spacing == (P + elems[2] - elems[1]) % P
  IN  Out(addMicros(e, Tuple(LAMBDA i : <<"SELECT", <<idx, elems[1] + i - 1, spacing>>>>, n)), e.next)
finalize(e) == addMacro(e, 0, "WOM_FINI", <<0, 0, 0>>)

=============================================================================
