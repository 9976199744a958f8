------------------------------ MODULE KeccakV1 ------------------------------
(***************************************************************************)
(* The first keccak accelerator (circuit/keccak/keccak.zir with            *)
(* sha256_for_keccak.zir): a circuit that reads a transcript of messages   *)
(* and their digests, absorbs and permutes block by block over hundreds of *)
(* rows, compares, and hashes all that it read.  Each action is one row,   *)
(* computed from up to nine (keccak) or 68 (SHA-256) rows before it.       *)
(*                                                                         *)
(* A lane of 64 bits is cut into parts of 22, 21 and 21 bits; a part is    *)
(* the set of its bits.  The arrays arr_a to arr_d of a row that holds the *)
(* state are one function `cells`: 25 lanes of three parts, then the five  *)
(* column parities.  A row on the way holds the parts arr_a..arr_c as p,   *)
(* arr_d..arr_f as q, and the packed results beside them as res.           *)
(***************************************************************************)
EXTENDS Sha256, FiniteSets, Functions

CONSTANTS Transcripts   \* sequences of elements, each four shorts

VARIABLES
  input, pos,      \* the transcript, and how much of it was read
  back,            \* the rows, newest first, as far as a later row reads them
  memory,          \* written and not yet read, as the use-once argument has it
  output,          \* the global, or <<>>
  failed           \* a constraint that no hint satisfies

vars == <<input, pos, back, memory, output, failed>>

LENGTHS == <<22, 21, 21>>
EXTRA == 17
SETUP == 16
LOAD == 18
MIX == 19
ABSORB == 14

Triple == 1 .. 3
Below5 == 0 .. 4
Empty == <<{}, {}, {}>>

NoCells == [i \in 0 .. 89 |-> {}]

Xor2(x, y) == (x \ y) \cup (y \ x)
Xor3Parts(x, y, z) == Xor2(Xor2(x, y), z)

Lane(s, x, y) == <<s[3 * x + 15 * y], s[3 * x + 15 * y + 1], s[3 * x + 15 * y + 2]>>
Column(s, x) == <<s[75 + 3 * x], s[75 + 3 * x + 1], s[75 + 3 * x + 2]>>

IncMod5(x) == IF x = 4 THEN 0 ELSE x + 1
DecMod5(x) == IF x = 0 THEN 4 ELSE x - 1

\* The last n bits of each part move to the front of the next.
RotLeft3impl(l, n) ==
  LET before(k) == IF k = 1 THEN 3 ELSE k - 1
  IN  <<>> \o [k \in Triple |->
        {i \in 0 .. LENGTHS[k] - 1 :
           IF i < n THEN LENGTHS[before(k)] - n + i \in l[before(k)] ELSE i - n \in l[k]}]

rot_table == <<
  <<0, 0, 0>>,    <<1, 0, 0>>,    <<21, 21, 20>>, <<21, 7, 0>>,   <<21, 6, 0>>,
  <<21, 15, 0>>,  <<21, 21, 2>>,  <<6, 0, 0>>,    <<21, 21, 13>>, <<20, 0, 0>>,
  <<3, 0, 0>>,    <<10, 0, 0>>,   <<21, 21, 1>>,  <<21, 4, 0>>,   <<21, 18, 0>>,
  <<21, 20, 0>>,  <<21, 21, 3>>,  <<15, 0, 0>>,   <<21, 0, 0>>,   <<8, 0, 0>>,
  <<18, 0, 0>>,   <<2, 0, 0>>,    <<21, 21, 19>>, <<21, 21, 14>>, <<14, 0, 0>>>>

\* Up to three turns, the first of none ending them.
vRotLeft3(l, t) ==
  IF t[1] = 0 THEN l
  ELSE LET one == RotLeft3impl(l, t[1])
       IN  IF t[2] = 0 THEN one
           ELSE LET two == RotLeft3impl(one, t[2])
                IN  IF t[3] = 0 THEN two ELSE RotLeft3impl(two, t[3])

\* The bits of the round constants, of the first, second and third part.
rctable == <<
  <<{0}, {}, {}>>,            <<{1, 7, 15}, {}, {}>>,      <<{1, 3, 7, 15}, {}, {20}>>,
  <<{15}, {9}, {20}>>,        <<{0, 1, 3, 7, 15}, {}, {}>>, <<{0}, {9}, {}>>,
  <<{0, 7, 15}, {9}, {20}>>,  <<{0, 3, 15}, {}, {20}>>,    <<{1, 3, 7}, {}, {}>>,
  <<{3, 7}, {}, {}>>,         <<{0, 3, 15}, {9}, {}>>,     <<{1, 3}, {9}, {}>>,
  <<{0, 1, 3, 7, 15}, {9}, {}>>, <<{0, 1, 3, 7}, {}, {20}>>, <<{0, 3, 7, 15}, {}, {20}>>,
  <<{0, 1, 15}, {}, {20}>>,   <<{1, 15}, {}, {20}>>,       <<{7}, {}, {20}>>,
  <<{1, 3, 15}, {}, {}>>,     <<{1, 3}, {9}, {20}>>,       <<{0, 7, 15}, {9}, {20}>>,
  <<{7, 15}, {}, {20}>>,      <<{0}, {9}, {}>>,            <<{3, 15}, {9}, {20}>>>>

-----------------------------------------------------------------------------
(* Rows                                                                    *)

\* A row of the keccak part.
RetTuple(cells, p, q, res, minor, major, rnd, blk, midx) ==
  [cells |-> cells, p |-> p, q |-> q, res |-> res,
   minor |-> minor, major |-> major, rnd |-> rnd, blk |-> blk, midx |-> midx]

\* A row that holds the state, and one that holds parts and results.
StateRow(cells, minor, major, from) ==
  RetTuple(cells, <<>>, <<>>, <<>>, minor, major, from.rnd, from.blk, from.midx)
WorkRow(p, q, res, minor, major, from) ==
  RetTuple(<<>>, p, q, res, minor, major, from.rnd, from.blk, from.midx)

\* A row of the SHA-256 part: words a, e and w, and the element read.
ShaRow(a, e, w, elem, minor, major, rnd, blk, midx) ==
  [a |-> a, e |-> e, w |-> w, elem |-> elem,
   minor |-> minor, major |-> major, rnd |-> rnd, blk |-> blk, midx |-> midx]

\* Keccak rows look back nine rows, or ten when they absorb.
Emit(row, depth) == back' = SubSeq(<<row>> \o back, 1, IF Len(back) < depth THEN Len(back) + 1 ELSE depth)
EmitKeccak(row) == Emit(row, 10)
EmitSha(row) == Emit(row, 68)

At(majors) == ~failed /\ back # <<>> /\ back[1].major \in majors

-----------------------------------------------------------------------------
(* Theta                                                                   *)

\* Part k of the parity of column x.
xor5words_result(s, x, k) ==
  {i \in 0 .. LENGTHS[k + 1] - 1 :
     Cardinality({y \in Below5 : i \in s[k + 3 * x + 15 * y]}) % 2 = 1}

\* xor5words_minor0, minor1 and minor2: the state is one row further back each time.
Xor5Part ==
  /\ At(0 .. 2)
  /\ LET k  == back[1].major
         st == back[k + 1]
         r  == xor5words_result(st.cells, st.minor, k)
     IN  EmitKeccak(WorkRow(<<>>, <<>>, Append(back[1].res, r), back[1].minor, k + 1, back[1]))
  /\ UNCHANGED <<input, pos, memory, output, failed>>

\* xor5words_minor3
Xor5Store ==
  /\ At({3})
  /\ LET x == back[1].minor
         cells == [back[4].cells EXCEPT ![75 + 3 * x] = back[1].res[1],
                     ![76 + 3 * x] = back[1].res[2], ![77 + 3 * x] = back[1].res[3]]
     IN  EmitKeccak(IF x = 4 THEN StateRow(cells, 0, 4, back[1])
                    ELSE StateRow(cells, x + 1, 0, back[1]))
  /\ UNCHANGED <<input, pos, memory, output, failed>>

-----------------------------------------------------------------------------
(* Theta's second half, rho and pi, one plane Y at a time                  *)

Plane == back[1].major - 4

\* rho_minor0: the two columns beside an even x.
RhoColumns ==
  /\ At(4 .. 8) /\ back[1].minor \in {0, 3, 6}
  /\ LET m == back[1].minor
         x == 2 * (m \div 3)
         s == back[m + 1].cells
     IN  EmitKeccak(WorkRow(RotLeft3impl(Column(s, IncMod5(x)), 1), Column(s, DecMod5(x)), <<>>,
                            m + 1, back[1].major, back[m + 1]))
  /\ UNCHANGED <<input, pos, memory, output, failed>>

XorRotated(lane, p, q, x) ==
  vRotLeft3(<<>> \o [k \in Triple |-> Xor3Parts(lane[k], p[k], q[k])], rot_table[5 * Plane + x + 1])

\* rho_minor1: the lane of an even x; the next x needs column x.
RhoEven ==
  /\ At(4 .. 8) /\ back[1].minor \in {1, 4, 7}
  /\ LET m == back[1].minor
         x == 2 * (m \div 3)
         s == back[m + 1].cells
     IN  EmitKeccak(WorkRow(IF x = 4 THEN Empty ELSE Column(s, DecMod5(x + 1)), <<>>,
                            XorRotated(Lane(s, x, Plane), back[1].p, back[1].q, x),
                            m + 1, back[1].major, back[1]))
  /\ UNCHANGED <<input, pos, memory, output, failed>>

\* rho_minor2: the lane of an odd x.
RhoOdd ==
  /\ At(4 .. 8) /\ back[1].minor \in {2, 5}
  /\ LET m == back[1].minor
         x == 2 * (m \div 3) + 1
         s == back[m + 1].cells
         turned == RotLeft3impl(Column(s, IncMod5(x)), 1)
     IN  EmitKeccak(WorkRow(Column(s, IncMod5(x)), <<>>,
                            XorRotated(Lane(s, x, Plane), back[1].p, turned, x),
                            m + 1, back[1].major, back[1]))
  /\ UNCHANGED <<input, pos, memory, output, failed>>

\* Where the rows of a plane left lane x: seven, six, four, three and one row ago.
RHO_ROWS == <<7, 6, 4, 3, 1>>

\* The plane's fifteen parts from the rows that computed them.
WithPlane(s, y, part(_, _)) ==
  [i \in DOMAIN s |-> IF i \in 15 * y .. 15 * y + 14
                      THEN part((i - 15 * y) \div 3, (i - 15 * y) % 3) ELSE s[i]]

\* Lane n moves from PI[n + 1], given as 5 * y + x.
PI == <<0, 6, 12, 18, 24, 3, 9, 10, 16, 22, 1, 7, 13, 19, 20, 4, 5, 11, 17, 23, 2, 8, 14, 15, 21>>

Permuted(s) == [i \in 0 .. 89 |-> IF i < 75 THEN s[3 * PI[(i \div 3) + 1] + (i % 3)] ELSE {}]

\* rho_minor3
RhoStore ==
  /\ At(4 .. 8) /\ back[1].minor = 8
  /\ LET y == Plane
         s == WithPlane(back[9].cells, y, LAMBDA x, k : back[RHO_ROWS[x + 1]].res[k + 1])
     IN  EmitKeccak(IF y = 4 THEN StateRow(Permuted(s), 0, 9, back[1])
                    ELSE StateRow(s, 0, y + 5, back[1]))
  /\ UNCHANGED <<input, pos, memory, output, failed>>

-----------------------------------------------------------------------------
(* Chi and iota                                                            *)

ChiPlane == back[1].major - 9

andnxor(x, y, z) == Xor2(x, z \ y)

\* Part k of lane x after chi.
ChiPart(s, x, k) ==
  LET p(n) == Lane(s, n, ChiPlane)[k] IN andnxor(p(x), p(IncMod5(x)), p(IncMod5(IncMod5(x))))

\* The minors at which the first two parts of lanes 0 to 4 are computed.
CHI_FIRST == <<0, 2, 3, 5, 6>>

\* chi_minor0: the first two parts of a lane.
ChiFirstParts ==
  /\ At(9 .. 13) /\ back[1].minor \in {0, 2, 3, 5, 6}
  /\ LET m  == back[1].minor
         x  == (CHOOSE n \in 1 .. 5 : CHI_FIRST[n] = m) - 1
         st == back[m + 1]
     IN  EmitKeccak(WorkRow(<<>>, <<>>, <<ChiPart(st.cells, x, 1), ChiPart(st.cells, x, 2)>>,
                            IF x \in {1, 3} THEN 3 * (1 + (x - 1) \div 2) ELSE 1 + 3 * (x \div 2),
                            back[1].major, st))
  /\ UNCHANGED <<input, pos, memory, output, failed>>

\* chi_minor1: the third part of an even lane beside its first two, and of the
\* odd one after it.
ChiThirdParts ==
  /\ At(9 .. 13) /\ back[1].minor \in {1, 4, 7}
  /\ LET m == back[1].minor
         x == 2 * (m \div 3)
         s == back[m + 1].cells
         odd == IF x = 4 THEN {} ELSE ChiPart(s, IncMod5(x), 3)
     IN  EmitKeccak(WorkRow(<<>>, <<>>,
                            <<back[1].res[1], back[1].res[2], ChiPart(s, x, 3), odd>>,
                            2 + 3 * (x \div 2), back[1].major, back[1]))
  /\ UNCHANGED <<input, pos, memory, output, failed>>

\* Mutant: the third part of an odd lane beside its first two.
ChiResultBeside(x, k) ==
  IF x % 2 = 0 THEN back[7 - 3 * (x \div 2)].res[k + 1]
  ELSE IF k = 2 THEN back[7 - 3 * (x \div 2)].res[3]
  ELSE back[6 - 3 * (x \div 2)].res[k + 1]

\* Where part k of lane x is: an even lane seven, four and one row ago; of an odd
\* one two parts in the row after and the third beside its neighbour's.
ChiResult(x, k) ==
  IF x % 2 = 0 THEN back[7 - 3 * (x \div 2)].res[k + 1]
  ELSE IF k = 2 THEN back[7 - 3 * (x \div 2)].res[4]
  ELSE back[6 - 3 * (x \div 2)].res[k + 1]

\* chi_minor2
ChiStore ==
  /\ At(9 .. 13) /\ back[1].minor = 8
  /\ LET y == ChiPlane
         s == WithPlane(back[9].cells, y, ChiResult)
     IN  EmitKeccak(IF y = 4 THEN StateRow(s, 9, 13, back[1]) ELSE StateRow(s, 0, y + 10, back[1]))
  /\ UNCHANGED <<input, pos, memory, output, failed>>

\* iota_xor_rc: the next round, the next block, or the comparison.
Iota ==
  /\ At({13}) /\ back[1].minor = 9
  /\ LET r  == back[1].rnd
         s  == back[1].cells
         rc == rctable[r + 1]
         cells == [s EXCEPT ![0] = Xor2(rc[1], s[0]), ![1] = Xor2(rc[2], s[1]),
                            ![2] = Xor2(rc[3], s[2])]
         newBlk == back[1].blk - 1
         nxt == IF r < 23 THEN <<0, r + 1, back[1].blk>>
                ELSE IF newBlk # 0 THEN <<ABSORB, 0, newBlk>> ELSE <<EXTRA, 0, 0>>
     IN  EmitKeccak(RetTuple(cells, <<>>, <<>>, <<>>, 0, nxt[1], nxt[2], nxt[3], back[1].midx))
  /\ UNCHANGED <<input, pos, memory, output, failed>>

-----------------------------------------------------------------------------
(* Reading the transcript                                                  *)

Element == input[pos + 1]
Zeros == <<0, 0, 0, 0>>

\* Four shorts as three parts.
ToParts(e) ==
  LET bit(k) == Bit(e, k) = 1
  IN  <<{i \in 0 .. 21 : bit(i)}, {i \in 0 .. 20 : bit(i + 22)}, {i \in 0 .. 20 : bit(i + 43)}>>

WriteMemory(idx, e) == memory' = memory \cup {<<idx, e>>}

\* absorb_word: lane n, counted 5 * y + x, of a block; its cells are in the
\* state's row, one row further back for each lane.
AbsorbWord ==
  /\ \/ At({ABSORB}) /\ back[1].minor < 9
     \/ At({ABSORB + 1}) /\ back[1].minor < 8
  /\ pos < Len(input)
  /\ LET m  == back[1].minor
         n  == IF back[1].major = ABSORB THEN m ELSE m + 9
         st == back[m + 1]
         l  == Lane(st.cells, n % 5, n \div 5)
         in == ToParts(Element)
     IN  /\ WriteMemory(st.midx + 1 + n, Element)
         /\ EmitKeccak(WorkRow(<<>>, <<>>, <<>> \o [k \in Triple |-> Xor2(l[k], in[k])],
                               IF n + 1 < 10 THEN n + 1 ELSE n - 8,
                               IF n + 1 < 10 THEN ABSORB ELSE ABSORB + 1, [st EXCEPT !.rnd = 0]))
  /\ pos' = pos + 1
  /\ UNCHANGED <<input, output, failed>>

\* Lanes first to first + m - 1 from the last m rows.
Absorbed(s, first, m) ==
  [i \in DOMAIN s |-> IF i \in 3 * first .. 3 * (first + m) - 1
                      THEN back[m - ((i \div 3) - first)].res[(i % 3) + 1] ELSE s[i]]

\* absorb_copy1: after nine lanes.
AbsorbCopy1 ==
  /\ At({ABSORB}) /\ back[1].minor = 9
  /\ EmitKeccak(StateRow(Absorbed(back[10].cells, 0, 9), 0, ABSORB + 1, [back[1] EXCEPT !.rnd = 0]))
  /\ UNCHANGED <<input, pos, memory, output, failed>>

\* absorb_copy2: after the other eight.
AbsorbCopy2 ==
  /\ At({ABSORB + 1}) /\ back[1].minor = 8
  /\ EmitKeccak(StateRow(Absorbed(back[9].cells, 9, 8), 0, 0,
                         [back[1] EXCEPT !.rnd = 0, !.midx = @ + 17]))
  /\ UNCHANGED <<input, pos, memory, output, failed>>

\* equal_word: lane x of the state is the element.
EqualWord ==
  /\ At({EXTRA}) /\ back[1].minor < 4 /\ pos < Len(input)
  /\ LET x  == back[1].minor
         st == back[x + 1]
         idx == st.midx + 1 + x
     IN  IF Lane(st.cells, x, 0) = ToParts(Element)
         THEN /\ WriteMemory(idx, Element)
              /\ EmitKeccak(RetTuple(<<>>, <<>>, <<>>, <<>>, x + 1, EXTRA, 0, 0, idx))
              /\ UNCHANGED failed
         ELSE failed' = TRUE /\ UNCHANGED <<memory, back>>
  /\ pos' = pos + 1
  /\ UNCHANGED <<input, output>>

\* The first row: the transcript begins with a count of blocks.
FirstCycle ==
  /\ back = <<>> /\ ~failed /\ pos < Len(input)
  /\ WriteMemory(0, <<Element[1], 0, 0, 0>>)
  /\ Emit(RetTuple(NoCells, <<>>, <<>>, <<>>, 0, ABSORB, 0, Element[1], 0), 1)
  /\ pos' = pos + 1
  /\ UNCHANGED <<input, output, failed>>

\* parse_next_block, for another message.
ParseMessage ==
  /\ At({EXTRA}) /\ back[1].minor = 4 /\ pos < Len(input) /\ Element[1] # 0
  /\ LET idx == back[1].midx + 1
     IN  /\ WriteMemory(idx, <<Element[1], 0, 0, 0>>)
         /\ Emit(RetTuple(NoCells, <<>>, <<>>, <<>>, 0, ABSORB, 0, Element[1], idx), 1)
  /\ pos' = pos + 1
  /\ UNCHANGED <<input, output, failed>>

\* parse_next_block, at the end: the padding begins.  nskip is only known to have
\* three bits; the honest one makes the elements a multiple of eight.
ParseEnd ==
  /\ At({EXTRA}) /\ back[1].minor = 4 /\ pos < Len(input) /\ Element[1] = 0
  /\ LET nxt == back[1].midx + 1
     IN  /\ memory' = memory \cup {<<nxt, Zeros>>, <<nxt + 1, <<128, 0, 0, 0>>>>}
         /\ \E nskip \in 0 .. 7 :
              Emit(ShaRow(Zero, Zero, Zero, <<>>, 0, SETUP, 64 * (nxt + 1), nskip, nxt + 1), 1)
  /\ pos' = pos + 1
  /\ UNCHANGED <<input, output, failed>>

-----------------------------------------------------------------------------
(* SHA-256 of what was written                                             *)

Setup(minors) == At({SETUP}) /\ back[1].minor \in minors

\* b34 and b12: the length in bits, with the bytes of each short swapped.
BitLength(bits) ==
  LET swap(n) == 256 * (n % 256) + ((n \div 256) % 256)
  IN  <<0, 0, swap(bits \div SHORT), swap(bits % SHORT)>>

\* mem_padding_sha256: an element of zeros, or the length as the last.
MemPadding ==
  /\ Setup({0})
  /\ LET nskip == back[1].blk
         idx == back[1].midx + 1
     IN  IF nskip # 0
         THEN /\ WriteMemory(idx, Zeros)
              /\ EmitSha(ShaRow(Zero, Zero, Zero, <<>>, 0, SETUP, back[1].rnd, nskip - 1, idx))
         ELSE /\ WriteMemory(idx, BitLength(back[1].rnd))
              /\ EmitSha(ShaRow(Zero, Zero, Zero, <<>>, 1, SETUP, 0, 0, idx))
  /\ UNCHANGED <<input, pos, output, failed>>

\* sha256init: the initial values, d and h first.
ShaInit ==
  /\ Setup(1 .. 4)
  /\ LET n == back[1].minor
     IN  EmitSha(ShaRow(sha_init[5 - n], sha_init[9 - n], Zero, <<>>,
                        IF n = 4 THEN 0 ELSE n + 1, IF n = 4 THEN LOAD ELSE SETUP,
                        0, 0, back[1].midx))
  /\ UNCHANGED <<input, pos, memory, output, failed>>

\* computeAE: the round of a word w with constant k, from the last four rows.
computeAE(w, k) ==
  LET stage1 == <<w, k, back[4].e, CH(back[1].e, back[2].e, back[3].e), EP1(back[1].e)>>
  IN  [a |-> Plus(stage1 \o <<MAJ(back[1].a, back[2].a, back[3].a), EP0(back[1].a)>>),
       e |-> Plus(Append(stage1, back[4].a))]

\* A word of two shorts, the bytes of each in the other order.
unpacked_w(x, y) ==
  LET swap(n) == 256 * (n % 256) + n \div 256 IN <<swap(y), swap(x)>>

\* sha256load: two shorts of an element read, or the two left of the last row's.
ShaLoad ==
  /\ At({LOAD})
  /\ LET idx  == back[1].blk
         flag == back[1].rnd
         n    == back[1].minor
         next(elem, w) ==
           LET ae == computeAE(w, sha_k[n + 1])
           IN  ShaRow(ae.a, ae.e, w, elem, IF n = 15 THEN 0 ELSE n + 1,
                      IF n = 15 THEN MIX ELSE LOAD, 1 - flag,
                      idx + flag, back[1].midx)
     IN  \/ /\ back[1].midx + 1 - idx = 0
            /\ failed' = TRUE /\ UNCHANGED <<back, memory>>
         \/ /\ back[1].midx + 1 - idx # 0 /\ flag = 0
            /\ \E elem \in memory :
                 /\ elem[1] = idx
                 /\ memory' = memory \ {elem}
                 /\ EmitSha(next(elem[2], unpacked_w(elem[2][1], elem[2][2])))
            /\ UNCHANGED failed
         \/ /\ back[1].midx + 1 - idx # 0 /\ flag = 1
            /\ EmitSha(next(<<>>, unpacked_w(back[1].elem[3], back[1].elem[4])))
            /\ UNCHANGED <<failed, memory>>
  /\ UNCHANGED <<input, pos, output>>

\* computeW
computeW == Plus(<<back[16].w, SIG0(back[15].w), back[7].w, SIG1(back[2].w)>>)

\* sha256mix
ShaMix ==
  /\ At(MIX .. MIX + 2)
  /\ LET s == back[1].major - MIX
         n == back[1].minor
         w == computeW
         ae == computeAE(w, sha_k[16 * (s + 1) + n + 1])
         place == IF n < 15 THEN <<n + 1, MIX + s>> ELSE IF s < 2 THEN <<0, MIX + s + 1>> ELSE <<5, SETUP>>
     IN  EmitSha(ShaRow(ae.a, ae.e, w, <<>>, place[1], place[2],
                        IF n < 15 THEN 0 ELSE back[1].rnd, back[1].blk, back[1].midx))
  /\ UNCHANGED <<input, pos, memory, output, failed>>

\* pack2rev
pack2rev(w) == unpacked_w(w[1], w[2])

\* sha256fini: the sum with the state 68 rows ago, d and h first; then the next
\* eight elements, or the output.
ShaFini ==
  /\ Setup(5 .. 8)
  /\ LET n == back[1].minor
         a == Plus(<<back[4].a, back[68].a>>)
         e == Plus(<<back[4].e, back[68].e>>)
         more == back[1].midx + 1 - back[1].blk # 0
         row(minor, major) == ShaRow(a, e, Zero, <<>>, minor, major, back[1].rnd, back[1].blk, back[1].midx)
     IN  IF n < 8 THEN EmitSha(row(n + 1, SETUP)) /\ UNCHANGED output
         ELSE IF more THEN EmitSha(row(0, LOAD)) /\ UNCHANGED output
         ELSE /\ output' = <<>> \o [i \in 1 .. 8 |->
                    pack2rev(CASE i = 1 -> a [] i \in 2 .. 4 -> back[i - 1].a
                               [] i = 5 -> e [] OTHER -> back[i - 5].e)]
              /\ Emit(ShaRow(Zero, Zero, Zero, <<>>, 9, SETUP, 0, 0, 0), 1)
  /\ UNCHANGED <<input, pos, memory, failed>>

\* The rest of the trace.
Idle ==
  /\ Setup({9})
  /\ Emit(ShaRow(Zero, Zero, Zero, <<>>, 9, SETUP, 0, 0, 0), 1)
  /\ UNCHANGED <<input, pos, memory, output, failed>>

Init ==
  /\ input \in Transcripts
  /\ pos = 0 /\ back = <<>> /\ memory = {} /\ output = <<>> /\ failed = FALSE

Next ==
  \/ Xor5Part \/ Xor5Store \/ RhoColumns \/ RhoEven \/ RhoOdd \/ RhoStore
  \/ ChiFirstParts \/ ChiThirdParts \/ ChiStore \/ Iota
  \/ AbsorbWord \/ AbsorbCopy1 \/ AbsorbCopy2 \/ EqualWord \/ FirstCycle \/ ParseMessage \/ ParseEnd
  \/ MemPadding \/ ShaInit \/ ShaLoad \/ ShaMix \/ ShaFini \/ Idle

Spec == Init /\ [][Next]_vars
=============================================================================
