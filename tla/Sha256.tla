------------------------------- MODULE Sha256 -------------------------------
(***************************************************************************)
(* SHA-256 compression as circuit/keccak2/cpp/preflight.cpp and            *)
(* compiler/zkp/sha256.h compute it.  A word of 32 bits is a pair of       *)
(* 16-bit parts and a lane of 64 bits a tuple of four, the low part first, *)
(* which is how the circuit packs both.                                    *)
(***************************************************************************)
EXTENDS Integers, Sequences, SequencesExt, Folding

SHORT == 65536

Po2 == <<1, 2, 4, 8, 16, 32, 64, 128, 256, 512, 1024, 2048, 4096, 8192, 16384, 32768>>

Bit(x, k) == (x[k \div 16 + 1] \div Po2[(k % 16) + 1]) % 2

Nibble(B(_), k) == B(k) + 2 * B(k + 1) + 4 * B(k + 2) + 8 * B(k + 3)

\* Part i of the number with bit k equal to B(k).
Part(B(_), i) ==
  Nibble(B, 16 * i) + 16 * Nibble(B, 16 * i + 4) + 256 * Nibble(B, 16 * i + 8)
    + 4096 * Nibble(B, 16 * i + 12)

Word(B(_)) == <<Part(B, 0), Part(B, 1)>>

Zero == <<0, 0>>

Xor3(a, b, c) == (a + b + c) % 2

\* htonl: the bytes of a word in the opposite order.
SwapBytes(x) ==
  LET swap(part) == (part % 256) * 256 + part \div 256
  IN  <<swap(x[2]), swap(x[1])>>

\* The high parts not reduced.
PlusLong(words) ==
  LET low  == FoldLeft(LAMBDA t, x : t + x[1], 0, words)
      high == FoldLeft(LAMBDA t, x : t + x[2], 0, words)
  IN  <<low % SHORT, high + low \div SHORT>>

\* Addition of the words of a sequence, mod 2^32.
Plus(words) ==
  LET low  == FoldLeft(LAMBDA t, x : t + x[1], 0, words)
      high == FoldLeft(LAMBDA t, x : t + x[2], 0, words)
  IN  <<low % SHORT, (high + low \div SHORT) % SHORT>>

-----------------------------------------------------------------------------
(* The round function                                                      *)

\* ROTRIGHT(x, p) ^ ROTRIGHT(x, q) ^ ROTRIGHT(x, r)
Rotations(x, p, q, r) ==
  Word(LAMBDA k : Xor3(Bit(x, (k + p) % 32), Bit(x, (k + q) % 32), Bit(x, (k + r) % 32)))

\* ROTRIGHT(x, p) ^ ROTRIGHT(x, q) ^ (x >> r)
RotationsShift(x, p, q, r) ==
  Word(LAMBDA k : Xor3(Bit(x, (k + p) % 32), Bit(x, (k + q) % 32),
                       IF k + r < 32 THEN Bit(x, k + r) ELSE 0))

EP0(x) == Rotations(x, 2, 13, 22)
EP1(x) == Rotations(x, 6, 11, 25)
SIG0(x) == RotationsShift(x, 7, 18, 3)
SIG1(x) == RotationsShift(x, 17, 19, 10)

CH(x, y, z) == Word(LAMBDA k : IF Bit(x, k) = 1 THEN Bit(y, k) ELSE Bit(z, k))

MAJ(x, y, z) ==
  Word(LAMBDA k : (Bit(x, k) * Bit(y, k) + Bit(x, k) * Bit(z, k) + Bit(y, k) * Bit(z, k)) % 2)

sha_k == <<
  <<12184, 17034>>, <<17553, 28983>>, <<64463, 46528>>, <<56229, 59829>>, <<49755, 14678>>,
  <<4593, 23025>>, <<33444, 37439>>, <<24277, 43804>>, <<43672, 55303>>, <<23297, 4739>>,
  <<34238, 9265>>, <<32195, 21772>>, <<23924, 29374>>, <<45566, 32990>>, <<1703, 39900>>,
  <<61812, 49563>>, <<27073, 58523>>, <<18310, 61374>>, <<40390, 4033>>, <<41420, 9228>>,
  <<11375, 11753>>, <<33962, 19060>>, <<43484, 23728>>, <<35034, 30457>>, <<20818, 38974>>,
  <<50797, 43057>>, <<10184, 45059>>, <<32711, 48985>>, <<3059, 50912>>, <<37191, 54695>>,
  <<25425, 1738>>, <<10599, 5161>>, <<2693, 10167>>, <<8504, 11803>>, <<28156, 19756>>,
  <<3347, 21304>>, <<29524, 25866>>, <<2747, 30314>>, <<51502, 33218>>, <<11397, 37490>>,
  <<59553, 41663>>, <<26187, 43034>>, <<35696, 49739>>, <<20899, 51052>>, <<59417, 53650>>,
  <<1572, 54937>>, <<13701, 62478>>, <<41072, 4202>>, <<49430, 6564>>, <<27656, 7735>>,
  <<30540, 10056>>, <<48309, 13488>>, <<3251, 14620>>, <<43594, 20184>>, <<51791, 23452>>,
  <<28659, 26670>>, <<33518, 29839>>, <<25455, 30885>>, <<30740, 33992>>, <<520, 36039>>,
  <<65530, 37054>>, <<27883, 42064>>, <<41975, 48889>>, <<30962, 50801>>>>

\* a, b, ..., h
sha_init == <<
  <<58983, 27145>>, <<44677, 47975>>, <<62322, 15470>>, <<62778, 42319>>,
  <<21119, 20750>>, <<26764, 39685>>, <<55723, 8067>>, <<52505, 23520>>>>

\* SHA_ROUND_FUNC
ShaRound(s, k, w) ==
  LET t1 == Plus(<<s[8], EP1(s[5]), CH(s[5], s[6], s[7]), k, w>>)
      t2 == Plus(<<EP0(s[1]), MAJ(s[1], s[2], s[3])>>)
  IN  <<Plus(<<t1, t2>>), s[1], s[2], s[3], Plus(<<s[4], t1>>), s[5], s[6], s[7]>>

\* The message schedule of 16 words.
Schedule(chunk) ==
  LongFold(LAMBDA w, i : Append(w, Plus(<<SIG1(w[i + 14]), w[i + 9], SIG0(w[i + 1]), w[i]>>)), chunk, 48)

\* The state before the first round and after each one.
States(state, w) ==
  LongFold(LAMBDA ss, i : Append(ss, ShaRound(Last(ss), sha_k[i], w[i])), <<state>>, 64)

AddStates(x, y) == <<>> \o [i \in 1 .. 8 |-> Plus(<<x[i], y[i]>>)]

\* impl::compress of compiler/zkp/sha256.h
Compress(state, chunk) == AddStates(state, Last(States(state, Schedule(chunk))))
=============================================================================
