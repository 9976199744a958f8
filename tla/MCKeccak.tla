------------------------------ MODULE MCKeccak ------------------------------
(* The two keccak accelerators for TLC: Keccak on lists of one and two     *)
(* states, and the circuit of KeccakV1 on three transcripts.               *)
EXTENDS Keccak, Folding

VARIABLES transcript, pos, rows, memory, output, failed

K1 == INSTANCE KeccakV1 WITH Transcripts <- {}, input <- transcript, back <- rows

v1vars == <<transcript, pos, rows, memory, output, failed>>

\* States with bits of every part set.
Seed(m) == [n \in 1 .. 25 |-> <<(n * m) % SHORT, (n * n * 977 + m) % SHORT,
                                (n * 7919) % SHORT, SHORT - n>>]

MCInputs == {<<Seed(1)>>, <<Seed(40503), Seed(3)>>}
MCSpare == {2}

-----------------------------------------------------------------------------
(* What a transcript claims                                                *)


BLOCK == 17
DIGEST == 4

XorLanes(x, y) == Lane(LAMBDA k : (Bit(x, k) + Bit(y, k)) % 2)

Round(s, r) == chi_iota(theta_p2_rho_pi(s, theta_p1(s)), r - 1)
Permuted(s) == LongFold(LAMBDA x, r : Round(x, r), s, ROUNDS)

\* The state after the blocks at the head of a sequence of lanes.
Sponge(lanes, blocks) ==
  Fold(LAMBDA s, b : Permuted(<<>> \o [n \in 1 .. 25 |->
         IF n <= BLOCK THEN XorLanes(s[n], lanes[BLOCK * (b - 1) + n]) ELSE s[n]]),
       [n \in 1 .. 25 |-> <<0, 0, 0, 0>>], blocks)

Hash(lanes, blocks) == SubSeq(Sponge(lanes, blocks), 1, DIGEST)

\* Every message is followed by its digest; a count of zero ends the transcript.
RECURSIVE Honest(_)
Honest(t) ==
  LET blocks == t[1][1]
      end    == 1 + BLOCK * blocks
  IN  blocks = 0 \/ /\ SubSeq(t, end + 1, end + DIGEST) = Hash(Tail(t), blocks)
                    /\ Honest(SubSeq(t, end + DIGEST + 1, Len(t)))

\* SHA-256 of the elements read, with its padding, as words of the digest with
\* their bytes in memory order.
Digest(t) ==
  LET n       == Len(t)
      total   == 8 * ((n + 9) \div 8)
      padded  == t \o <<<<128, 0, 0, 0>>>> \o [i \in 1 .. total - n - 2 |-> <<0, 0, 0, 0>>]
                   \o <<<<0, 0>> \o SwapBytes(<<64 * n, 0>>)>>
      word(i) == LET e == padded[(i + 1) \div 2]
                 IN  SwapBytes(IF i % 2 = 1 THEN <<e[1], e[2]>> ELSE <<e[3], e[4]>>)
      chunk(i) == <<>> \o [j \in 1 .. 16 |-> word(16 * i + j)]
      last    == Fold(LAMBDA d, i : Compress(d, chunk(i - 1)), sha_init, total \div 8)
  IN  [i \in 1 .. 8 |-> SwapBytes(last[i])]

\* The transcript of the accelerator's own test (test1k.zir).
Fox == <<
  <<1, 0, 0, 0>>, <<26708, 8293, 30065, 25449>>, <<8299, 29282, 30575, 8302>>,
  <<28518, 8312, 30058, 28781>>, <<8307, 30319, 29285, 29728>>, <<25960, 27680, 31329, 8313>>,
  <<28516, 11879, 1, 0>>>> \o [i \in 1 .. 10 |-> <<0, 0, 0, 0>>] \o <<<<0, 0, 0, 32768>>,
  <<35159, 57937, 64846, 41826>>, <<15062, 63366, 6605, 42410>>, <<35132, 57999, 53895, 8533>>,
  <<8755, 28675, 2852, 11607>>, <<0, 0, 0, 0>>>>

\* A message of two blocks and one of one block.
TwoMessages ==
  LET long  == SubSeq(Seed(7) \o Seed(40503), 1, 2 * BLOCK)
      short == SubSeq(Seed(3), 1, BLOCK)
  IN  <<<<2, 0, 0, 0>>>> \o long \o Hash(long, 2) \o <<<<1, 0, 0, 0>>>> \o short \o Hash(short, 1)
        \o <<<<0, 0, 0, 0>>>>

MCTranscripts == {Fox, TwoMessages, [Fox EXCEPT ![22] = <<8755, 28675, 2852, 11606>>]}

HonestTranscripts == {t \in MCTranscripts : Honest(t)}
Digests == [t \in HonestTranscripts |-> Digest(t)]

-----------------------------------------------------------------------------
(* One accelerator or the other                                            *)

InitBoth ==
  \/ /\ Init
     /\ transcript = <<>> /\ pos = 0 /\ rows = <<>> /\ memory = {} /\ output = <<>> /\ failed = TRUE
  \/ /\ inputs = <<>> /\ cycles = 0 /\ at = "none" /\ input = 1 /\ block = 0 /\ round = 0
     /\ kstate = <<>> /\ data = <<>> /\ currentSha = sha_init /\ infos = <<>>
     /\ kflatOffset = NoKflat /\ sflatOffset = sha_init /\ curPreimage = 0 /\ back = <<>>
     /\ transcript \in MCTranscripts
     /\ pos = 0 /\ rows = <<>> /\ memory = {} /\ output = <<>> /\ failed = FALSE

NextBoth ==
  \/ Next /\ UNCHANGED v1vars
  \/ K1!Next /\ UNCHANGED vars

SpecBoth == InitBoth /\ [][NextBoth]_<<vars, v1vars>>

\* The first accelerator puts out a digest only of a transcript each of whose
\* digests is the hash of its blocks, and that digest is SHA-256 of the whole, each
\* element read as often as written; an honest transcript fails only by a padding
\* that does not end a block (keccak.zir:1483-1493, sha256_for_keccak.zir:217-219).
TranscriptHashed ==
  /\ output # <<>> => /\ transcript \in HonestTranscripts
                      /\ output = Digests[transcript]
                      /\ memory = {}
  /\ failed /\ transcript \in HonestTranscripts =>
       pos = Len(transcript) /\ (rows[1].midx + 1) % 8 # 0
=============================================================================
