------------------------------- MODULE Keccak -------------------------------
(***************************************************************************)
(* The keccak2 accelerator: its circuit (circuit/keccak2/top.zir,          *)
(* keccak.zir, sha2.zir) as a relation between a row and the four before   *)
(* it, and its preflight (cpp/preflight.cpp), the rows it lays out for a   *)
(* list of Keccak states, one at a time, with every value they hold, at    *)
(* full size.  Each state is hashed as four blocks into a running SHA-256  *)
(* state, permuted by 24 rounds, and hashed again; Shutdown rows fill the  *)
(* rest of the trace.                                                      *)
(***************************************************************************)
EXTENDS Sha256

(***************************************************************************)
(* The circuit.  A row holds the control state and the three arrays of     *)
(* TopState: bits as 25 words, kflat as 50 and sflat as 8.  back[n] is the *)
(* row n cycles earlier.                                                   *)
(***************************************************************************)
Control(type, sub, block, round) == [type |-> type, sub |-> sub, block |-> block, round |-> round]

IotaTable == <<
  <<1, 0, 0, 0>>, <<32898, 0, 0, 0>>, <<32906, 0, 0, 32768>>, <<32768, 32768, 0, 32768>>,
  <<32907, 0, 0, 0>>, <<1, 32768, 0, 0>>, <<32897, 32768, 0, 32768>>, <<32777, 0, 0, 32768>>,
  <<138, 0, 0, 0>>, <<136, 0, 0, 0>>, <<32777, 32768, 0, 0>>, <<10, 32768, 0, 0>>,
  <<32907, 32768, 0, 0>>, <<139, 0, 0, 32768>>, <<32905, 0, 0, 32768>>, <<32771, 0, 0, 32768>>,
  <<32770, 0, 0, 32768>>, <<128, 0, 0, 32768>>, <<32778, 0, 0, 0>>, <<10, 32768, 0, 32768>>,
  <<32897, 32768, 0, 32768>>, <<32896, 0, 0, 32768>>, <<1, 32768, 0, 0>>, <<32776, 32768, 0, 32768>>>>

RhoMatrix == <<<<0, 36, 3, 41, 18>>, <<1, 44, 10, 45, 2>>, <<62, 6, 43, 15, 61>>,
               <<28, 55, 25, 21, 56>>, <<27, 20, 39, 8, 14>>>>

PiMatrix == <<<<0, 3, 1, 4, 2>>, <<1, 4, 2, 0, 3>>, <<2, 0, 3, 1, 4>>,
              <<3, 1, 4, 2, 0>>, <<4, 2, 0, 3, 1>>>>

Lane(B(_)) == <<Part(B, 0), Part(B, 1), Part(B, 2), Part(B, 3)>>

Below5 == 0 .. 4

-----------------------------------------------------------------------------
(* keccak.zir on a state a[i][j] of lanes                                  *)

ThetaP1(a) ==
  [j \in Below5 |-> LET c == <<a[0][j], a[1][j], a[2][j], a[3][j], a[4][j]>>
     IN  Lane(LAMBDA k :
           (Bit(c[1], k) + Bit(c[2], k) + Bit(c[3], k) + Bit(c[4], k) + Bit(c[5], k)) % 2)]

ThetaP2(a, c) ==
  LET d == <<>> \o [n \in 1 .. 5 |->
             Lane(LAMBDA k : (Bit(c[(n + 3) % 5], k) + Bit(c[n % 5], (k + 63) % 64)) % 2)]
  IN  [i \in Below5 |-> [j \in Below5 |->
         LET lane == a[i][j] IN Lane(LAMBDA k : (Bit(lane, k) + Bit(d[j + 1], k)) % 2)]]

Rho(a) ==
  [i \in Below5 |-> [j \in Below5 |->
     LET lane == a[i][j] IN Lane(LAMBDA k : Bit(lane, (k + 64 - RhoMatrix[j + 1][i + 1]) % 64))]]

Pi(a) == [i \in Below5 |-> [j \in Below5 |-> a[j][PiMatrix[j + 1][i + 1]]]]

Chi(a) ==
  [i \in Below5 |-> [j \in Below5 |->
     LET x == a[i][j] y == a[i][(j + 1) % 5] z == a[i][(j + 2) % 5]
     IN  Lane(LAMBDA k : (Bit(x, k) + (1 - Bit(y, k)) * Bit(z, k)) % 2)]]

Iota(a, round) ==
  LET first == a[0][0]
  IN  [a EXCEPT ![0][0] = Lane(LAMBDA k : (Bit(first, k) + Bit(IotaTable[round + 1], k)) % 2)]

\* The low words and the high words of two rows make the lanes, and back.
ExpandKeccak(low, high) ==
  [i \in Below5 |-> [j \in Below5 |-> low[5 * i + j + 1] \o high[5 * i + j + 1]]]

FlattenKeccak(a, idx) ==
  [n \in 1 .. 25 |-> LET lane == a[(n - 1) \div 5][(n - 1) % 5]
                     IN  <<lane[2 * idx + 1], lane[2 * idx + 2]>>]

FlattenThetaB(b) ==
  [n \in 1 .. 25 |-> IF n > 10 THEN Zero
                     ELSE <<b[(n - 1) \div 2][2 * ((n - 1) % 2) + 1],
                            b[(n - 1) \div 2][2 * ((n - 1) % 2) + 2]>>]

ExpandThetaB(bits) == [j \in Below5 |-> bits[2 * j + 1] \o bits[2 * j + 2]]

-----------------------------------------------------------------------------
(* sha2.zir: sums of parts are carried once, by at most 7                  *)

Add2(words) == <<FoldLeft(LAMBDA t, x : t + x[1], 0, words),
                 FoldLeft(LAMBDA t, x : t + x[2], 0, words)>>

CarryExtract(in) ==
  LET carry == (in \div SHORT) % 8 IN [carry |-> carry, out |-> in - carry * SHORT]

CarryAndExpand(in) ==
  LET low == CarryExtract(in[1]) IN <<low.out, CarryExtract(in[2] + low.carry).out>>

\* a, e and w with the newest first.
DoShaStep(in, k, doLoad, win) ==
  LET w == IF doLoad THEN SwapBytes(win)
           ELSE CarryAndExpand(Add2(<<SIG0(in.w[15]), SIG1(in.w[2]), in.w[16], in.w[7]>>))
      stage1 == Add2(<<w, k, in.e[4], CH(in.e[1], in.e[2], in.e[3]), EP1(in.e[1])>>)
      a == CarryAndExpand(Add2(<<stage1, MAJ(in.a[1], in.a[2], in.a[3]), EP0(in.a[1])>>))
      e == CarryAndExpand(Add2(<<stage1, in.a[4]>>))
  IN  [a |-> <<a>> \o Front(in.a), e |-> <<e>> \o Front(in.e), w |-> <<w>> \o Front(in.w),
       out |-> in.out \o <<<<a, e, w>>>>]

\* The window read from one row only.
LoadShaStateOne(back) ==
  LET last(row, from, n) == <<>> \o [i \in 1 .. n |-> row.bits[from + 1 - i]]
  IN  [a |-> last(back[1], 8, 4), e |-> last(back[1], 16, 4),
       w |-> last(back[1], 24, 8) \o last(back[1], 24, 8), out |-> <<>>]

LoadShaState(back) ==
  LET last(row, from, n) == <<>> \o [i \in 1 .. n |-> row.bits[from + 1 - i]]
  IN  [a |-> last(back[1], 8, 4), e |-> last(back[1], 16, 4),
       w |-> last(back[1], 24, 8) \o last(back[2], 24, 8), out |-> <<>>]

\* The words of kflat a round loads: two groups of 8 for each block of 16.
LoadWin(kf, round, block) ==
  [i \in 1 .. 8 |-> LET n == 16 * block + 8 * round + i IN IF n <= 50 THEN kf[n] ELSE Zero]

ShaCycle(back, round, block) ==
  LET win   == LoadWin(back[1].kflat, round, block)
      step(s, i) == Of(LAMBDA in : DoShaStep(in, sha_k[8 * round + i], round < 2, win[i]), s)
  IN  Of(LAMBDA steps : [n \in 1 .. 25 |-> IF n = 25 THEN Zero ELSE steps[((n - 1) % 8) + 1][((n - 1) \div 8) + 1]],
         Fold(step, LoadShaState(back), 8).out)

SFlatToBits(f) ==
  [n \in 1 .. 25 |-> IF n \in 5 .. 8 THEN f[9 - n] ELSE IF n \in 13 .. 16 THEN f[21 - n] ELSE Zero]

\* The state so far plus the last four a and the last four e.
NewFlat(back) ==
  [i \in 1 .. 8 |->
     CarryAndExpand(Add2(<<back[1].sflat[i], back[1].bits[IF i <= 4 THEN 9 - i ELSE 21 - i]>>))]

-----------------------------------------------------------------------------
(* Control (ComputeCurrentStep), given NextPreimage's answer               *)

ComputeCurrentStep(prev, more) ==
  CASE prev.type = 0  -> Control(0, 0, 0, 0)
    [] prev.type = 1  -> Control(9, 0, 0, 0)
    [] prev.type = 2  -> IF prev.sub = 1 THEN Control(4, 0, 0, 0) ELSE Control(2, 1, 0, 0)
    [] prev.type = 3  -> Control(9, 1, 0, 0)
    [] prev.type \in 4 .. 7 -> Control(prev.type + 1, 0, 0, prev.round)
    [] prev.type = 8  -> IF prev.round = 23 THEN Control(3, 0, 0, 0)
                         ELSE Control(4, 0, 0, prev.round + 1)
    [] prev.type = 9  -> IF prev.round = 7 THEN Control(10, prev.sub, prev.block, 0)
                         ELSE Control(9, prev.sub, prev.block, prev.round + 1)
    [] prev.type = 10 -> IF prev.block # 3 THEN Control(9, prev.sub, prev.block + 1, 0)
                         ELSE IF prev.sub = 0 THEN Control(2, 0, 0, 0)
                         ELSE IF more THEN Control(1, 0, 0, 0) ELSE Control(0, 0, 0, 0)
    [] prev.type = 11 -> Control(1, 0, 0, 0)

NoBits == [n \in 1 .. 25 |-> Zero]
NoKflat == [n \in 1 .. 50 |-> Zero]

\* curState of a row of the given control; preimage is GetPreimage's answer.
Top(c, back, preimage) ==
  LET s(n)     == back[n].bits
      same(b)  == [bits |-> b, kflat |-> back[1].kflat, sflat |-> back[1].sflat]
      mixed(a, b) == Pi(Rho(ThetaP2(a, ExpandThetaB(b))))
  IN  CASE c.type = 0  -> [bits |-> NoBits, kflat |-> NoKflat, sflat |-> back[1].sflat]
        [] c.type = 1  -> [bits |-> SFlatToBits(back[1].sflat), kflat |-> preimage,
                           sflat |-> back[1].sflat]
        [] c.type = 2  -> same([n \in 1 .. 25 |-> back[1].kflat[2 * n - 1 + c.sub]])
        [] c.type = 3  -> [bits |-> SFlatToBits(back[1].sflat),
                           kflat |-> [n \in 1 .. 50 |-> s(2 - ((n - 1) % 2))[(n + 1) \div 2]],
                           sflat |-> back[1].sflat]
        [] c.type = 4  -> same(FlattenThetaB(ThetaP1(ExpandKeccak(s(2), s(1)))))
        [] c.type = 5  -> same(FlattenKeccak(mixed(ExpandKeccak(s(3), s(2)), s(1)), 0))
        [] c.type = 6  -> same(FlattenKeccak(mixed(ExpandKeccak(s(4), s(3)), s(2)), 1))
        [] c.type = 7  -> same(FlattenKeccak(Iota(Chi(ExpandKeccak(s(2), s(1))), c.round), 0))
        [] c.type = 8  -> same(FlattenKeccak(Iota(Chi(ExpandKeccak(s(3), s(2))), c.round), 1))
        [] c.type = 9  -> same(ShaCycle(back, c.round, c.block))
        [] c.type = 10 -> LET flat == NewFlat(back)
                          IN  [bits |-> SFlatToBits(flat), kflat |-> back[1].kflat, sflat |-> flat]
        [] c.type = 11 -> [bits |-> NoBits, kflat |-> NoKflat, sflat |-> sha_init]

-----------------------------------------------------------------------------
(* The preflight                                                           *)

CONSTANTS
  Inputs,     \* the lists of Keccak states, each 25 lanes
  Spare       \* how many Shutdown rows a trace may have

VARIABLES
  inputs, cycles,    \* the arguments of preflightSegment
  at, input, block, round,   \* the place in the program and its loop counters
  kstate, data,      \* the state and the 64 words hashed
  currentSha, infos, \* the running hash and what compute_sha_infos returned
  kflatOffset, sflatOffset,  \* what the offsets point to
  curPreimage,
  back               \* the last four rows, newest first

vars == <<inputs, cycles, at, input, block, round, kstate, data, currentSha, infos,
          kflatOffset, sflatOffset, curPreimage, back>>

ROUNDS == 24
BLOCKS == 4
ROWS_PER_INPUT == 1 + 9 * BLOCKS + 2 + 5 * ROUNDS + 1 + 9 * BLOCKS

keccak_iota == <<
  <<1, 0, 0, 0>>, <<32898, 0, 0, 0>>, <<32906, 0, 0, 32768>>, <<32768, 32768, 0, 32768>>,
  <<32907, 0, 0, 0>>, <<1, 32768, 0, 0>>, <<32897, 32768, 0, 32768>>, <<32777, 0, 0, 32768>>,
  <<138, 0, 0, 0>>, <<136, 0, 0, 0>>, <<32777, 32768, 0, 0>>, <<10, 32768, 0, 0>>,
  <<32907, 32768, 0, 0>>, <<139, 0, 0, 32768>>, <<32905, 0, 0, 32768>>, <<32771, 0, 0, 32768>>,
  <<32770, 0, 0, 32768>>, <<128, 0, 0, 32768>>, <<32778, 0, 0, 0>>, <<10, 32768, 0, 32768>>,
  <<32897, 32768, 0, 32768>>, <<32896, 0, 0, 32768>>, <<1, 32768, 0, 0>>, <<32776, 32768, 0, 32768>>>>

keccak_rho == <<1, 3, 6, 10, 15, 21, 28, 36, 45, 55, 2, 14,
                27, 41, 56, 8, 25, 43, 62, 18, 39, 61, 20, 44>>

keccak_pi == <<10, 7, 11, 17, 18, 3, 5, 16, 8, 21, 24, 4,
               15, 23, 19, 13, 12, 2, 20, 14, 22, 9, 6, 1>>

ROTL64(x, y) == Lane(LAMBDA k : Bit(x, (k + 64 - y) % 64))

theta_p1(s) ==
  <<>> \o [n \in 1 .. 5 |-> Lane(LAMBDA k :
     (Bit(s[n], k) + Bit(s[n + 5], k) + Bit(s[n + 10], k) + Bit(s[n + 15], k) + Bit(s[n + 20], k)) % 2)]

\* Theta's second half; then every lane but the first moves along keccak_pi.
theta_p2_rho_pi(s, bc) ==
  LET t == <<>> \o [n \in 1 .. 5 |->
             LET turned == ROTL64(bc[(n % 5) + 1], 1)
             IN  Lane(LAMBDA k : (Bit(bc[((n + 3) % 5) + 1], k) + Bit(turned, k)) % 2)]
      mixed == <<>> \o [n \in 1 .. 25 |->
             Lane(LAMBDA k : (Bit(s[n], k) + Bit(t[((n - 1) % 5) + 1], k)) % 2)]
      from(i) == IF i = 1 THEN 1 ELSE keccak_pi[i - 1]
  IN  <<>> \o [n \in 1 .. 25 |->
        IF n = 1 THEN mixed[1]
        ELSE LET i == CHOOSE i \in 1 .. 24 : keccak_pi[i] = n - 1
             IN  ROTL64(mixed[from(i) + 1], keccak_rho[i])]

chi_iota(s, r) ==
  LET t(n, d) == s[5 * ((n - 1) \div 5) + ((n - 1 + d) % 5) + 1]
      iota(n, k) == IF n = 1 THEN Bit(keccak_iota[r + 1], k) ELSE 0
  IN  <<>> \o [n \in 1 .. 25 |-> Lane(LAMBDA k :
        Xor3(Bit(s[n], k), (1 - Bit(t(n, 1), k)) * Bit(t(n, 2), k), iota(n, k)))]

-----------------------------------------------------------------------------
(* What the rows point to                                                  *)

writeKeccak(s, high) ==
  [n \in 1 .. 25 |-> IF high THEN <<s[n][3], s[n][4]>> ELSE <<s[n][1], s[n][2]>>]

writeTheta(theta) ==
  [n \in 1 .. 25 |-> IF n > 10 THEN Zero
                     ELSE LET lane == theta[(n + 1) \div 2]
                          IN  IF n % 2 = 1 THEN <<lane[1], lane[2]>> ELSE <<lane[3], lane[4]>>]

\* The 50 words of a state; data is padded to 64.
writeKFlat(s) ==
  <<>> \o [n \in 1 .. 50 |-> LET lane == s[(n + 1) \div 2]
                             IN  IF n % 2 = 1 THEN <<lane[1], lane[2]>> ELSE <<lane[3], lane[4]>>]

Padded(words) == words \o [i \in 1 .. 64 - 50 |-> Zero]

writeShaInfo(info) == info.a \o info.e \o info.w \o <<Zero>>

sha_info(state) ==
  LET zeros(n) == [i \in 1 .. n |-> Zero]
  IN  [a |-> zeros(4) \o <<state[4], state[3], state[2], state[1]>>,
       e |-> zeros(4) \o <<state[8], state[7], state[6], state[5]>>, w |-> zeros(8)]

\* What the rounds of a block leave behind, and the state that Final makes of it
Rounds(state, chunk, Final(_)) ==
  LET group(w, ss, i) == [a |-> [n \in 1 .. 8 |-> ss[8 * i + n + 1][1]],
                          e |-> [n \in 1 .. 8 |-> ss[8 * i + n + 1][5]],
                          w |-> [n \in 1 .. 8 |-> w[8 * i + n]]]
      laid(w, ss, sum) == [infos |-> [i \in 1 .. 8 |-> group(w, ss, i - 1)] \o <<sha_info(sum)>>, state |-> sum]
  IN  Of(LAMBDA w : Of(LAMBDA ss : laid(w, ss, Final(ss)), States(state, w)),
         Schedule([i \in 1 .. 16 |-> SwapBytes(chunk[i])]))

\* The state before the block left out of the sum.
compute_sha_infosPlain(state, chunk) ==
  Rounds(state, chunk, LAMBDA ss : Last(ss))

\* Nine infos: after each eighth round of a
\* block, and the sum.
compute_sha_infos(state, chunk) ==
  Rounds(state, chunk, LAMBDA ss : AddStates(state, Last(ss)))

-----------------------------------------------------------------------------
(* preflightSegment                                                        *)

Row(control, bits, kflat, sflat) ==
  [control |-> control, bits |-> bits, kflat |-> kflat, sflat |-> sflat,
   preimage |-> curPreimage]

addCycle(control, bits, kflat, sflat) ==
  /\ back' = SubSeq(<<Row(control, bits, kflat, sflat)>> \o back, 1,
                    IF Len(back) < 4 THEN Len(back) + 1 ELSE 4)
  /\ cycles' = cycles - 1

\* cycles counts down: what is left of the trace.
Init ==
  /\ inputs \in Inputs
  /\ \E n \in Spare : cycles = 1 + ROWS_PER_INPUT * Len(inputs) + n
  /\ at = "init" /\ input = 1 /\ block = 0 /\ round = 0
  /\ kstate = <<>> /\ data = <<>> /\ currentSha = sha_init /\ infos = <<>>
  /\ kflatOffset = NoKflat /\ sflatOffset = sha_init
  /\ curPreimage = 0
  /\ back = <<>>

InitCycle ==
  /\ at = "init"
  /\ addCycle(Control(11, 0, 0, 0), NoBits, NoKflat, sflatOffset)
  /\ at' = "read"
  /\ UNCHANGED <<inputs, input, block, round, kstate, data, currentSha, infos,
                 kflatOffset, sflatOffset, curPreimage>>

ReadCycle ==
  /\ at = "read" /\ input <= Len(inputs)
  /\ kstate' = inputs[input]
  /\ kflatOffset' = writeKFlat(kstate')
  /\ data' = Padded(kflatOffset')
  /\ addCycle(Control(1, 0, 0, 0), writeShaInfo(sha_info(currentSha)), kflatOffset', sflatOffset)
  /\ curPreimage' = curPreimage + 1
  /\ at' = "sha in" /\ block' = 0 /\ round' = 0
  /\ UNCHANGED <<inputs, input, currentSha, infos, sflatOffset>>

Sub == IF at = "sha in" THEN 0 ELSE 1

\* One of the eight rows of a block; the first computes them all.
ShaRow ==
  /\ at \in {"sha in", "sha out"} /\ round < 8
  /\ LET done == compute_sha_infos(currentSha, SubSeq(data, 16 * block + 1, 16 * block + 16))
     IN  IF round = 0 THEN infos' = done.infos /\ currentSha' = done.state
         ELSE UNCHANGED <<infos, currentSha>>
  /\ addCycle(Control(9, Sub, block, round), writeShaInfo(infos'[round + 1]),
              kflatOffset, sflatOffset)
  /\ round' = round + 1
  /\ UNCHANGED <<inputs, at, input, block, kstate, data, kflatOffset, sflatOffset, curPreimage>>

ShaNextBlock ==
  /\ at \in {"sha in", "sha out"} /\ round = 8
  /\ sflatOffset' = currentSha
  /\ addCycle(Control(10, Sub, block, 0), writeShaInfo(infos[9]), kflatOffset, sflatOffset')
  /\ round' = 0
  /\ IF block + 1 < BLOCKS
     THEN block' = block + 1 /\ UNCHANGED <<at, input>>
     ELSE /\ block' = 0
          /\ IF at = "sha in" THEN at' = "expand" /\ UNCHANGED input
             ELSE at' = "read" /\ input' = input + 1
  /\ UNCHANGED <<inputs, kstate, data, currentSha, infos, kflatOffset, curPreimage>>

Expand ==
  /\ at \in {"expand", "expand high"}
  /\ LET high == at = "expand high"
     IN  /\ addCycle(Control(2, IF high THEN 1 ELSE 0, 0, 0), writeKeccak(kstate, high),
                     kflatOffset, sflatOffset)
         /\ at' = IF high THEN "theta" ELSE "expand high"
  /\ UNCHANGED <<inputs, input, block, round, kstate, data, currentSha, infos,
                 kflatOffset, sflatOffset, curPreimage>>

\* Keccak0
Theta ==
  /\ at = "theta"
  /\ LET theta == theta_p1(kstate)
     IN  /\ addCycle(Control(4, 0, 0, round), writeTheta(theta), kflatOffset, sflatOffset)
         /\ kstate' = theta_p2_rho_pi(kstate, theta)
  /\ at' = "pi"
  /\ UNCHANGED <<inputs, input, block, round, data, currentSha, infos,
                 kflatOffset, sflatOffset, curPreimage>>

\* Keccak1 and Keccak2, and then chi and iota.
PiRows ==
  /\ at \in {"pi", "pi high"}
  /\ LET high == at = "pi high"
     IN  /\ addCycle(Control(IF high THEN 6 ELSE 5, 0, 0, round), writeKeccak(kstate, high),
                     kflatOffset, sflatOffset)
         /\ kstate' = IF high THEN chi_iota(kstate, round) ELSE kstate
         /\ at' = IF high THEN "chi" ELSE "pi high"
  /\ UNCHANGED <<inputs, input, block, round, data, currentSha, infos,
                 kflatOffset, sflatOffset, curPreimage>>

\* Keccak3 and Keccak4
ChiRows ==
  /\ at \in {"chi", "chi high"}
  /\ LET high == at = "chi high"
         last == high /\ round + 1 = ROUNDS
     IN  /\ addCycle(Control(IF high THEN 8 ELSE 7, 0, 0, round), writeKeccak(kstate, high),
                     kflatOffset, sflatOffset)
         /\ at' = IF last THEN "write" ELSE IF high THEN "theta" ELSE "chi high"
         /\ round' = IF last THEN 0 ELSE IF high THEN round + 1 ELSE round
  /\ UNCHANGED <<inputs, input, block, kstate, data, currentSha, infos,
                 kflatOffset, sflatOffset, curPreimage>>

WriteCycle ==
  /\ at = "write"
  /\ kflatOffset' = writeKFlat(kstate)
  /\ data' = Padded(kflatOffset')
  /\ addCycle(Control(3, 0, 0, 0), writeShaInfo(sha_info(currentSha)), kflatOffset', sflatOffset)
  /\ at' = "sha out" /\ block' = 0
  /\ UNCHANGED <<inputs, input, round, kstate, currentSha, infos, sflatOffset, curPreimage>>

ShutdownCycle ==
  /\ at = "read" /\ input > Len(inputs) /\ cycles > 0
  /\ addCycle(Control(0, 0, 0, 0), NoBits, NoKflat, sflatOffset)
  /\ UNCHANGED <<inputs, at, input, block, round, kstate, data, currentSha, infos,
                 kflatOffset, sflatOffset, curPreimage>>

Next ==
  InitCycle \/ ReadCycle \/ ShaRow \/ ShaNextBlock \/ Expand \/ Theta \/ PiRows \/ ChiRows
    \/ WriteCycle \/ ShutdownCycle

Spec == Init /\ [][Next]_vars

-----------------------------------------------------------------------------
(* Properties                                                              *)

\* StepHandler, for the row at curPreimage p.
GetPreimage(p) == IF p < Len(inputs) THEN writeKFlat(inputs[p + 1]) ELSE NoKflat
NextPreimage(p) == p # Len(inputs)

Same(f, g) == DOMAIN f = DOMAIN g /\ \A n \in DOMAIN f : f[n] = g[n]

\* Every row the preflight lays out is the one the circuit computes from the
\* rows before it: its control state, and the words it reads one to four rows
\* back (top.zir ComputeCurrentStep and curState; preflight.cpp:238-335).
RowsFollowCircuit ==
  [][back' # <<>> =>
     LET row == back'[1]
         c   == IF back = <<>> THEN Control(11, 0, 0, 0)
                ELSE ComputeCurrentStep(back[1].control, NextPreimage(row.preimage))
     IN  /\ row.control = c
         /\ \E cir \in {Top(c, back, GetPreimage(row.preimage))} :
              Same(row.bits, cir.bits) /\ Same(row.kflat, cir.kflat) /\ Same(row.sflat, cir.sflat)]_vars

\* main.cpp's DoTransaction: hash the state, permute it, hash it again.
keccakf(s) == LongFold(LAMBDA x, r : chi_iota(theta_p2_rho_pi(x, theta_p1(x)), r - 1), s, ROUNDS)

ShaSingleKeccak(digest, s) ==
  LET toHash == <<>> \o [i \in 1 .. 64 |-> IF i <= 50 THEN SwapBytes(writeKFlat(s)[i]) ELSE Zero]
  IN  LongFold(LAMBDA d, i : Compress(d, SubSeq(toHash, 16 * i - 15, 16 * i)), digest, BLOCKS)

DoTransaction(digest, s) == ShaSingleKeccak(ShaSingleKeccak(digest, s), keccakf(s))

\* A trace with a Shutdown row ends with one, so that the first row may follow
\* the last, and what it leaves in finalDigest is the hash of every state and its
\* permutation in order (top.zir:325 and :471; cpp/main.cpp:85-90 and :140).
DigestIsChain ==
  back # <<>> /\ back[1].control.type = 0 /\ cycles = 0 =>
    back[1].sflat = LongFold(LAMBDA d, i : DoTransaction(d, inputs[i]), sha_init, Len(inputs))
=============================================================================
