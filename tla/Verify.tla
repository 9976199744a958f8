------------------------------- MODULE Verify -------------------------------
(***************************************************************************)
(* The verifier of circuit/verify/verify.cpp reading a seal, message by    *)
(* message, with the challenges drawn in between.  The prover answers each *)
(* challenge, honestly or with one thing wrong.                            *)
(***************************************************************************)
EXTENDS Seal

CONSTANTS
  POOL,               \* values drawn from one state of the generator, 16
  MixChallenges,      \* values the mixes may be
  ZChallenges,        \* points Z may be
  QueryChallenges     \* positions the queries may be at

ASSUME VerifyAssumption ==
  /\ POOL \in Nat \ {0}
  /\ MixChallenges \subseteq Field
  /\ \A z \in ZChallenges : Raise(z, domain) # 1
  /\ QueryChallenges \subseteq 0 .. domain - 1

VARIABLES
  prover,     \* what the prover does: "honest", or the message that is wrong
  phase,      \* the next message
  seen,       \* what was read and drawn so far, by name
  cells,      \* Poseidon2Rng: what its state was mixed from
  pool_used,  \* Poseidon2Rng: values taken from this state
  ok,         \* no check has failed
  names,      \* the names of the messages read before the queries
  draws,      \* the challenges: the state they come from, what had been read
  queries     \* queries done

vars == <<prover, phase, seen, cells, pool_used, ok, names, draws, queries>>

Provers == {"honest", "po2", "out", "trace", "taps", "check", "fold", "coeffs", "row", "group"}

-----------------------------------------------------------------------------
(* Poseidon2Rng, the state as the sequence of what went into it.           *)

Mixed(s) == Append(s, "mix")

\* commit: mix(digest) adds a digest and mixes, and mixes first when values were
\* drawn.
Commit(digests) ==
  LET start == IF pool_used # 0 THEN Mixed(cells) ELSE cells
  IN  /\ cells' = start \o [i \in 1 .. 2 * Len(digests) |->
                             IF i % 2 = 1 THEN digests[(i + 1) \div 2] ELSE "mix"]
      /\ pool_used' = 0

\* generateFp: the state the n-th value from here is of, mixed once for every
\* POOL values drawn, and the value's place in it.
GenerateFp(n) ==
  LET at == pool_used + n - 1
  IN  <<cells \o [i \in 1 .. at \div POOL |-> "mix"], at % POOL>>

\* A challenge made of n values: rngBaseVal 1, rngExtVal 4, rngBits 4
Draw(n) ==
  /\ cells' = GenerateFp(n)[1]
  /\ pool_used' = GenerateFp(n)[2] + 1
  /\ draws' = Append(draws, [ids |-> [i \in 1 .. n |-> GenerateFp(i)], read |-> names])

-----------------------------------------------------------------------------
(* The prover.                                                             *)

Fib == Fold(LAMBDA s, i : Append(s, s[i + 1] + s[i]), <<1, 1>>, size - 2)
Values == [reg \in RegSet |->
  [i \in 0 .. size - 1 |->
     CASE reg = <<0, 0>> -> 1
       [] reg = <<1, 0>> -> IF i < 2 THEN 1 ELSE 0
       [] reg = <<1, 1>> -> IF i >= 2 THEN 1 ELSE 0
       [] reg = <<1, 2>> -> IF i = size - 1 THEN 1 ELSE 0
       [] OTHER -> (Fib[i + 1] + (IF prover = "trace" /\ i = 5 THEN 1 ELSE 0)) % P]]
Honest == [reg \in RegSet |-> Column(Values[reg])]
Out == (Fib[size] + (IF prover = "out" THEN 1 ELSE 0)) % P

\* What is committed to: rows, one value of each column
Committed(rows) ==
  Of(LAMBDA tree : [rows |-> rows, tree |-> tree, merkle |-> Verifier(tree, Cardinality(DOMAIN rows))],
     Tree(rows))
CommitColumns(cols) ==
  LET rows(ext) == Vector([i \in 0 .. domain - 1 |-> Vector([o \in DOMAIN cols |-> ext[o][i]])])
  IN  Of(Committed, Of(rows, Vector([o \in DOMAIN cols |-> Extend(cols[o])])))
CommitGroup(group) ==
  CommitColumns([o \in {reg[2] : reg \in {r \in RegSet : r[1] = group}} |-> seen.cols[<<group, o>>]])

\* A row and its path; the one next to it from a prover whose rows are wrong
OpenedAt(c, idx, wrong) ==
  LET n == Cardinality(DOMAIN c.rows)
      i == IF wrong THEN (idx + 1) % n ELSE idx
  IN  [row |-> c.rows[i], path |-> Path(c.tree, n, i)]

-----------------------------------------------------------------------------
(* verify(), up to friVerify.                                              *)

Init ==
  /\ prover \in Provers
  /\ phase = "statement"
  /\ seen = [cols |-> Honest]
  /\ cells = <<>> /\ pool_used = 0
  /\ ok = TRUE
  /\ names = {} /\ draws = <<>>
  /\ queries = 0

Read(read, msgs, commit, next) ==
  /\ ok
  /\ seen' = read @@ seen
  /\ names' = names \cup msgs
  /\ Commit(commit)
  /\ phase' = next
  /\ UNCHANGED <<prover, draws, queries>>

\* The versions and the statement are committed to, and the statement's po2 is
\* the one this verifier is for
ReadStatement ==
  /\ phase = "statement"
  /\ LET po2 == IF prover = "po2" THEN PO2 + 1 ELSE PO2
     IN  /\ Read([out |-> Out], {"statement"}, <<"proof system", "circuit", "statement">>, "code, data")
         /\ ok' = (po2 = PO2)

ReadCodeData ==
  /\ phase = "code, data"
  /\ Read([code |-> CommitGroup(1), data |-> CommitGroup(2)],
          {"code", "data"}, <<"code", "data">>, "accum mix")
  /\ UNCHANGED ok

Drawing(now, next, n) ==
  /\ ok /\ phase = now
  /\ Draw(n)
  /\ phase' = next
  /\ UNCHANGED <<prover, ok, names, queries>>

\* mix_size() of fib.cpp is 1, and its accum column does not use it
DrawAccumMix == Drawing("accum mix", "accum", 1) /\ UNCHANGED seen

ReadAccum ==
  /\ phase = "accum"
  /\ Read([accum |-> CommitGroup(0)], {"accum"}, <<"accum">>, "poly mix")
  /\ UNCHANGED ok

DrawPolyMix == \E c \in MixChallenges :
  Drawing("poly mix", "check", 4) /\ seen' = [polyMix |-> c] @@ seen

ReadCheck ==
  /\ phase = "check"
  /\ LET read(cols) == [checkCols |-> cols, check |-> CommitColumns(cols)]
     IN  Read(Of(read, CheckColumns(seen.cols, seen.out, seen.polyMix)), {"check"}, <<"check">>, "Z")
  /\ UNCHANGED ok

DrawZ == \E c \in ZChallenges : Drawing("Z", "taps", 4) /\ seen' = [Z |-> c] @@ seen

\* The coefficients a prover gives for the taps
CoeffU ==
  LET of(reg) == TapCoeffs(reg, seen.cols[<<reg.group, reg.offset>>], seen.Z)
      z4 == Raise(seen.Z, 4)
      taps == FoldLeft(LAMBDA u, reg : u \o [i \in 1 .. Len(reg.backs) |-> of(reg)[i - 1]], <<>>, Regs)
      checks == [j \in 1 .. CHECK_SIZE |-> poly_eval(seen.checkCols[j - 1], z4)]
  IN  LET u == taps \o checks IN Vector([i \in 0 .. Len(u) - 1 |-> u[i + 1]])

\* evalU: the taps' values, by the polynomial the coefficients are of
EvalU(coeffU) ==
  LET coeffs(reg) == [i \in 0 .. Len(reg.backs) - 1 |-> coeffU[reg.tapPos + i]]
      evals(reg) == [i \in 1 .. Len(reg.backs) |->
                       poly_eval(coeffs(reg), (Raise(RouRev(PO2), reg.backs[i]) * seen.Z) % P)]
  IN  <<>> \o FoldLeft(LAMBDA u, reg : u \o evals(reg), <<>>, Regs)

\* The check polynomial at Z
remap == <<0, 2, 1, 3>>
CheckAt(coeffU) ==
  LET sum == Sum(LAMBDA i : coeffU[TapCount + remap[i + 1]] * Raise(seen.Z, i), 4) % P
  IN  (sum * (Raise((3 * seen.Z) % P, size) - 1)) % P

\* A prover wrong in the check columns is so in a way the equation does not see
ReadTaps ==
  /\ phase = "taps"
  /\ LET said(u) == CASE prover = "taps"  -> [u EXCEPT ![4] = (@ + 1) % P]
                        [] prover = "check" -> [u EXCEPT ![TapCount] = (@ + 1) % P,
                                                         ![TapCount + 2] = (@ - Inv(seen.Z)) % P]
                        [] OTHER -> u
         equal(u) == CheckAt(u) = compute_poly(Vector(EvalU(u)), seen.out, seen.polyMix)
     IN  /\ Read([coeffU |-> Of(said, CoeffU)], {"taps"}, <<"taps">>, "mix")
         /\ ok' = equal(seen'.coeffU)

-----------------------------------------------------------------------------
(* The polynomial given to FRI.                                            *)

\* comboU[c][i]: the claimed coefficients of the registers read at combination c,
\* a power of mix for each register; the check columns' are last
MixPower(i) == Raise(seen.mix, i)
ComboRegs(c) == {k \in 1 .. Len(Regs) : Regs[k].combo = c}
ComboU == Vector([c \in 1 .. Len(Combos) |-> Vector(
  [i \in 0 .. Len(Combos[c]) - 1 |->
     MapThenSumSet(LAMBDA k : MixPower(k - 1) * seen.coeffU[Regs[k].tapPos + i], ComboRegs(c)) % P])])
CheckU == Sum(LAMBDA j : MixPower(Len(Regs) + j) * seen.coeffU[TapCount + j], CHECK_SIZE) % P

\* inner: the value at position idx of what FRI is given, from the rows there
\*   rows = [accum, code, data, check]
Group(k, rows) == (CASE Regs[k].group = 0 -> rows.accum [] Regs[k].group = 1 -> rows.code
                     [] OTHER -> rows.data)[Regs[k].offset]
Deep(comboU, checkU, rows, idx) ==
  LET tot(c) == MapThenSumSet(LAMBDA k : MixPower(k - 1) * Group(k, rows), ComboRegs(c))
      divisor(c, x) == FoldLeft(LAMBDA d, back : (d * (x - TapPoint(seen.Z, back))) % P, 1, Combos[c])
      term(c, x) == ((tot(c) - poly_eval(comboU[c], x)) % P) * Inv(divisor(c, x))
      checkTot == Sum(LAMBDA j : MixPower(Len(Regs) + j) * rows.check[j], CHECK_SIZE)
      at(x) == MapThenSumSet(LAMBDA c : term(c, x), 1 .. Len(Combos))
                 + ((checkTot - checkU) % P) * Inv((x - Raise(seen.Z, 4)) % P)
  IN  Of(at, dynamic_pow(RouFwd(Log2Ceil(domain)), idx, domain)) % P

DrawMix == \E c \in MixChallenges :
  /\ Drawing("mix", "fri", 4)
  /\ seen' = [mix |-> c, rounds |-> <<>>] @@ seen

Columns == {"accum", "code", "data", "check"}
RowsAt(idx) == [c \in Columns |-> seen[c].rows[idx]]

\* friVerify, the rounds' commitments.  The prover's polynomial is the one of the
\* values it has, cut to the degree it has to be of.
FriPoly ==
  IF seen.rounds = <<>>
    THEN LET values(u) == [i \in 0 .. domain - 1 |-> Deep(u[1], u[2], RowsAt(i), i)]
             cut(c) == [k \in 0 .. size - 1 |-> c[k]]
         IN  Vector(Of(cut, Coefficients(Of(values, <<ComboU, CheckU>>))))
    ELSE LET last == seen.rounds[Len(seen.rounds)] IN FoldPoly(last.poly, last.mix)

ReadFriRound ==
  /\ phase = "fri" /\ Len(seen.rounds) < Rounds(size)
  /\ LET r == Len(seen.rounds) + 1
         at == RoundDomain(size, r)
         said(poly) == IF prover = "fold" /\ r = 2 THEN [poly EXCEPT ![0] = (@ + 1) % P] ELSE poly
         round(poly) == [domain |-> at, poly |-> poly] @@ Of(Committed, Vector(RoundRows(poly, at)))
     IN  Read([rounds |-> Append(seen.rounds, Of(round, Of(said, FriPoly)))],
              {"fri" \o ToString(r)}, <<"fri" \o ToString(r)>>, "fri mix")
  /\ UNCHANGED ok

DrawFriMix == \E c \in MixChallenges :
  /\ Drawing("fri mix", "fri", 4)
  /\ seen' = [seen EXCEPT !.rounds[Len(seen.rounds)] = [mix |-> c] @@ @]

ReadFinalCoeffsUncommitted ==
  /\ phase = "fri" /\ Len(seen.rounds) = Rounds(size)
  /\ LET said(poly) == IF prover = "coeffs" THEN [poly EXCEPT ![0] = (@ + 1) % P] ELSE poly
     IN  Read([final |-> Of(said, FriPoly), comboU |-> ComboU, checkU |-> CheckU],
              {"final"}, <<>>, "queries")
  /\ UNCHANGED ok

ReadFinalCoeffs ==
  /\ phase = "fri" /\ Len(seen.rounds) = Rounds(size)
  /\ LET said(poly) == IF prover = "coeffs" THEN [poly EXCEPT ![0] = (@ + 1) % P] ELSE poly
     IN  Read([final |-> Of(said, FriPoly), comboU |-> ComboU, checkU |-> CheckU],
              {"final"}, <<"final">>, "queries")
  /\ UNCHANGED ok

-----------------------------------------------------------------------------
(* The queries.                                                            *)

QueryOk(pos) ==
  LET opened == [c \in Columns |-> OpenedAt(seen[c], pos, prover = "row" /\ c = "data")]
      goal == Deep(seen.comboU, seen.checkU, [c \in Columns |-> opened[c].row], pos)
      Openings(r, group) == OpenedAt(seen.rounds[r], group, prover = "group" /\ r = 2)
  IN  /\ \A c \in Columns : Opens(seen[c].merkle, pos, opened[c].row, opened[c].path)
      /\ FriQuery(size, seen.rounds, seen.final, Openings, pos, goal)

Query == \E pos \in QueryChallenges :
  /\ ok /\ phase = "queries" /\ queries < QUERIES
  /\ Draw(4)
  /\ ok' = QueryOk(pos)
  /\ queries' = queries + 1
  /\ UNCHANGED <<prover, phase, seen, names>>

\* verifyRecursion: the circuit's code is one of those allowed, at the index and
\* with the proof the prover gives
Allowed == <<"code 0", "code 1", Root(seen.code.merkle), "code 3">>
CodeAllowed == \E index \in 0 .. 7 :
  /\ ok /\ phase = "queries" /\ queries = QUERIES
  /\ LET pairs == [k \in 0 .. 1 |-> fold(Allowed[2 * k + 1], Allowed[2 * k + 2])]
         root == fold(pairs[0], pairs[1])
         slot == index % 4
         sibling == IF slot % 2 = 0 THEN slot + 2 ELSE slot
         proof == <<Allowed[sibling], pairs[1 - (slot \div 2)]>>
     IN  /\ ok' = GroupMember(Root(seen.code.merkle), index, proof, root)
         /\ seen' = [index |-> index] @@ seen
  /\ phase' = "done"
  /\ UNCHANGED <<prover, cells, pool_used, names, draws, queries>>

Next ==
  \/ ReadStatement
  \/ ReadCodeData
  \/ DrawAccumMix
  \/ ReadAccum
  \/ DrawPolyMix
  \/ ReadCheck
  \/ DrawZ
  \/ ReadTaps
  \/ DrawMix
  \/ ReadFriRound
  \/ DrawFriMix
  \/ ReadFinalCoeffs
  \/ Query
  \/ CodeAllowed

Spec == Init /\ [][Next]_vars

-----------------------------------------------------------------------------
(* Properties.                                                             *)

\* A seal made as the verifier expects is accepted, at every position a query
\* may be at: the values the taps' coefficients stand for, the order of the
\* check columns, the layout of the rows FRI folds and the roots of unity on
\* both sides fit together (verify.cpp, fri.cpp, merkle.cpp).
Complete ==
  prover = "honest" =>
    /\ ok \/ phase = "done"
    /\ phase = "queries" /\ queries = 0 => \A pos \in 0 .. domain - 1 : QueryOk(pos)
    /\ phase = "done" => (ok <=> seen.index = 2)

\* A seal with one thing wrong is refused: before the queries where an equation
\* is about it, otherwise at some position a query may be at.
Sound ==
  /\ phase \in {"queries", "done"} /\ ok => prover \notin {"po2", "out", "trace", "taps"}
  /\ phase = "queries" /\ queries = 0 /\ prover # "honest" /\ ok =>
       \E pos \in 0 .. domain - 1 : ~QueryOk(pos)

\* Every challenge is drawn from a state that everything read before went into,
\* and no two values are the same of the same state (Poseidon2Rng, and the order
\* of the commits in verify.cpp and fri.cpp).
ChallengesBind ==
  \A d \in DOMAIN draws : \A i \in DOMAIN draws[d].ids :
    /\ draws[d].read \subseteq ToSet(draws[d].ids[i][1])
    /\ \A e \in DOMAIN draws : \A j \in DOMAIN draws[e].ids :
         draws[d].ids[i] = draws[e].ids[j] => d = e /\ i = j

=============================================================================
