------------------------------ MODULE BigInt2 -------------------------------
(***************************************************************************)
(* The BigInt2 accelerator: the compiler that splits a big-integer program *)
(* into one that computes its hints and a straight-line check of its       *)
(* equations (bigint/bigint2c.cpp), the rows of the v1 circuit that run    *)
(* the check over the guest's memory (rv32im/v1/edsl/bigint2.cpp), and the *)
(* witness they ask for (rv32im/v1/test/runner.cpp).                       *)
(*                                                                         *)
(* Memory is addressed by arena (a register) and offset in chunks of       *)
(* PER_POLY bytes.  Polynomials in the circuit's challenge are what they   *)
(* are the value of.                                                       *)
(***************************************************************************)
EXTENDS Curve

kArenaConst == 28
kArenaTmp   == 2
\* The k-th chunk of n, from 0
ChunkOf(n, k) ==
  LET above[i \in 0 .. PER_POLY * (k + 1)] == IF i = 0 THEN n ELSE above[i - 1] \div BASE
  IN  Tuple(LAMBDA i : above[PER_POLY * k + i - 1] % BASE, PER_POLY)

-----------------------------------------------------------------------------
(* polySplit: from the last op to the first, what each is needed for, and  *)
(* where it is kept.                                                       *)

NoAtom == [arena |-> 0, offset |-> 0, size |-> 0, doWrite |-> FALSE]
Atom(arena, offset, size, doWrite) == [arena |-> arena, offset |-> offset, size |-> size, doWrite |-> doWrite]
Hints == {"rem", "quot", "nondet_inv"}
Sums  == {"add", "sub", "mul"}

Apply(s, a, eq, nondet) == [s EXCEPT !.eq = IF eq THEN @ \cup {a} ELSE @, !.nondet = IF nondet THEN @ \cup {a} ELSE @]

SplitOp(s, i, op, types) ==
  LET size   == NormalWitnessSize(types[i])
      needed == i \in s.eq \cup s.nondet
      both(t, eq, nondet) == Apply(Apply(t, op.a, eq, nondet), op.b, eq, nondet)
      tmp    == [s EXCEPT !.atom[i] = Atom(kArenaTmp, s.offsetTmp, size, TRUE), !.offsetTmp = @ + size]
  IN  CASE op.code = "eqz"   -> Apply(s, op.a, TRUE, FALSE)
        [] op.code = "store" -> [Apply(s, op.a, FALSE, TRUE) EXCEPT
                                   !.atom[op.a] = Atom(op.at[1], op.at[2], NormalWitnessSize(types[op.a]), TRUE),
                                   !.ok = @ /\ types[op.a].maxPos < BASE /\ types[op.a].maxNeg = 0]
        [] op.code \in Hints ->
             IF needed THEN both(Apply(IF i \in s.eq /\ s.atom[i].arena = 0 THEN tmp ELSE s, i, FALSE, TRUE), FALSE, TRUE)
             ELSE s
        [] op.code \in Sums  -> both(s, i \in s.eq, i \in s.nondet)
        [] op.code = "const" -> [s EXCEPT !.atom[i] = Atom(kArenaConst, Len(s.constData), size, FALSE),
                                          !.constData = @ \o [k \in 1 .. size |-> ChunkOf(op.value, k - 1)]]
        [] op.code = "load"  -> [s EXCEPT !.atom[i] = Atom(op.at[1], op.at[2], size, FALSE)]

Split(program, types) ==
  LongFold(LAMBDA s, k : LET i == Len(program) + 1 - k IN SplitOp(s, i, program[i], types),
           [eq |-> {}, nondet |-> {}, atom |-> [i \in DOMAIN program |-> NoAtom], offsetTmp |-> 0,
            constData |-> <<>>, ok |-> TRUE], Len(program))

\* Polynomials over atoms.  A product is a sequence of atoms in order, with
\* repetitions.
Before(a, b) == \/ a.arena < b.arena
                \/ a.arena = b.arena /\ a.offset < b.offset
                \/ a.arena = b.arena /\ a.offset = b.offset /\ a.size < b.size
Product(p, q) == SortSeq(p \o q, Before)
Terms(f) == [p \in {q \in DOMAIN f : f[q] # 0} |-> f[p]]
CoeffOf(f, p) == IF p \in DOMAIN f THEN f[p] ELSE 0
TermsPlus(f, g, sign) == Terms([p \in DOMAIN f \cup DOMAIN g |-> CoeffOf(f, p) + sign * CoeffOf(g, p)])
TermsTimes(f, g) ==
  LET pairs == (DOMAIN f) \X (DOMAIN g)
  IN  Terms([p \in {Product(pq[1], pq[2]) : pq \in pairs} |->
               MapThenSumSet(LAMBDA pq : f[pq[1]] * g[pq[2]], {pq \in pairs : Product(pq[1], pq[2]) = p})])

PolyEvals(program, atom) ==
  LongFold(LAMBDA vals, i :
             LET op == program[i]
             IN  Append(vals, CASE op.code = "add" -> TermsPlus(vals[op.a], vals[op.b], 1)
                                [] op.code = "sub" -> TermsPlus(vals[op.a], vals[op.b], -1)
                                [] op.code = "mul" -> TermsTimes(vals[op.a], vals[op.b])
                                [] op.code \in {"eqz", "store"} -> <<>>
                                [] OTHER -> <<atom[i]>> :> 1), <<>>, Len(program))

\* The map's order of the terms: by the first atom, then how often it occurs, then
\* by the second.
TermBefore(p, q) ==
  \/ Before(p[1], q[1])
  \/ p[1] = q[1] /\ \/ Len(p) = 1 /\ Len(q) = 2
                    \/ Len(p) = 2 /\ Len(q) = 2 /\ p[2] # p[1] /\ (q[2] = q[1] \/ Before(p[2], q[2]))

Inst(mem, poly, coeff, arena, offset) == [mem |-> mem, poly |-> poly, coeff |-> coeff, arena |-> arena, offset |-> offset]

\* Mutant: the chunks of an atom from the bottom.
FlattenAtomUpwards(s, a, final, coeff) ==
  LET first == a.doWrite /\ <<a.arena, a.offset>> \notin s.written
  IN  [s EXCEPT !.code = @ \o [k \in 1 .. a.size |-> Inst(IF first THEN "write" ELSE "read",
                                                          IF k < a.size THEN "shift" ELSE final, coeff,
                                                          a.arena, a.offset + k - 1)],
                !.written = IF first THEN @ \cup {<<a.arena, a.offset>>} ELSE @]
\* The chunks of an atom from the top; the first use of a hint writes it.
FlattenAtom(s, a, final, coeff) ==
  LET first == a.doWrite /\ <<a.arena, a.offset>> \notin s.written
  IN  [s EXCEPT !.code = @ \o [k \in 1 .. a.size |-> Inst(IF first THEN "write" ELSE "read",
                                                          IF k < a.size THEN "shift" ELSE final, coeff,
                                                          a.arena, a.offset + a.size - k)],
                !.written = IF first THEN @ \cup {<<a.arena, a.offset>>} ELSE @]
FlattenTerm(s, p, coeff) ==
  IF coeff \notin -3 .. 3 \/ Len(p) > 2 THEN [s EXCEPT !.ok = FALSE]
  ELSE IF Len(p) = 1 THEN FlattenAtom(s, p[1], "addTot", coeff)
  ELSE FlattenAtom(FlattenAtom(s, p[1], "setTerm", coeff), p[2], "addTot", coeff)

CarryCode(count) ==
  FlattenSeq([k \in 1 .. count |->
    <<Inst("nop", "carry1", -4, 0, count - k), Inst("nop", "carry2", -4, 0, count - k),
      Inst("nop", IF k = count THEN "eqz" ELSE "shift", -4, 0, count - k)>>])
FlattenEqz(s, terms, t) ==
  LET order == SetToSortSeq(DOMAIN terms, TermBefore)
      all   == Fold(LAMBDA u, k : FlattenTerm(u, order[k], terms[order[k]]), s, Len(order))
  IN  [all EXCEPT !.code = @ \o CarryCode(NormalWitnessSize(t))]

Nop == Inst("nop", "nop", -4, 0, 0)
Flattened(program, types, atom) ==
  Of(LAMBDA evals :
       LET s == LongFold(LAMBDA s, i : IF program[i].code = "eqz" THEN FlattenEqz(s, evals[program[i].a], types[program[i].a])
                                       ELSE s,
                         [code |-> <<>>, written |-> {}, ok |-> TRUE], Len(program))
       IN  [s EXCEPT !.code = Append(@, Nop)],
     PolyEvals(program, atom))

\* The program of the hints: ops not needed for one are destroyed, the eqzs too.
Kept(program, split) == {i \in DOMAIN program : program[i].code = "store" \/ i \in split.nondet}
Rank(S, i) == Cardinality({j \in S : j <= i})
WitGen(program, split) ==
  LET kept  == Kept(program, split)
      moved(op) == Moved(op, [i \in DOMAIN program |-> Rank(kept, i)])
      ops   == [k \in 1 .. Cardinality(kept) |-> moved(program[CHOOSE i \in kept : Rank(kept, i) = k])]
      tmps  == {i \in kept : split.atom[i].arena = kArenaTmp}
  IN  ops \o [k \in 1 .. Cardinality(tmps) |->
                LET i == CHOOSE j \in tmps : Rank(tmps, j) = k
                IN  Store(Rank(kept, i), <<kArenaTmp, split.atom[i].offset>>)]

polySplit(program, types) ==
  Of(LAMBDA split :
       Of(LAMBDA flat : [code |-> flat.code, constData |-> split.constData, atom |-> split.atom, witgen |-> WitGen(program, split),
                         ok |-> flat.ok /\ split.ok],
          Flattened(program, types, split.atom)),
     Split(program, types))

-----------------------------------------------------------------------------
(* The rows: poly is the atom so far, term the first factor of a product,  *)
(* tot the sum of the terms.                                               *)

CARRY1  == BASE * (BASE \div 4)
NegPoly == Tuple(LAMBDA i : BASE \div 2, PER_POLY)
Zero    == Tuple(LAMBDA i : 0, PER_POLY)
Cleared == [poly |-> <<0>>, term |-> <<1>>, tot |-> <<0>>]

onAccum(r, inst, bytes) ==
  LET new == <<>> \o Plus(r.poly, bytes)
  IN  CASE inst.poly = "nop"     -> Cleared @@ r
        [] inst.poly = "shift"   -> [r EXCEPT !.poly = Zero \o new]
        [] inst.poly = "setTerm" -> [r EXCEPT !.poly = <<0>>, !.term = new]
        [] inst.poly = "addTot"  -> [r EXCEPT !.poly = <<0>>, !.term = <<1>>,
                                              !.tot = <<>> \o Plus(@, Times(Times(r.term, new), <<inst.coeff>>))]
        [] inst.poly = "carry1"  -> [r EXCEPT !.poly = <<>> \o Plus(@, Times(Minus(bytes, NegPoly), <<CARRY1>>))]
        [] inst.poly = "carry2"  -> [r EXCEPT !.poly = <<>> \o Plus(@, Times(bytes, <<BASE>>))]
        [] inst.poly = "eqz"     ->
             Cleared @@ [r EXCEPT !.ok = @ /\ SamePoly(Plus(r.tot, Times(new, <<-BASE, 1>>)), <<0>>)]

\* A row reads its bytes from memory, or is given them; it may write them.
BigInt2Cycle(r, inst, given) ==
  LET at == <<inst.arena, inst.offset>>
  IN  CASE inst.mem = "read"  -> onAccum(r, inst, r.mem[at])
        [] inst.mem = "write" -> onAccum([r EXCEPT !.mem = (at :> given) @@ @], inst, given)
        [] inst.mem = "nop"   -> onAccum(r, inst, given)

\* What each row asks for.  The bytes of the carries, from the first row of the
\* carries on; past their end, what is found there.  Of a sum that is not zero at
\* BASE there are none ("Bad carry").
TotCarry(tot) == FoldLeft(LAMBDA cs, c : Append(cs, Quot256(c + Coeff(cs, Len(cs)))), <<>>, tot)
ZeroAtBase(tot) ==
  LET cs == TotCarry(tot) IN \A i \in DOMAIN tot : (tot[i] + Coeff(cs, i - 1)) % BASE = 0
CarryByte(code, val) ==
  CASE code = "carry1" -> val \div CARRY1 % BASE
    [] code = "carry2" -> val \div BASE % (BASE \div 4)
    [] OTHER           -> val % BASE
Witness(r, inst, hints, past) ==
  CASE inst.mem = "write" -> hints[<<inst.arena, inst.offset>>]
    [] inst.mem = "nop" /\ inst.poly # "nop" ->
         Of(LAMBDA cs : Tuple(LAMBDA i : LET k == inst.offset * PER_POLY + i
                                         IN  CarryByte(inst.poly, (IF k \in DOMAIN cs THEN cs[k] ELSE past) + CARRY1 * (BASE \div 2)),
                              PER_POLY),
            TotCarry(r.tot))
    [] OTHER -> Zero
HasWitness(r, inst) == inst.poly = "carry1" => ZeroAtBase(r.tot)
\* Are there bytes asked for past the carries?
ReadsPast(r, inst) == inst.poly = "carry1" /\ (inst.offset + 1) * PER_POLY > Len(r.tot)

Row(r, inst, hints, past) ==
  IF ~r.ok THEN r
  ELSE [BigInt2Cycle([r EXCEPT !.past = @ \/ ReadsPast(r, inst)], inst, Witness(r, inst, hints, past))
          EXCEPT !.ok = @ /\ HasWitness(r, inst)]

\* The check of a program's code over memory, with these hints to write.
Rows(code, mem, hints, past) ==
  LongFold(LAMBDA r, i : Row(r, code[i], hints, past),
           Cleared @@ [mem |-> mem, ok |-> TRUE, past |-> FALSE], Len(code))

\* Memory: chunks of the values of loads, and the constants.
InMemory(at, n, size) == [k \in {<<at[1], at[2] + i>> : i \in 0 .. size - 1} |-> ChunkOf(n, k[2] - at[2])]
Filled(program, types, io, constData) ==
  LongFold(LAMBDA mem, i : IF program[i].code # "load" THEN mem
                           ELSE InMemory(program[i].at, io[program[i].at], NormalWitnessSize(types[i])) @@ mem,
           [at \in {<<kArenaConst, k - 1>> : k \in DOMAIN constData} |-> constData[at[2] + 1]] @@ <<>>,
           Len(program))

-----------------------------------------------------------------------------
(* What the accelerator promises of a program, lowered and with its types, *)
(* and the values io of its loads.                                         *)

Splits(ready) == Of(LAMBDA r : [split |-> polySplit(r.program, r.types)] @@ r, ready)
HintsOf(g)    == {i \in DOMAIN g.program : g.program[i].code \in Hints /\ g.split.atom[i].arena # 0}
InChunks(g, vals) ==
  LongFold(LAMBDA all, i : IF i \notin HintsOf(g) THEN all
                           ELSE LET a == g.split.atom[i] IN InMemory(<<a.arena, a.offset>>, vals[i], a.size) @@ all,
           <<>>, Len(g.program))
Accelerated(g, io, vals, past) ==
  Of(LAMBDA hints : Rows(g.split.code, Filled(g.program, g.types, io, g.split.constData), hints, past), InChunks(g, vals))

\* The integers of a program whose hints are vals
IntegersOf(program, vals, io) ==
  LongFold(LAMBDA v, i : Append(v, LET op == program[i]
                                   IN  CASE op.code = "load"  -> io[op.at]
                                         [] op.code = "const" -> op.value
                                         [] op.code = "add"   -> v[op.a] + v[op.b]
                                         [] op.code = "sub"   -> v[op.a] - v[op.b]
                                         [] op.code = "mul"   -> v[op.a] * v[op.b]
                                         [] op.code \in {"eqz", "store"} -> v[op.a]
                                         [] OTHER             -> vals[i]), <<>>, Len(program))
Holds(program, vals, io) ==
  Of(LAMBDA v : \A i \in DOMAIN program : program[i].code = "eqz" => v[i] = 0, IntegersOf(program, vals, io))

\* The split program's hints are those of the program, its check accepts them, and
\* leaves in memory what the program stores, unless bytes are read past the
\* carries and are not zero there.
Proves(g, io) ==
  Of(LAMBDA e :
       e.error = "" =>
         Of(LAMBDA vals :
              /\ g.split.ok
              /\ Of(LAMBDA w : w.error = "" /\ w.stored = {<<<<g.split.atom[i].arena, g.split.atom[i].offset>>, vals[i]>> : i \in HintsOf(g)},
                    Eval(g.split.witgen, Types(g.split.witgen), io))
              /\ Of(LAMBDA r : r.ok /\ \A s \in e.stored : r.mem[s[1]] = ChunkOf(s[2], 0), Accelerated(g, io, vals, 0))
              /\ Of(LAMBDA r : r.ok = ~r.past, Accelerated(g, io, vals, 1)),
            Tuple(LAMBDA i : Value(e.polys[i]), Len(g.program))),
     Eval(g.program, g.types, io))

\* Can the three bytes of a carry hold those of a sum of this type?
CarriesHeld(t) == Larger(t.maxPos, t.maxNeg) \div (BASE - 1) < CARRY1 * (BASE \div 2)
Fits(g) == g.split.ok /\ \A i \in DOMAIN g.program : g.program[i].code = "eqz" => CarriesHeld(g.types[g.program[i].a])

\* Of other hints the check accepts those for which the program's equations hold.
Binds(g, io) ==
  Of(LAMBDA e :
       e.error = "" =>
         \A i \in HintsOf(g) :
           Of(LAMBDA vals : Accelerated(g, io, vals, 0).ok = Holds(g.program, vals, io),
              Tuple(LAMBDA j : IF j = i THEN (Value(e.polys[j]) + 1) % BASE^g.types[j].coeffs ELSE Value(e.polys[j]),
                    Len(g.program))),
     Eval(g.program, g.types, io))
=============================================================================
