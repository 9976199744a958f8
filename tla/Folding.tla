------------------------------ MODULE Folding ------------------------------
(***************************************************************************)
(* Loops: op over 1 .. n, sums, and tuples computed where they are built.  *)
(***************************************************************************)
EXTENDS Integers, Sequences, TLC

\* op over 1 .. n from the left
Fold(op(_, _), base, n) == LET acc[i \in 0 .. n] == IF i = 0 THEN base ELSE op(acc[i - 1], i) IN acc[n]
\* The sum of f over 0 .. n - 1
Sum(f(_), n) == Fold(LAMBDA s, i : s + f(i - 1), 0, n)

\* The function f, and F of v, evaluated here and once
Vector(f) == f @@ <<>>
Of(F(_), v) == CHOOSE r \in {F(w) : w \in {v}} : TRUE

\* Fold for a long loop: steps s + 1 .. s + 4, s + 16, s + 64 of it, each after
\* the ones before were evaluated
AtMost4(n) == IF n < 4 THEN n ELSE 4
Steps4(op(_, _), x, s, n) == Fold(LAMBDA y, i : Of(LAMBDA v : op(v, s + i), y), x, AtMost4(n - s))
Steps16(op(_, _), x, s, n) ==
  Fold(LAMBDA y, i : Of(LAMBDA v : Steps4(op, v, s + 4 * (i - 1), n), y), x, AtMost4((n - s + 3) \div 4))
Steps64(op(_, _), x, s, n) ==
  Fold(LAMBDA y, i : Of(LAMBDA v : Steps16(op, v, s + 16 * (i - 1), n), y), x, AtMost4((n - s + 15) \div 16))
LongFold(op(_, _), base, n) ==
  Fold(LAMBDA y, i : Of(LAMBDA v : Steps64(op, v, 64 * (i - 1), n), y), base, (n + 63) \div 64)

\* <<f(1), ..., f(n)>>
Tuple(f(_), n) == <<>> \o [i \in 1 .. n |-> f(i)]
=============================================================================
