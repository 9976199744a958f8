---------------------------- MODULE MCRecursion ----------------------------
(***************************************************************************)
(* Recursion for TLC: a proof whose first values are 1, 5 and 40, and      *)
(* groups of bytes.                                                        *)
(***************************************************************************)
EXTENDS Recursion

MCProof == <<251, 486, 43>> \o [i \in 1 .. 24 |-> (97 * i * i + 31 * i + 5) % P]
MCCoefficients == [g \in 1 .. 6 |-> [i \in 1 .. 16 |-> (3 * g + i * i) % 8]]
=============================================================================
