------------------------------ MODULE Receipts ------------------------------
(***************************************************************************)
(* The recursion predicates (circuit/predicates): programs that verify     *)
(* seals and make new receipts about what they say.  lift takes the seal   *)
(* of one segment, join two neighbouring claims, resolve removes an        *)
(* assumption another receipt proves, union makes one claim of any two     *)
(* receipts, unions too, and identity changes nothing.  A prover may run   *)
(* any of them on any seals it has, in any order and with any control      *)
(* root.  Unions have no end: Wanted bounds those a prover thinks of.      *)
(*                                                                         *)
(* A digest is the structure it was made of, so that no two agree by       *)
(* accident.  A seal is a receipt: that a seal which verifies was made by  *)
(* the program it names is what the proof system promises (verify.cpp).    *)
(* Membership of a program in a control tree stands for the Merkle path.   *)
(* The pc of a state is what U32Reg::flat makes of its four bytes, modulo  *)
(* the prime: no program compares or hashes anything else of it.           *)
(* What is true is a parameter: any sets of claims and of digests that     *)
(* hold those of runs and of hashes and are closed under discharging true  *)
(* assumptions and under uniting them, so also the least.                  *)
(***************************************************************************)
EXTENDS Naturals, Sequences, FiniteSets

CONSTANTS
  Segments,       \* the claims of the segments that were proved
  KeccakClaims,   \* the digests the keccak circuit proved
  Roots,          \* control roots
  Allowed,        \* the programs in the tree of a root
  Trusted,        \* the root the final verifier accepts
  NoDigest,       \* 32 zero bytes
  Wanted,         \* the pairs of assumptions a prover unites, any set of them
  TrueClaims,     \* what the properties call true, see below
  TrueDigests

VARIABLE receipts   \* the seals made: [code, root, out]

ASSUMPTION_TAG == "risc0.Assumption"

taggedStruct(tag, digests, vals) == [tag |-> tag, digests |-> digests, vals |-> vals]

taggedListCons(tag, head, tail) == taggedStruct(tag, <<head, tail>>, <<>>)

\* SystemState::digest, ReceiptClaim::digest, Output::digest, Assumption::digest
StateDigest(s) == taggedStruct("risc0.SystemState", <<s.memory>>, <<s.pc>>)

ClaimDigest(c) ==
  taggedStruct("risc0.ReceiptClaim",
               <<c.input, StateDigest(c.pre), StateDigest(c.post), c.output>>,
               <<c.sysExit, c.userExit>>)

OutputDigest(journal, assumptions) ==
  taggedStruct("risc0.Output", <<journal, assumptions>>, <<>>)

AssumptionDigest(a) == taggedStruct(ASSUMPTION_TAG, <<a.claim, a.controlRoot>>, <<>>)

UnionDigest(u) == taggedStruct("risc0.UnionClaim", <<u.left, u.right>>, <<>>)

AssumptionsDigest(head, tail) == taggedListCons("risc0.Assumptions", AssumptionDigest(head), tail)

-----------------------------------------------------------------------------
(* What the programs check of their inputs                                 *)

\* verifyAndValidate: the program that made the seal is in the tree of root.
verifyAndValidate(root, code) == code \in Allowed[root]

\* getRecursiveObj: the claims of the receipts a program may read under root.
Claims(root) ==
  {r.out.obj : r \in {x \in receipts : /\ verifyAndValidate(root, x.code)
                                       /\ x.root = root
                                       /\ x.out.kind = "claim"}}

\* The root is named, even when it is the condition's.
AssumptionsNamed(condRoot) ==
  {[claim |-> r.out.digest, controlRoot |-> r.root] :
     r \in {x \in receipts : verifyAndValidate(x.root, x.code)}}

\* verifyAssumption: what a receipt proves, for a condition under condRoot.  The
\* root is worked out from the path, and may be left out when it is the
\* condition's.
Assumptions(condRoot) ==
  LET verified == {r \in receipts : verifyAndValidate(r.root, r.code)}
  IN  {[claim |-> r.out.digest, controlRoot |-> r.root] : r \in verified}
        \cup {[claim |-> r.out.digest, controlRoot |-> NoDigest] :
                r \in {x \in verified : x.root = condRoot}}

\* Two receipts of a run, whatever their inputs.
JoinableAnyInput(c1, c2) ==
  /\ c1.post = c2.pre
  /\ c1.sysExit = 2 /\ c1.userExit = 0
  /\ c1.output = NoDigest

Joinable(c1, c2) ==
  /\ c1.post = c2.pre
  /\ c1.sysExit = 2 /\ c1.userExit = 0
  /\ c1.output = NoDigest
  /\ c1.input = c2.input

join(c1, c2) == [c2 EXCEPT !.pre = c1.pre]

\* resolve: the tail and the journal are inputs too, and must give, with the
\* assumption as the head, the output's digest.
Journal(cond) == cond.output.digests[1]
Listed(cond)  == cond.output.digests[2]
Rest(cond)    == Listed(cond).digests[2]

Resolvable(cond, assum) ==
  /\ cond.output # NoDigest /\ Listed(cond) # NoDigest
  /\ Listed(cond) = AssumptionsDigest(assum, Rest(cond))

resolve(cond) == [cond EXCEPT !.output = OutputDigest(Journal(cond), Rest(cond))]

-----------------------------------------------------------------------------

Init == receipts = {}

Made(code, root, out) == receipts' = receipts \cup {[code |-> code, root |-> root, out |-> out]}

Claim(c) == [kind |-> "claim", obj |-> c, digest |-> ClaimDigest(c)]

Lift(root) ==
  /\ verifyAndValidate(root, "rv32im")
  /\ \E c \in Segments : Made("lift", root, Claim(c))

Join(root) ==
  \E c1, c2 \in Claims(root) : Joinable(c1, c2) /\ Made("join", root, Claim(join(c1, c2)))

Resolve(root) ==
  \E cond \in Claims(root), assum \in Assumptions(root) :
    Resolvable(cond, assum) /\ Made("resolve", root, Claim(resolve(cond)))

Identity(root) ==
  \E c \in Claims(root) : Made("identity", root, Claim(c))

\* Any two receipts that verify, whatever they say and whatever root the new one
\* is for.
Unite(root, w) ==
  LET u == [left |-> AssumptionDigest(w.left), right |-> AssumptionDigest(w.right)]
  IN  /\ {w.left, w.right} \subseteq Assumptions(root)
      /\ Made("union", root, [kind |-> "union", obj |-> u, digest |-> UnionDigest(u)])

Union(root) == \E w \in Wanted : Unite(root, w)

\* keccak_lift takes its root as it comes (keccak2/predicates.cpp).
KeccakLift(root) ==
  \E d \in KeccakClaims : Made("keccak_lift", root, [kind |-> "keccak", obj |-> d, digest |-> d])

Next == \E root \in Roots :
  Lift(root) \/ Join(root) \/ Resolve(root) \/ Identity(root) \/ Union(root) \/ KeccakLift(root)

vars == receipts

\* A prover that is never stopped gives each program its turn.  All but union make
\* finitely many receipts, so a turn comes to each of those; of unions there may be
\* no end, and one that can be made is not put off for ever by the others.
Fairness ==
  \A root \in Roots :
    /\ WF_vars(Lift(root)) /\ WF_vars(KeccakLift(root))
    /\ WF_vars(Join(root)) /\ WF_vars(Resolve(root))
    /\ \A w \in Wanted : WF_vars(Unite(root, w))

Spec == Init /\ [][Next]_vars /\ Fairness

-----------------------------------------------------------------------------
(* What receipts mean                                                      *)

IsClaim(c) ==
  c = [input |-> c.input, pre |-> c.pre, post |-> c.post,
       sysExit |-> c.sysExit, userExit |-> c.userExit, output |-> c.output]

\* A run of segments, each continuing the one before it, and what it does.
IsRun(q) ==
  \A i \in 1 .. Len(q) - 1 :
    /\ q[i].post = q[i + 1].pre /\ q[i].input = q[i + 1].input
    /\ q[i].sysExit = 2 /\ q[i].userExit = 0 /\ q[i].output = NoDigest

\* No longer than without a segment twice, which can do no more.
Runs == {q \in UNION {[1 .. n -> Segments] : n \in 1 .. Cardinality(Segments)} : IsRun(q)}

Spanned(q) == [q[Len(q)] EXCEPT !.pre = q[1].pre]

\* A digest that is true may be assumed under any root.
TrueAssumptions(digests) ==
  {[claim |-> d, controlRoot |-> root] : d \in digests, root \in Roots \cup {NoDigest}}

\* What follows from claims whose next assumption is true: the same without it.
Discharged(claims, digests) ==
  {resolve(c) : c \in {d \in claims : \E a \in TrueAssumptions(digests) : Resolvable(d, a)}}

\* What follows from two true assumptions: both.
United(digests) ==
  {UnionDigest([left |-> AssumptionDigest(w.left), right |-> AssumptionDigest(w.right)]) :
     w \in {v \in Wanted : {v.left, v.right} \subseteq TrueAssumptions(digests)}}

ASSUME SegmentsAssumption ==
  /\ IsFiniteSet(Segments)
  /\ \A c \in Segments : IsClaim(c)

\* A claim is true when a run does what it says, and stays true without an
\* assumption that is.  No digest of an output is 32 zero bytes.
ASSUME TruthAssumption ==
  /\ \A q \in Runs : Spanned(q) \in TrueClaims
  /\ Discharged(TrueClaims, TrueDigests) \subseteq TrueClaims
  /\ \A c \in Discharged(TrueClaims, TrueDigests) : c.output # NoDigest

\* A digest is true when it is of a true claim, of a hash that was proved, or of
\* two that are.
ASSUME DigestsAssumption ==
  /\ \A c \in TrueClaims : ClaimDigest(c) \in TrueDigests
  /\ KeccakClaims \subseteq TrueDigests
  /\ United(TrueDigests) \subseteq TrueDigests

Accepted == {r \in receipts : r.root = Trusted /\ verifyAndValidate(Trusted, r.code)}

\* Every receipt the final verifier accepts is true: it spans segments that follow
\* each other under one input, ends as the last of them did, and has lost only
\* assumptions that are true; or it is a hash, or a union of what is true, unions
\* too (predicates.cpp:123-207, gen_predicates.cpp:26-81).
ReceiptsHold == \A r \in Accepted : r.out.digest \in TrueDigests

CONSTANT Session   \* the segments of a whole session, in order

Whole(c) ==
  /\ c.pre = Session[1].pre /\ c.post = Session[Len(Session)].post
  /\ c.output.digests[2] = NoDigest

\* In whatever order the prover works, it can finish: the session's claim with
\* nothing left to assume, a union it assumed included (predicates.cpp:159-207).
SessionProved == <>(\E r \in Accepted : r.out.kind = "claim" /\ r.out.obj.output # NoDigest
                                          /\ Whole(r.out.obj))
=============================================================================
