----------------------------- MODULE MCReceipts -----------------------------
(***************************************************************************)
(* Instances of Receipts for TLC: a session of two segments that assumes a *)
(* claim of another session, which meets it halfway under another input,   *)
(* and a union of that claim with a union of two hashes of the keccak      *)
(* circuit.                                                                *)
(***************************************************************************)
EXTENDS Receipts

CONSTANTS zkvm, keccak   \* control roots

\* A digest nothing looks into.
Leaf(name) == taggedStruct(name, <<>>, <<>>)

At(pc, memory) == [pc |-> pc, memory |-> Leaf(memory)]

Segment(input, pre, post, exit, output) ==
  [input |-> Leaf(input), pre |-> pre, post |-> post, sysExit |-> exit, userExit |-> 0,
   output |-> output]

First == Segment("input", At(0, "a"), At(1, "b"), 2, NoDigest)

\* A session of its own: it starts where First ended, but reads another input.
Helper == Segment("other", At(1, "b"), At(3, "c"), 0, OutputDigest(Leaf("result"), NoDigest))

Under(root, digest) == [claim |-> digest, controlRoot |-> root]

Pair(left, right) == [left |-> left, right |-> right]

UnionOf(w) == UnionDigest([left |-> AssumptionDigest(w.left), right |-> AssumptionDigest(w.right)])

Hash == Leaf("hash")

Inner == Pair(Under(keccak, Hash), Under(keccak, Hash))
Outer == Pair(Under(NoDigest, UnionOf(Inner)), Under(NoDigest, ClaimDigest(Helper)))

Second ==
  Segment("input", At(1, "b"), At(2, "c"), 0,
    OutputDigest(Leaf("journal"),
      AssumptionsDigest(Under(NoDigest, ClaimDigest(Helper)),
        AssumptionsDigest(Under(NoDigest, UnionOf(Outer)), NoDigest))))

MCSegments == {Helper, First, Second}
MCSession == <<First, Second>>
MCKeccakClaims == {Hash}
MCWanted == {Inner, Outer}
MCRoots == {zkvm, keccak}
MCAllowed == [root \in MCRoots |->
  IF root = zkvm THEN {"rv32im", "lift", "join", "resolve", "identity", "union"}
  ELSE {"keccak_lift"}]

\* The least true sets: a union is of one before it at most once, and the lists of
\* the segments have two entries.
Ran == {Spanned(q) : q \in Runs}

Grown(true) ==
  [claims  |-> true.claims \cup Discharged(true.claims, true.digests),
   digests |-> true.digests \cup {ClaimDigest(c) : c \in true.claims} \cup United(true.digests)]

Least ==
  LET grow[n \in Nat] ==
        IF n = 0 THEN [claims |-> Ran, digests |-> MCKeccakClaims] ELSE Grown(grow[n - 1])
  IN  grow[8]

MCTrueClaims == Least.claims
MCTrueDigests == Least.digests
=============================================================================
