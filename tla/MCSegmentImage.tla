--------------------------- MODULE MCSegmentImage ---------------------------
(***************************************************************************)
(* Instances of SegmentImage for TLC.  A digest is the sequence of the     *)
(* pages below the node, so that two digests of one depth are equal only   *)
(* when the memories are: the hash is free of collisions.                  *)
(***************************************************************************)
EXTENDS SegmentImage, Sequences

PageDigest(page) == <<page>>
PairDigest(left, right) == left \o right
Zeros == [o \in Offsets |-> 0]
=============================================================================
