-------------------------- MODULE MCPreflightTrace --------------------------
(***************************************************************************)
(* Instances of PreflightTrace for TLC.  The last page is the system's.    *)
(* A digest is the sequence of the pages below its node.                   *)
(***************************************************************************)
EXTENDS PreflightTrace

PageDigest(data) == <<data>>
PairDigest(left, right) == left \o right
=============================================================================
