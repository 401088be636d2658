-------------------------- MODULE MCTransitSocket --------------------------
(***************************************************************************)
(* Instances of TransitSocket for TLC: the signers of two deployments on   *)
(* one path, and as many inodes as they can use.                           *)
(***************************************************************************)
EXTENDS TransitSocket, TLC

Symmetry == Permutations(Signers) \cup Permutations(Inodes)
=============================================================================
