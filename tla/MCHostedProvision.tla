------------------------- MODULE MCHostedProvision -------------------------
(***************************************************************************)
(* Instances of HostedProvision for TLC: one operator-run writer, as the   *)
(* deployment documents, and two writers at once.                          *)
(***************************************************************************)
EXTENDS HostedProvision, TLC

WriterSymmetry == Permutations(Writers)
=============================================================================
