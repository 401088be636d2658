-------------------------- MODULE MCLifecycleProof --------------------------
(***************************************************************************)
(* An instance of LifecycleProof for TLC: two runs, one after the other,   *)
(* and one publisher container at a time.                                  *)
(***************************************************************************)
EXTENDS LifecycleProof
=============================================================================
