------------------------- MODULE MCSourcePublisher -------------------------
(***************************************************************************)
(* Instances of SourcePublisher for TLC.                                   *)
(***************************************************************************)
EXTENDS SourcePublisher
=============================================================================
