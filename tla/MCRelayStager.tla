--------------------------- MODULE MCRelayStager ---------------------------
(***************************************************************************)
(* An instance of RelayStager for TLC: overlapping runs, of two versions   *)
(* of the checkout.                                                        *)
(***************************************************************************)
EXTENDS RelayStager
=============================================================================
