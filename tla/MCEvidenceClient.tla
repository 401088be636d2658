------------------------- MODULE MCEvidenceClient -------------------------
(***************************************************************************)
(* An instance of EvidenceClient for TLC: a request to the civil           *)
(* registration authority and the national identity agency, and one to the *)
(* first of them only, for an assertion or for its definitions.            *)
(***************************************************************************)
EXTENDS EvidenceClient, TLC

CONSTANTS cra, nia, r1, r2

TwoRequests == {r1, r2}

TwoPlans == [r \in TwoRequests |-> IF r = r1 THEN <<cra, nia>> ELSE <<cra>>]

CivilRotates == (cra :> 1) @@ (nia :> 0)

TwoAsks == [r \in TwoRequests |-> IF r = r1 THEN {"evidence"} ELSE Kinds]
=============================================================================
