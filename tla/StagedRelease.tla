--------------------------- MODULE StagedRelease ---------------------------
(***************************************************************************)
(* What a Relay's runtime stager promises to the Relay that mounts its     *)
(* volume: runtime and package of one release become visible together, in  *)
(* one step, and what has become visible never changes.                    *)
(***************************************************************************)
CONSTANTS Releases, Nothing

VARIABLE visible       \* the releases of <<runtime.yaml, package>>, or Nothing

Init == visible = Nothing

Reveal(r) ==
    /\ visible = Nothing
    /\ visible' = <<r, r>>

Next == \E r \in Releases : Reveal(r)

Spec == Init /\ [][Next]_visible
=============================================================================
